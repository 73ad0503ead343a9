------------------------- MODULE DeviceConfigProofs -------------------------
(***************************************************************************)
(* Theorems about DeviceConfig for every finite set of devices, every      *)
(* configuration at the start and every sequence of requests after it:     *)
(*                                                                         *)
(*   TypeCorrect            from Types and Ids,                            *)
(*   EachRequestIsAnswered  from them, AskedFor and Carried (Requested),   *)
(*   ServicesAgree          from Messages and Views (Agreed),              *)
(*   ServicesAreNotEnded    from Survives,                                 *)
(*   DevicesFollow          from Power and Confed.                         *)
(*                                                                         *)
(* The invariants come first, each followed by the section with its        *)
(* lemmas in the order of the list; those of DevicesFollow stand in its    *)
(* own sections. A lemma ...Effect says field by field what an action of   *)
(* the model assigns; later lemmas cite it instead of the action.          *)
(***************************************************************************)
EXTENDS DeviceConfig, FiniteSetTheorems, TLAPS

Fields == {"enabled", "conf", "param"}
F == log.refused \cup log.stale \cup log.unloaded \cup log.torn
IsSeq(q) == q \in Seq(ToSet(q))
Holds(q, id) == \E i \in DOMAIN q: q[i].id = id

\* Types: what each variable holds, and what a handler in the middle of a request may rely
\* on: SciHub's device is none of those that are still to do or already stored, its entry is
\* that of its manager until the manager reloads, and the update is the rest of the request.
IsUpdates(us) == DOMAIN us \subseteq Devices /\ \A d \in DOMAIN us: IsUpdate(us[d])
IsSent(r) ==
  /\ r.action \in {"update", "reload", "set"} /\ r.id \in 1..(fresh - 1)
  /\ r.action = "update" => IsUpdates(r.us)
  /\ r.action = "set" => IsConfig(r.us)
IsMessage(m) == m.action \in {"update", "reload"} /\ (m.action = "update" => IsUpdates(m.us))
IsAsk(a) == a.id \in 1..(fresh - 1) /\ a.dev \in Devices /\ IsUpdate(a.u) /\ Keys(a.u) \cap {"conf", "enabled"} # {}
MgrFields == {"alive", "gen", "devs", "load", "session", "ask"}
IsManager(m) ==
  /\ DOMAIN m = MgrFields
  /\ m.alive \in BOOLEAN /\ m.gen \in Nat /\ m.load \in {"idle", "flushed", "loading", "disabling"}
  /\ IsConfig(m.devs) /\ IsConfig(m.session)
ManagersOK ==
  /\ DOMAIN mgr = Services /\ \A s \in Services: IsManager(mgr[s])
  /\ \A s \in Services: mgr[s].load = "flushed" => DOMAIN mgr[s].devs = {}
  /\ \A s \in Services: mgr[s].load \in {"idle", "flushed"} => DOMAIN mgr[s].session = {}
  /\ \A s \in Services: mgr[s].load = "loading" => s \in {"client", "ds"}
  /\ \A s \in Services: mgr[s].load = "disabling" => s = "ds"
  /\ mgr["client"].load = "loading" => DOMAIN mgr["client"].devs = {}
HubFields == {"pc", "req", "left", "updated", "stored", "dev", "u", "gen", "entry", "ask"}
HubOK ==
  /\ hub = Idle \/ (DOMAIN hub = HubFields /\ hub.pc \in {"next", "ask", "wait"})
  /\ hub.pc # "idle" =>
       /\ hub.req.action = "update" /\ IsUpdates(hub.req.us) /\ hub.req.id \in 1..(fresh - 1)
       /\ IsSeq(hub.left) /\ \A i, j \in DOMAIN hub.left: hub.left[i] = hub.left[j] => i = j
       /\ ToSet(hub.left) \subseteq DOMAIN hub.req.us
       /\ hub.updated \in BOOLEAN /\ hub.stored \subseteq DOMAIN hub.req.us \ ToSet(hub.left)
  /\ hub.pc \in {"ask", "wait"} =>
       /\ hub.dev \in DOMAIN hub.req.us \ (ToSet(hub.left) \cup hub.stored)
       /\ hub.gen \in 0..mgr["hub"].gen /\ IsEntry(hub.entry)
       /\ Attached => hub.dev \in DOMAIN Devs("hub")
       /\ IsUpdate(hub.u) /\ Keys(hub.u) \subseteq Keys(hub.req.us[hub.dev])
       /\ \A k \in Keys(hub.u): hub.u[k] = hub.req.us[hub.dev][k]
  /\ hub.pc = "wait" => Keys(hub.u) \cap {"conf", "enabled"} # {} /\ hub.ask \in 1..(fresh - 1)
DshOK ==
  /\ dsh = Idle \/ (dsh = [pc |-> dsh.pc, ask |-> dsh.ask, nested |-> dsh.nested] /\ dsh.pc \in {"update", "disabling"})
  /\ dsh.pc # "idle" => IsAsk(dsh.ask)
ObjOK ==
  /\ DOMAIN obj = Devices /\ \A d \in Devices: DOMAIN obj[d] = {"conf", "up"} /\ obj[d].up \in {"connected", "off", "destroyed"}
RedisOK == redis = [config |-> redis.config, info |-> redis.info] /\ IsConfig(redis.config) /\ redis.info \subseteq Devices
LogOK == DOMAIN log = {"unloaded", "gone", "late", "torn", "refused", "silent", "stale", "remade"}
ClientOK == IsSeq(todo) /\ (\A i \in DOMAIN todo: IsRequest(todo[i])) /\ waits \in 0..(fresh - 1)
FreshOK == fresh \in Nat \ {0}
RequestsOK == IsSeq(requests) /\ \A i \in DOMAIN requests: IsSent(requests[i])
AsksOK == IsSeq(asks) /\ \A i \in DOMAIN asks: IsAsk(asks[i])
QueuesOK == FreshOK /\ RequestsOK /\ AsksOK
RepliesOK ==
  \A r \in replies: r.accepted \in BOOLEAN /\ r.id \in 1..(fresh - 1) /\ r = [id |-> r.id, accepted |-> r.accepted]
InboxOK ==
  DOMAIN inbox = Services /\ \A s \in Services: IsSeq(inbox[s]) /\ \A i \in DOMAIN inbox[s]: IsMessage(inbox[s][i])
Types == ClientOK /\ QueuesOK /\ RepliesOK /\ InboxOK /\ ManagersOK /\ HubOK /\ DshOK /\ ObjOK /\ RedisOK /\ LogOK

\* Ids: a request ID is in one place, in a queue, with a handler or answered, and has one
\* answer; Accounted: it is somewhere. The two handlers use the IDs of one counter.
Distinct(q) == \A i, j \in DOMAIN q: i # j => q[i].id # q[j].id
OneAnswer == \A a, b \in replies: a.id = b.id => a = b
HubId(id) == hub.pc # "idle" /\ hub.req.id = id
DshId(id) == dsh.pc # "idle" /\ dsh.ask.id = id
OnePlace(id) ==
  /\ Holds(requests, id) => ~Holds(asks, id) /\ ~HubId(id) /\ ~DshId(id) /\ Answer(id) = {}
  /\ Holds(asks, id) => ~HubId(id) /\ ~DshId(id) /\ Answer(id) = {}
  /\ HubId(id) => ~DshId(id) /\ Answer(id) = {}
  /\ DshId(id) => Answer(id) = {}
Somewhere(id) ==
  Answer(id) # {} \/ id \in log.silent \/ Holds(requests, id) \/ Holds(asks, id) \/ HubId(id) \/ DshId(id)
Ids == Distinct(requests) /\ Distinct(asks) /\ OneAnswer /\ \A id \in 1..(fresh - 1): OnePlace(id)
Accounted == \A id \in 1..(fresh - 1): Somewhere(id)

\* AskedFor: what the device server is asked, and works on, is the change that SciHub waits for,
\* or SciHub has given up on it and the log says so (refused and late).
IsAsked(a) == hub.pc = "wait" /\ hub.ask = a.id
IsAwaited(a) == IF IsAsked(a) THEN hub.dev = a.dev /\ hub.u = a.u ELSE a.dev \in log.refused /\ a.dev \in log.late
AskedFor == (\A i \in DOMAIN asks: IsAwaited(asks[i])) /\ (dsh.pc # "idle" => IsAwaited(dsh.ask))
\* Carried: where each device of SciHub's request is (Placed), that what has been stored is as
\* requested (Stored), and that the entry that is being worked on has the values of the keys
\* that are done (Applied); but for the devices of G, which AcceptedIsStored excepts.
G == log.refused \cup log.stale
Placed ==
  \A d \in DOMAIN hub.req.us \ G:
     Keys(hub.req.us[d]) = {} \/ d \in ToSet(hub.left) \/ d \in hub.stored \/ (hub.pc # "next" /\ d = hub.dev)
Stored ==
  \A d \in hub.stored \ G:
     d \in DOMAIN redis.config /\ \A k \in Keys(hub.req.us[d]) \cap Fields: redis.config[d][k] = hub.req.us[d][k]
Applied ==
  hub.dev \notin G =>
    /\ \A k \in (Keys(hub.req.us[hub.dev]) \ Keys(hub.u)) \cap Fields: Entry[k] = hub.req.us[hub.dev][k]
    /\ Keys(hub.u) # Keys(hub.req.us[hub.dev]) => hub.updated
Carried == (hub.pc # "idle" => Placed /\ Stored) /\ (hub.pc \in {"ask", "wait"} => Applied)

\* Messages: the last message about a key of a device in an inbox, with no reload behind it, has
\* the value that is stored, unless SciHub has stored another and not told yet (Pending).
\* Views: a service that has read the configuration and has no reload before it differs from
\* what is stored only in a key that is in its inbox, that is Pending, or that it changed first
\* (Early): SciHub in its own manager, the device server when it is asked, the client with a
\* setter. While a session is loaded, the view of a device is its entry in the session.
Mentions(m, d, k) == m.action = "update" /\ d \in DOMAIN m.us /\ k \in Keys(m.us[d])
Pending(d, k) == hub.pc # "idle" /\ d \in hub.stored /\ k \in Keys(hub.req.us[d])
Single(r, d, k) == r.action = "update" /\ DOMAIN r.us = {d} /\ k \in Keys(r.us[d])
Early(s, d, k) ==
  \/ s \in {"hub", "ds"} /\ hub.pc \in {"ask", "wait"} /\ d = hub.dev /\ k \in Keys(hub.req.us[d])
  \/ s = "client" /\ ((hub.pc # "idle" /\ Single(hub.req, d, k)) \/ \E i \in DOMAIN requests: Single(requests[i], d, k))
InView(s, d) == d \in DOMAIN Devs(s) \/ d \in DOMAIN mgr[s].session
View(s, d) == IF d \in DOMAIN mgr[s].session THEN mgr[s].session[d] ELSE Devs(s)[d]
Reloads(s) == \E i \in DOMAIN inbox[s]: inbox[s][i].action = "reload"
Mentioned(s, d, k) == \E i \in DOMAIN inbox[s]: Mentions(inbox[s][i], d, k)
Unsettled(s, d, k) == Mentioned(s, d, k) \/ Pending(d, k) \/ Early(s, d, k)
Superseded(s, i, d, k) ==
  \E j \in DOMAIN inbox[s]: j > i /\ (inbox[s][j].action = "reload" \/ Mentions(inbox[s][j], d, k))
Matches(s, i, d, k) == d \in DOMAIN redis.config /\ redis.config[d][k] = inbox[s][i].us[d][k]
MessageOK(s, i, d, k) ==
  Mentions(inbox[s][i], d, k) => Superseded(s, i, d, k) \/ Pending(d, k) \/ Matches(s, i, d, k)
Messages ==
  \A s \in Services: mgr[s].alive =>
    \A i \in DOMAIN inbox[s]: \A d \in Devices \ F: \A k \in Fields: MessageOK(s, i, d, k)
Current(s) == mgr[s].alive /\ mgr[s].load # "flushed" /\ ~Reloads(s)
ViewOK(s, d) ==
  /\ InView(s, d) <=> d \in DOMAIN redis.config
  /\ InView(s, d) => \A k \in Fields: Unsettled(s, d, k) \/ View(s, d)[k] = redis.config[d][k]
Views == \A s \in Services: Current(s) => \A d \in Devices \ F: ViewOK(s, d)

\* Survives: an update that a service will handle before its next reload is of devices that it
\* has, unless a set has taken one out (log.gone) or the client has left one out
\* (log.unloaded); and until its first reload the device server has every device of the
\* configuration.
Full(s) == mgr[s].alive /\ mgr[s].load # "flushed" /\ (s = "client" => log.unloaded = {})
First(s, i) == inbox[s][i].action = "update" /\ \A j \in DOMAIN inbox[s]: j <= i => inbox[s][j].action # "reload"
Covers(s) ==
  Full(s) =>
    /\ ~Reloads(s) => \A d \in Devices: InView(s, d) <=> d \in DOMAIN redis.config
    /\ log.gone = {} => \A i \in DOMAIN inbox[s]: First(s, i) => \A d \in DOMAIN inbox[s][i].us: InView(s, d)
Told ==
  log.gone = {} => \A s \in Services: \A i \in DOMAIN inbox[s]:
    inbox[s][i].action = "update" => DOMAIN inbox[s][i].us \subseteq DOMAIN redis.config
Unreloaded ==
  mgr["ds"].alive /\ mgr["ds"].gen = 1 =>
    /\ mgr["ds"].load = "idle"
    /\ dsh.pc = "update" => dsh.ask.dev \in DOMAIN Devs("ds")
    /\ \A i \in DOMAIN inbox["ds"]: First("ds", i) => DOMAIN inbox["ds"][i].us \subseteq DOMAIN Devs("ds")
    /\ ~Reloads("ds") =>
         /\ DOMAIN Devs("hub") = DOMAIN redis.config /\ DOMAIN Devs("ds") = DOMAIN redis.config
         /\ mgr["hub"].load = "idle" /\ ~Reloads("hub")
         /\ hub.pc # "idle" => DOMAIN hub.req.us \subseteq DOMAIN redis.config
Survives ==
  Told /\ (\A s \in Services \ {"ds"}: Covers(s)) /\ Unreloaded /\ mgr["ds"].gen # 0 /\ ServicesSurvive

-----------------------------------------------------------------------------
(* Sequences.                                                              *)

LEMMA SeqAppend ==
  ASSUME NEW q, IsSeq(q), NEW e
  PROVE  /\ IsSeq(Append(q, e)) /\ Len(q) \in Nat /\ DOMAIN q = 1..Len(q)
         /\ DOMAIN Append(q, e) = 1..(Len(q) + 1) /\ \A i \in DOMAIN q: Append(q, e)[i] = q[i]
         /\ Append(q, e)[Len(q) + 1] = e
<1> DEFINE S == ToSet(q) \cup {e}
           r == Append(q, e)
<1>1. q \in Seq(S) /\ e \in S
  BY DEF IsSeq
<1> HIDE DEF S
<1>2. /\ Len(q) \in Nat /\ DOMAIN q = 1..Len(q) /\ r \in Seq(S) /\ Len(r) = Len(q) + 1 /\ DOMAIN r = 1..(Len(q) + 1)
      /\ \A i \in 1..Len(q) : r[i] = q[i]
      /\ r[Len(q) + 1] = e
  BY <1>1
<1> HIDE DEF r
<1>3. \A i \in 1..Len(r) : r[i] \in ToSet(r)
  BY <1>2 DEF ToSet
<1>4. IsSeq(r)
  BY <1>2, <1>3 DEF IsSeq
<1> QED
  BY <1>2, <1>4 DEF r

LEMMA SeqTail ==
  ASSUME NEW q, IsSeq(q), q # <<>>
  PROVE  /\ IsSeq(Tail(q)) /\ Len(q) \in Nat \ {0} /\ DOMAIN q = 1..Len(q) /\ DOMAIN Tail(q) = 1..(Len(q) - 1)
         /\ Head(q) = q[1] /\ 1 \in DOMAIN q
         /\ \A i \in DOMAIN Tail(q): Tail(q)[i] = q[i + 1] /\ i + 1 \in DOMAIN q
         /\ \A i \in DOMAIN q: i # 1 => i - 1 \in DOMAIN Tail(q) /\ Tail(q)[i - 1] = q[i]
<1> DEFINE S == ToSet(q)
           r == Tail(q)
<1> HIDE DEF S
<1>1. q \in Seq(S)
  BY DEF S, IsSeq
<1>2. /\ Len(q) \in Nat \ {0} /\ DOMAIN q = 1..Len(q) /\ r \in Seq(S) /\ Len(r) = Len(q) - 1 /\ DOMAIN r = 1..(Len(q) - 1)
      /\ Head(q) = q[1] /\ \A i \in 1..(Len(q) - 1) : r[i] = q[i + 1]
  BY <1>1
<1> HIDE DEF r
<1>3. \A i \in 1..Len(r) : r[i] \in ToSet(r)
  BY <1>2 DEF ToSet
<1>4. IsSeq(r)
  BY <1>2, <1>3 DEF IsSeq
<1>5. \A i \in DOMAIN r: r[i] = q[i + 1] /\ i + 1 \in DOMAIN q
  BY <1>2
<1>6. \A i \in DOMAIN q: i # 1 => i - 1 \in DOMAIN r /\ r[i - 1] = q[i]
  BY <1>2
<1> QED
  BY <1>2, <1>4, <1>5, <1>6 DEF r

LEMMA Replying ==
  ASSUME NEW id
  PROVE  Answer(id) = {} <=> \A r \in replies: r.id # id
  BY DEF Answer

LEMMA MgrDevs ==
  ASSUME ManagersOK, NEW s \in Services, NEW v, mgr' = [mgr EXCEPT ![s].devs = v]
  PROVE  /\ DOMAIN mgr' = Services /\ \A t \in Services: t # s => mgr'[t] = mgr[t]
         /\ DOMAIN mgr'[s] = MgrFields /\ mgr'[s].devs = v /\ mgr'[s].alive = mgr[s].alive
         /\ mgr'[s].gen = mgr[s].gen /\ mgr'[s].load = mgr[s].load /\ mgr'[s].session = mgr[s].session
<1>1. DOMAIN mgr = Services /\ DOMAIN mgr[s] = MgrFields
  BY DEF ManagersOK, IsManager
<1>2. DOMAIN mgr' = Services /\ \A t \in Services: t # s => mgr'[t] = mgr[t]
  BY <1>1
<1>3. mgr'[s] = [mgr[s] EXCEPT !.devs = v]
  BY <1>1
<1> QED
  BY <1>1, <1>2, <1>3 DEF MgrFields

LEMMA MgrLoad ==
  ASSUME ManagersOK, NEW s \in Services, NEW v, mgr' = [mgr EXCEPT ![s].load = v]
  PROVE  /\ DOMAIN mgr' = Services /\ \A t \in Services: t # s => mgr'[t] = mgr[t]
         /\ DOMAIN mgr'[s] = MgrFields /\ mgr'[s].devs = mgr[s].devs /\ mgr'[s].alive = mgr[s].alive
         /\ mgr'[s].gen = mgr[s].gen /\ mgr'[s].load = v /\ mgr'[s].session = mgr[s].session
<1>1. DOMAIN mgr = Services /\ DOMAIN mgr[s] = MgrFields
  BY DEF ManagersOK, IsManager
<1>2. DOMAIN mgr' = Services /\ \A t \in Services: t # s => mgr'[t] = mgr[t]
  BY <1>1
<1>3. mgr'[s] = [mgr[s] EXCEPT !.load = v]
  BY <1>1
<1> QED
  BY <1>1, <1>2, <1>3 DEF MgrFields

LEMMA MgrAlive ==
  ASSUME ManagersOK, NEW s \in Services, Dies(s)
  PROVE  /\ DOMAIN mgr' = Services /\ \A t \in Services: t # s => mgr'[t] = mgr[t]
         /\ DOMAIN mgr'[s] = MgrFields /\ mgr'[s].devs = mgr[s].devs /\ mgr'[s].alive = FALSE
         /\ mgr'[s].gen = mgr[s].gen /\ mgr'[s].load = mgr[s].load /\ mgr'[s].session = mgr[s].session
<1>1. DOMAIN mgr = Services /\ DOMAIN mgr[s] = MgrFields
  BY DEF ManagersOK, IsManager
<1>2. DOMAIN mgr' = Services /\ \A t \in Services: t # s => mgr'[t] = mgr[t]
  BY <1>1 DEF Dies
<1>3. mgr'[s] = [mgr[s] EXCEPT !.alive = FALSE]
  BY <1>1 DEF Dies
<1> QED
  BY <1>1, <1>2, <1>3 DEF MgrFields

LEMMA ApplyEntry ==
  ASSUME NEW e, IsEntry(e), NEW u, IsUpdate(u)
  PROVE  /\ IsEntry(Apply(e, u)) /\ DOMAIN e = Fields /\ DOMAIN Apply(e, u) = Fields
         /\ \A k \in Fields: Apply(e, u)[k] = IF k \in Keys(u) THEN u[k] ELSE e[k]
  BY DEF IsEntry, IsUpdate, Apply, Fields, Keys

LEMMA EntryEquals ==
  ASSUME NEW e, IsEntry(e), NEW f, IsEntry(f), \A k \in Fields: e[k] = f[k]
  PROVE  e = f
  BY DEF IsEntry, Fields

LEMMA RestrictUpdate ==
  ASSUME NEW u, IsUpdate(u), NEW S, S \subseteq Keys(u)
  PROVE  IsUpdate(Restrict(u, S)) /\ Keys(Restrict(u, S)) = S /\ \A k \in S: Restrict(u, S)[k] = u[k]
  BY DEF IsUpdate, Restrict, Keys

LEMMA WithoutUpdate ==
  ASSUME NEW u, IsUpdate(u), NEW k
  PROVE  /\ IsUpdate(Without(u, k)) /\ Keys(Without(u, k)) = Keys(u) \ {k}
         /\ \A x \in Keys(u) \ {k}: Without(u, k)[x] = u[x]
  BY DEF IsUpdate, Restrict, Keys, Without

LEMMA ApplyToConfig ==
  ASSUME NEW devs, IsConfig(devs), NEW us, IsUpdates(us)
  PROVE  /\ IsConfig(ApplyTo(devs, us)) /\ DOMAIN ApplyTo(devs, us) = DOMAIN devs
         /\ \A d \in DOMAIN devs: ApplyTo(devs, us)[d] = IF d \in DOMAIN us THEN Apply(devs[d], us[d]) ELSE devs[d]
<1>1. /\ DOMAIN ApplyTo(devs, us) = DOMAIN devs
      /\ \A d \in DOMAIN devs: ApplyTo(devs, us)[d] = IF d \in DOMAIN us THEN Apply(devs[d], us[d]) ELSE devs[d]
  BY DEF ApplyTo
<1>2. \A d \in DOMAIN devs \cap DOMAIN us: IsEntry(Apply(devs[d], us[d]))
  BY ApplyEntry DEF IsConfig, IsUpdates
<1> QED
  BY <1>1, <1>2 DEF IsConfig

LEMMA EntryIs ==
  ASSUME ManagersOK, HubOK, hub.pc \in {"ask", "wait"}
  PROVE  IsEntry(Entry)
  BY DEF ManagersOK, HubOK, Entry, IsManager, IsConfig, Services, Devs

LEMMA SetEntryEffect ==
  ASSUME ManagersOK, HubOK, hub.pc \in {"ask", "wait"}, NEW e, IsEntry(e), NEW h, SetEntry(e, h)
  PROVE  /\ ManagersOK'
         /\ \A t \in Services: t # "hub" => mgr'[t] = mgr[t]
         /\ mgr'["hub"].alive = mgr["hub"].alive /\ mgr'["hub"].gen = mgr["hub"].gen
         /\ mgr'["hub"].load = mgr["hub"].load /\ mgr'["hub"].session = mgr["hub"].session
         /\ DOMAIN mgr'["hub"].devs = DOMAIN mgr["hub"].devs
         /\ \A d \in DOMAIN mgr["hub"].devs:
              mgr'["hub"].devs[d] = IF Attached /\ d = hub.dev THEN e ELSE mgr["hub"].devs[d]
<1>1. "hub" \in Services /\ DOMAIN mgr = Services /\ IsManager(mgr["hub"]) /\ IsConfig(mgr["hub"].devs)
  BY DEF ManagersOK, IsManager, Services
<1>2. CASE Attached
  <2>1. hub.dev \in DOMAIN mgr["hub"].devs
    BY <1>2 DEF HubOK, Devs
  <2> DEFINE v == [mgr["hub"].devs EXCEPT ![hub.dev] = e]
  <2>2. mgr' = [mgr EXCEPT !["hub"].devs = v]
    BY <1>1, <1>2, Zenon DEF SetEntry
  <2>3. /\ DOMAIN v = DOMAIN mgr["hub"].devs
        /\ \A d \in DOMAIN mgr["hub"].devs: v[d] = IF d = hub.dev THEN e ELSE mgr["hub"].devs[d]
    BY <2>1
  <2>4. IsConfig(v)
    BY <1>1, <2>1, <2>3 DEF IsConfig
  <2> HIDE DEF v
  <2>5. /\ DOMAIN mgr' = Services /\ \A t \in Services: t # "hub" => mgr'[t] = mgr[t]
        /\ DOMAIN mgr'["hub"] = MgrFields /\ mgr'["hub"].devs = v /\ mgr'["hub"].alive = mgr["hub"].alive
        /\ mgr'["hub"].gen = mgr["hub"].gen /\ mgr'["hub"].load = mgr["hub"].load /\ mgr'["hub"].session = mgr["hub"].session
    BY <1>1, <2>2, MgrDevs
  <2>6. ManagersOK'
    BY <2>3, <2>4, <2>5 DEF ManagersOK, IsManager, Services
  <2> QED
    BY <1>2, <2>3, <2>5, <2>6
<1>3. CASE ~Attached
  BY <1>3, <1>1 DEF SetEntry, ManagersOK, IsManager
<1> QED
  BY <1>2, <1>3

-----------------------------------------------------------------------------
(* What each step does, field by field.                                    *)

LogFields == {"unloaded", "gone", "late", "torn", "refused", "silent", "stale", "remade"}
LogKeeps(S) == DOMAIN log' = LogFields /\ \A f \in LogFields \ S: log'[f] = log[f]

LEMMA LogOne ==
  ASSUME LogOK, NEW f \in LogFields, NEW v, log' = [log EXCEPT ![f] = v]
  PROVE  LogKeeps({f}) /\ log'[f] = v
  BY DEF LogOK, LogKeeps, LogFields

LEMMA LogNone ==
  ASSUME LogOK, log' = log
  PROVE  LogKeeps({})
  BY DEF LogOK, LogKeeps, LogFields

HubRefuses(r) ==
  /\ ~Valid("hub", r) /\ Reply(r.id, FALSE) /\ hub' = Idle /\ UNCHANGED <<inbox, redis>>
  /\ LogKeeps({"refused"}) /\ log'.refused = log.refused \cup DOMAIN r.us
HubTakes(r) ==
  /\ r.action = "update" /\ Valid("hub", r) /\ UNCHANGED <<replies, inbox, redis, log>>
  /\ DOMAIN hub' = HubFields /\ hub'.pc = "next" /\ hub'.req = r /\ hub'.left = SetToSeq(DOMAIN r.us)
  /\ hub'.updated = FALSE /\ hub'.stored = {}
HubReloads(r) ==
  /\ r.action = "reload" /\ Reply(r.id, TRUE) /\ Broadcast([action |-> "reload"]) /\ UNCHANGED <<hub, redis, log>>
HubSets(r) ==
  /\ r.action = "set" /\ Reply(r.id, TRUE) /\ Broadcast([action |-> "reload"]) /\ UNCHANGED hub
  /\ redis' = [config |-> r.us, info |-> redis.info]
  /\ LogKeeps({"gone"}) /\ log'.gone = log.gone \cup (Broadcasted \ DOMAIN r.us)

LEMMA HubReceiveEffect ==
  ASSUME Types, HubReceive
  PROVE  /\ hub.pc = "idle" /\ requests # <<>> /\ mgr["hub"].alive /\ requests' = Tail(requests)
         /\ UNCHANGED <<todo, waits, dsh, obj, asks, mgr, fresh>>
         /\ LET r == Head(requests) IN HubRefuses(r) \/ HubTakes(r) \/ HubReloads(r) \/ HubSets(r)
<1> DEFINE r == Head(requests)
<1>1. /\ hub.pc = "idle" /\ requests # <<>> /\ mgr["hub"].alive /\ requests' = Tail(requests)
      /\ UNCHANGED <<todo, waits, dsh, obj>>
  BY DEF HubReceive, HubKeeps, client
<1>2. IsSent(r)
  BY <1>1, SeqTail DEF Types, QueuesOK, RequestsOK
<1>3. LogOK /\ RedisOK
  BY DEF Types
<1>4. CASE ~Valid("hub", r)
  <2>0. Reject(r.id)
    BY <1>4, Zenon DEF HubReceive
  <2>1. Reply(r.id, FALSE) /\ hub' = Idle /\ UNCHANGED <<inbox, redis, asks, mgr, fresh>>
    BY <2>0 DEF Reject
  <2>2. log' = [log EXCEPT !["refused"] = log.refused \cup DOMAIN r.us]
    BY <1>4 DEF HubReceive
  <2>3. LogKeeps({"refused"}) /\ log'.refused = log.refused \cup DOMAIN r.us
    BY <1>3, <2>2, LogOne DEF LogFields
  <2>4. HubRefuses(r)
    BY <1>4, <2>1, <2>3 DEF HubRefuses
  <2> QED
    BY <1>1, <2>1, <2>4
<1>5. CASE Valid("hub", r) /\ r.action = "update"
  <2>1. /\ UNCHANGED <<replies, inbox, redis, asks, mgr, fresh>>
        /\ hub' = [pc |-> "next", req |-> r, left |-> SetToSeq(DOMAIN r.us), updated |-> FALSE, stored |-> {},
                       dev |-> "", u |-> <<>>, gen |-> 0, entry |-> <<>>, ask |-> 0]
    BY <1>5, Zenon DEF HubReceive
  <2>2. log' = log
    BY <1>5 DEF HubReceive
  <2>3. HubTakes(r)
    BY <1>5, <2>1, <2>2 DEF HubTakes, HubFields
  <2> QED
    BY <1>1, <2>1, <2>3
<1>6. CASE Valid("hub", r) /\ r.action = "reload"
  <2>1. HubReloads(r) /\ UNCHANGED <<asks, mgr, fresh>>
    BY <1>6 DEF HubReceive, HubReloads
  <2> QED
    BY <1>1, <2>1
<1>7. CASE Valid("hub", r) /\ r.action = "set"
  <2>1. /\ Reply(r.id, TRUE) /\ Broadcast([action |-> "reload"]) /\ UNCHANGED <<hub, asks, mgr, fresh>>
        /\ redis' = [redis EXCEPT !.config = r.us]
    BY <1>7 DEF HubReceive
  <2>2. log' = [log EXCEPT !["gone"] = log.gone \cup (Broadcasted \ DOMAIN r.us)]
    BY <1>7 DEF HubReceive
  <2>3. LogKeeps({"gone"}) /\ log'.gone = log.gone \cup (Broadcasted \ DOMAIN r.us)
    BY <1>3, <2>2, LogOne DEF LogFields
  <2>4. redis' = [config |-> r.us, info |-> redis.info]
    BY <2>1, <1>3 DEF RedisOK
  <2>5. HubSets(r)
    BY <1>7, <2>1, <2>3, <2>4 DEF HubSets
  <2> QED
    BY <1>1, <2>1, <2>5
<1> QED
  BY <1>2, <1>4, <1>5, <1>6, <1>7 DEF IsSent

HubStarts(d) ==
  /\ DOMAIN hub' = HubFields /\ hub'.pc = "ask" /\ hub'.req = hub.req /\ hub'.left = Tail(hub.left)
  /\ hub'.dev = d /\ hub'.u = hub.req.us[d] /\ hub'.gen = mgr["hub"].gen
  /\ hub'.entry = Devs("hub")[d] /\ hub'.updated = FALSE /\ hub'.stored = hub.stored
  /\ UNCHANGED <<replies, log>> /\ d \in DOMAIN Devs("hub")
HubMisses ==
  /\ Reply(hub.req.id, FALSE) /\ hub' = Idle /\ LogKeeps({"torn", "refused"})
  /\ log'.torn = log.torn \cup hub.stored /\ log'.refused = log.refused \cup DOMAIN hub.req.us

LEMMA LogTwo ==
  ASSUME LogOK, NEW f \in LogFields, NEW v, NEW g \in LogFields, f # g, NEW w, log' = [log EXCEPT ![f] = v, ![g] = w]
  PROVE  LogKeeps({f, g}) /\ log'[f] = v /\ log'[g] = w
  BY DEF LogOK, LogKeeps, LogFields

LEMMA HubDeviceEffect ==
  ASSUME Types, HubDevice
  PROVE  /\ hub.pc = "next" /\ hub.left # <<>>
         /\ UNCHANGED <<todo, waits, requests, dsh, obj, asks, inbox, mgr, redis, fresh>>
         /\ HubStarts(Head(hub.left)) \/ HubMisses
<1> DEFINE d == Head(hub.left)
<1>1. hub.pc = "next" /\ hub.left # <<>> /\ UNCHANGED <<todo, waits, requests, dsh, obj, asks, inbox, mgr, redis, fresh>>
  BY DEF HubDevice, HubKeeps, client, Reject
<1>2. CASE d \in DOMAIN Devs("hub")
  <2>1. DOMAIN hub = HubFields
    BY <1>1 DEF Types, HubOK, Idle
  <2> DEFINE e == Devs("hub")[d]
             u == hub.req.us[d]
             g == mgr["hub"].gen
             l == Tail(hub.left)
  <2>2. hub' = [hub EXCEPT !.pc = "ask", !.left = l, !.dev = d, !.u = u, !.gen = g, !.entry = e, !.updated = FALSE]
    BY <1>2 DEF HubDevice
  <2> HIDE DEF d, e, u, g, l
  <2>3. DOMAIN hub' = HubFields
    BY <2>1, <2>2
  <2>4. hub'.pc = "ask" /\ hub'.req = hub.req /\ hub'.left = l
    BY <2>1, <2>2 DEF HubFields
  <2>5. hub'.dev = d /\ hub'.u = u /\ hub'.gen = g
    BY <2>1, <2>2 DEF HubFields
  <2>6. hub'.entry = e /\ hub'.updated = FALSE /\ hub'.stored = hub.stored
    BY <2>1, <2>2 DEF HubFields
  <2>7. UNCHANGED <<replies, log>>
    BY <1>2 DEF HubDevice, d
  <2>8. HubStarts(d)
    BY <1>2, <2>3, <2>4, <2>5, <2>6, <2>7 DEF HubStarts, d, e, u, g, l
  <2> QED
    BY <1>1, <2>8 DEF d
<1>3. CASE d \notin DOMAIN Devs("hub")
  <2>1. log' = [log EXCEPT !["torn"] = log.torn \cup hub.stored, !["refused"] = log.refused \cup DOMAIN hub.req.us]
    BY <1>3 DEF HubDevice
  <2>2. LogKeeps({"torn", "refused"}) /\ log'.torn = log.torn \cup hub.stored /\ log'.refused = log.refused \cup DOMAIN hub.req.us
    <3>1. LogOK /\ "torn" \in LogFields /\ "refused" \in LogFields /\ "torn" # "refused"
      BY DEF LogFields, Types
    <3> QED
      BY <2>1, <3>1, LogTwo
  <2>3. Reply(hub.req.id, FALSE) /\ hub' = Idle
    BY <1>3 DEF HubDevice, Reject
  <2>4. HubMisses
    BY <2>2, <2>3 DEF HubMisses
  <2> QED
    BY <1>1, <2>4
<1> QED
  BY <1>2, <1>3

EntryBecomes(e) ==
  /\ ManagersOK' /\ IsEntry(e)
  /\ \A t \in Services: t # "hub" => mgr'[t] = mgr[t]
  /\ mgr'["hub"].alive = mgr["hub"].alive /\ mgr'["hub"].gen = mgr["hub"].gen
  /\ mgr'["hub"].load = mgr["hub"].load /\ mgr'["hub"].session = mgr["hub"].session
  /\ DOMAIN mgr'["hub"].devs = DOMAIN mgr["hub"].devs
  /\ \A d \in DOMAIN mgr["hub"].devs:
       mgr'["hub"].devs[d] = IF Attached /\ d = hub.dev THEN e ELSE mgr["hub"].devs[d]
HubHolds(e) == hub'.gen = hub.gen /\ hub'.dev = hub.dev /\ IsEntry(hub'.entry) /\ Entry' = e
RequestKept ==
  /\ DOMAIN hub' = HubFields /\ hub'.req = hub.req /\ hub'.left = hub.left /\ hub'.gen = hub.gen /\ hub'.dev = hub.dev

LEMMA EntryHeld ==
  ASSUME ManagersOK, HubOK, hub.pc \in {"ask", "wait"}, NEW e, IsEntry(e), NEW h, SetEntry(e, h),
         DOMAIN h = HubFields, h.gen = hub.gen, h.dev = hub.dev
  PROVE  /\ EntryBecomes(e) /\ HubHolds(e) /\ DOMAIN hub' = HubFields
         /\ hub'.pc = h.pc /\ hub'.req = h.req /\ hub'.left = h.left /\ hub'.updated = h.updated
         /\ hub'.stored = h.stored /\ hub'.u = h.u /\ hub'.ask = h.ask
<1>1. EntryBecomes(e)
  BY SetEntryEffect DEF EntryBecomes
<1>2. hub' = [h EXCEPT !.entry = e]
  BY DEF SetEntry, Idle, HubFields
<1>3. DOMAIN hub' = HubFields /\ hub'.entry = e
  BY <1>2 DEF HubFields
<1>4. hub'.pc = h.pc /\ hub'.req = h.req /\ hub'.left = h.left /\ hub'.updated = h.updated
  BY <1>2 DEF HubFields
<1>5. hub'.stored = h.stored /\ hub'.u = h.u /\ hub'.ask = h.ask /\ hub'.gen = h.gen /\ hub'.dev = h.dev
  BY <1>2 DEF HubFields
<1>6. Attached => hub.dev \in DOMAIN mgr["hub"].devs
  BY DEF HubOK, Devs
<1>7. Attached' <=> Attached
  BY <1>1, <1>5 DEF Attached, EntryBecomes
<1>8. Entry' = e
  BY <1>1, <1>3, <1>5, <1>6, <1>7 DEF Entry, EntryBecomes, Devs
<1> QED
  BY <1>1, <1>3, <1>4, <1>5, <1>8 DEF HubHolds

LEMMA HubAskEffect ==
  ASSUME Types, HubAsk
  PROVE  /\ hub.pc = "ask" /\ Keys(hub.u) \cap {"conf", "enabled"} # {}
         /\ asks' = Append(asks, [id |-> fresh, dev |-> hub.dev, u |-> hub.u]) /\ fresh' = fresh + 1
         /\ UNCHANGED <<todo, waits, requests, replies, inbox, dsh, obj, redis, log>>
         /\ RequestKept /\ hub'.pc = "wait" /\ hub'.ask = fresh /\ hub'.updated = hub.updated
         /\ hub'.stored = hub.stored /\ hub'.u = hub.u
         /\ \E e: /\ EntryBecomes(e) /\ HubHolds(e)
                  /\ \A k \in Fields: e[k] = Entry[k] \/ (k \in Keys(hub.u) /\ e[k] = hub.u[k])
<1> DEFINE Held(e) == /\ EntryBecomes(e) /\ HubHolds(e)
                      /\ \A k \in Fields: e[k] = Entry[k] \/ (k \in Keys(hub.u) /\ e[k] = hub.u[k])
<1> SUFFICES /\ hub.pc = "ask" /\ Keys(hub.u) \cap {"conf", "enabled"} # {}
             /\ asks' = Append(asks, [id |-> fresh, dev |-> hub.dev, u |-> hub.u]) /\ fresh' = fresh + 1
             /\ UNCHANGED <<todo, waits, requests, replies, inbox, dsh, obj, redis, log>>
             /\ RequestKept /\ hub'.pc = "wait" /\ hub'.ask = fresh /\ hub'.updated = hub.updated
             /\ hub'.stored = hub.stored /\ hub'.u = hub.u
             /\ \E e: Held(e)
  OBVIOUS
<1>1. /\ hub.pc = "ask" /\ Keys(hub.u) \cap {"conf", "enabled"} # {}
      /\ asks' = Append(asks, [id |-> fresh, dev |-> hub.dev, u |-> hub.u]) /\ fresh' = fresh + 1
      /\ UNCHANGED <<todo, waits, requests, replies, inbox, dsh, obj, redis, log>>
  BY DEF HubAsk, Ask, HubKeeps, client
<1> DEFINE h == [hub EXCEPT !.pc = "wait", !.ask = fresh]
<1>2. DOMAIN hub = HubFields /\ ManagersOK /\ HubOK
  BY <1>1 DEF Types, HubOK, Idle
<1>3. DOMAIN h = HubFields /\ h.pc = "wait" /\ h.ask = fresh /\ h.req = hub.req /\ h.left = hub.left
  BY <1>2 DEF HubFields
<1>4. h.updated = hub.updated /\ h.stored = hub.stored /\ h.dev = hub.dev /\ h.u = hub.u /\ h.gen = hub.gen /\ h.entry = hub.entry
  BY <1>2 DEF HubFields
<1>5. IsEntry(Entry) /\ IsUpdate(hub.u) /\ IsEntry(hub.entry)
  BY <1>1, <1>2, EntryIs DEF HubOK
<1>6. CASE "conf" \in Keys(hub.u)
  <2>1. hub' = h /\ mgr' = mgr
    BY <1>6 DEF HubAsk
  <2> HIDE DEF h
  <2>2. EntryBecomes(Entry)
    <3>1. ManagersOK'
      BY <2>1, <1>2 DEF ManagersOK
    <3> QED
      BY <2>1, <1>5, <3>1 DEF EntryBecomes, Entry, Devs
  <2>3. Entry' = Entry /\ IsEntry(hub'.entry)
    BY <2>1, <1>3, <1>4, <1>5 DEF Entry, Attached, Devs
  <2>4. HubHolds(Entry)
    BY <2>1, <2>3, <1>4 DEF HubHolds
  <2>5. RequestKept
    BY <2>1, <1>3, <1>4 DEF RequestKept
  <2>6. Held(Entry)
    BY <2>2, <2>4
  <2> HIDE DEF Held
  <2> QED
    BY <1>1, <1>3, <1>4, <2>1, <2>5, <2>6
<1>7. CASE "conf" \notin Keys(hub.u)
  <2> DEFINE v == Restrict(hub.u, {"enabled"})
             e == Apply(Entry, v)
  <2>1. SetEntry(e, h)
    BY <1>7 DEF HubAsk
  <2>2. IsUpdate(v) /\ Keys(v) = {"enabled"} /\ \A k \in {"enabled"}: v[k] = hub.u[k]
    BY <1>1, <1>5, <1>7, RestrictUpdate
  <2> HIDE DEF v
  <2>3. IsEntry(e) /\ \A k \in Fields: e[k] = IF k \in Keys(v) THEN v[k] ELSE Entry[k]
    BY <1>5, <2>2, ApplyEntry
  <2>4. \A k \in Fields: e[k] = Entry[k] \/ (k \in Keys(hub.u) /\ e[k] = hub.u[k])
    BY <1>1, <1>7, <2>2, <2>3
  <2> HIDE DEF e, h
  <2>5. /\ EntryBecomes(e) /\ HubHolds(e) /\ DOMAIN hub' = HubFields
        /\ hub'.pc = h.pc /\ hub'.req = h.req /\ hub'.left = h.left /\ hub'.updated = h.updated
        /\ hub'.stored = h.stored /\ hub'.u = h.u /\ hub'.ask = h.ask
    BY <1>1, <1>2, <1>3, <1>4, <2>1, <2>3, EntryHeld
  <2>6. RequestKept
    BY <1>3, <1>4, <2>5 DEF RequestKept, HubHolds
  <2>7. Held(e)
    BY <2>4, <2>5
  <2> HIDE DEF Held
  <2> QED
    BY <1>1, <1>3, <1>4, <2>5, <2>6, <2>7
<1> QED
  BY <1>6, <1>7

LEMMA HubGetsAnswerEffect ==
  ASSUME Types, HubGetsAnswer
  PROVE  /\ hub.pc = "wait" /\ Answer(hub.ask) # {}
         /\ UNCHANGED <<todo, waits, requests, asks, replies, inbox, dsh, obj, redis, fresh>>
         /\ RequestKept /\ hub'.pc = "ask" /\ hub'.updated = (Answer(hub.ask) = {TRUE}) /\ hub'.stored = hub.stored
         /\ IF hub'.updated THEN log' = log
            ELSE LogKeeps({"refused"}) /\ log'.refused = log.refused \cup {hub.dev}
         /\ \E e: \E k \in {"conf", "enabled"}:
              /\ EntryBecomes(e) /\ HubHolds(e) /\ k \in Keys(hub.u) /\ hub'.u = Without(hub.u, k)
              /\ k = IF "conf" \in Keys(hub.u) THEN "conf" ELSE "enabled"
              /\ \A x \in Fields: e[x] = IF x = k THEN hub.u[x] ELSE Entry[x]
<1>1. /\ hub.pc = "wait" /\ Answer(hub.ask) # {}
      /\ UNCHANGED <<todo, waits, requests, asks, replies, inbox, dsh, obj, redis, fresh>>
  BY DEF HubGetsAnswer, HubKeeps, client
<1> DEFINE a == Answer(hub.ask) = {TRUE}
           k == IF "conf" \in Keys(hub.u) THEN "conf" ELSE "enabled"
           w == Without(hub.u, k)
           v == Restrict(hub.u, {k})
           e == Apply(Entry, v)
           h == [hub EXCEPT !.pc = "ask", !.updated = a, !.u = w]
<1>2. DOMAIN hub = HubFields /\ ManagersOK /\ HubOK /\ LogOK
  BY <1>1 DEF Types, HubOK, Idle
<1>3. SetEntry(e, h)
  BY Zenon DEF HubGetsAnswer
<1>4. log' = IF a THEN log ELSE [log EXCEPT !["refused"] = log.refused \cup {hub.dev}]
  BY Zenon DEF HubGetsAnswer
<1>5. k \in Keys(hub.u) /\ k \in {"conf", "enabled"} /\ IsUpdate(hub.u) /\ IsEntry(Entry)
  BY <1>1, <1>2, EntryIs DEF HubOK
<1>6. IsUpdate(v) /\ Keys(v) = {k} /\ v[k] = hub.u[k]
  BY <1>5, RestrictUpdate
<1> HIDE DEF a, k, w, v
<1>7. DOMAIN h = HubFields /\ h.pc = "ask" /\ h.updated = a /\ h.req = hub.req /\ h.left = hub.left
  BY <1>2 DEF HubFields
<1>8. h.stored = hub.stored /\ h.dev = hub.dev /\ h.u = w /\ h.gen = hub.gen
  BY <1>2 DEF HubFields
<1>9. IsEntry(e) /\ \A x \in Fields: e[x] = IF x = k THEN hub.u[x] ELSE Entry[x]
  BY <1>5, <1>6, ApplyEntry
<1> HIDE DEF e, h
<1>10. /\ EntryBecomes(e) /\ HubHolds(e) /\ DOMAIN hub' = HubFields
       /\ hub'.pc = h.pc /\ hub'.req = h.req /\ hub'.left = h.left /\ hub'.updated = h.updated
       /\ hub'.stored = h.stored /\ hub'.u = h.u /\ hub'.ask = h.ask
  BY <1>1, <1>2, <1>3, <1>7, <1>8, <1>9, EntryHeld
<1>11. RequestKept
  BY <1>7, <1>10 DEF RequestKept, HubHolds
<1>12. IF a THEN log' = log ELSE LogKeeps({"refused"}) /\ log'.refused = log.refused \cup {hub.dev}
  BY <1>2, <1>4, LogOne DEF LogFields
<1> QED
  <2>1. hub'.updated = a /\ hub'.pc = "ask" /\ hub'.stored = hub.stored /\ hub'.u = Without(hub.u, k)
    BY <1>7, <1>8, <1>10 DEF w
  <2>2. k = IF "conf" \in Keys(hub.u) THEN "conf" ELSE "enabled"
    BY DEF k
  <2>3. \E y: \E c \in {"conf", "enabled"}:
          /\ EntryBecomes(y) /\ HubHolds(y) /\ c \in Keys(hub.u) /\ hub'.u = Without(hub.u, c)
          /\ c = IF "conf" \in Keys(hub.u) THEN "conf" ELSE "enabled"
          /\ \A x \in Fields: y[x] = IF x = c THEN hub.u[x] ELSE Entry[x]
    BY <1>5, <1>9, <1>10, <2>1, <2>2
  <2> QED
    BY <1>1, <1>11, <1>12, <2>1, <2>3 DEF a

LEMMA LogThree ==
  ASSUME LogOK, NEW f \in LogFields, NEW v, NEW g \in LogFields, NEW w, NEW h \in LogFields, NEW x,
         f # g, f # h, g # h, log' = [log EXCEPT ![f] = v, ![g] = w, ![h] = x]
  PROVE  LogKeeps({f, g, h}) /\ log'[f] = v /\ log'[g] = w /\ log'[h] = x
  BY DEF LogOK, LogKeeps, LogFields

LEMMA HubTimesOutEffect ==
  ASSUME Types, HubTimesOut
  PROVE  /\ hub.pc = "wait" /\ Answer(hub.ask) = {} /\ Reply(hub.req.id, FALSE) /\ hub' = Idle
         /\ UNCHANGED <<todo, waits, requests, asks, inbox, mgr, dsh, obj, redis, fresh>>
         /\ LogKeeps({"refused", "late", "torn"}) /\ log'.refused = log.refused \cup {hub.dev}
         /\ log'.late = log.late \cup {hub.dev} /\ log'.torn = log.torn \cup hub.stored
<1>1. /\ hub.pc = "wait" /\ Answer(hub.ask) = {} /\ Reply(hub.req.id, FALSE) /\ hub' = Idle
      /\ UNCHANGED <<todo, waits, requests, asks, inbox, mgr, dsh, obj, redis, fresh>>
  BY DEF HubTimesOut, HubKeeps, client, Reject
<1>2. log' = [log EXCEPT !["refused"] = log.refused \cup {hub.dev}, !["late"] = log.late \cup {hub.dev},
                         !["torn"] = log.torn \cup hub.stored]
  BY DEF HubTimesOut
<1>3. /\ LogOK /\ "refused" \in LogFields /\ "late" \in LogFields /\ "torn" \in LogFields
      /\ "refused" # "late" /\ "refused" # "torn" /\ "late" # "torn"
  BY DEF Types, LogFields
<1> DEFINE x == log.refused \cup {hub.dev}
           y == log.late \cup {hub.dev}
           z == log.torn \cup hub.stored
<1> HIDE DEF x, y, z
<1>4. LogKeeps({"refused", "late", "torn"}) /\ log'.refused = x /\ log'.late = y /\ log'.torn = z
  BY <1>2, <1>3 DEF LogKeeps, LogOK, LogFields, x, y, z
<1> QED
  BY <1>1, <1>4 DEF x, y, z

Wanted == Keys(hub.u) \cap {"conf", "enabled"} = {}
Stores(e) ==
  /\ IsEntry(e) /\ DOMAIN redis'.config = DOMAIN redis.config /\ hub.dev \in DOMAIN redis.config
  /\ redis' = [config |-> redis'.config, info |-> redis.info]
  /\ \A d \in DOMAIN redis.config: redis'.config[d] = IF d = hub.dev THEN e ELSE redis.config[d]
HubFails ==
  /\ Reply(hub.req.id, FALSE) /\ hub' = Idle /\ UNCHANGED <<inbox, redis>>
  /\ LogKeeps({"torn", "refused"}) /\ log'.torn = log.torn \cup hub.stored \cup {hub.dev}
  /\ log'.refused = log.refused \cup {hub.dev}
HubSkips ==
  /\ ~hub.updated /\ Keys(hub.u) = {} /\ RequestKept /\ hub'.pc = "next" /\ hub'.updated = hub.updated
  /\ hub'.stored = hub.stored /\ UNCHANGED <<replies, inbox, mgr, redis, log>>
HubWrites(e) ==
  /\ Stores(e) /\ RequestKept /\ hub'.pc = "next" /\ hub'.updated = TRUE
  /\ hub'.stored = hub.stored \cup {hub.dev} /\ UNCHANGED <<replies, inbox>>
  /\ IF Overwritten(e) THEN LogKeeps({"stale"}) /\ log'.stale = log.stale \cup {hub.dev} ELSE log' = log

LEMMA HubStoreEffect ==
  ASSUME Types, HubStore
  PROVE  /\ hub.pc = "ask" /\ Wanted
         /\ UNCHANGED <<todo, waits, requests, asks, dsh, obj, fresh>>
         /\ LET e == Apply(Entry, hub.u) IN
              /\ \A k \in Fields: e[k] = IF k \in Keys(hub.u) THEN hub.u[k] ELSE Entry[k]
              /\ HubSkips \/ (EntryBecomes(e) /\ (HubFails \/ HubWrites(e)))
<1> DEFINE e == Apply(Entry, hub.u)
           updated == hub.updated \/ Keys(hub.u) # {}
<1>1. hub.pc = "ask" /\ Wanted /\ UNCHANGED <<todo, waits, requests, dsh, obj>>
  BY DEF HubStore, HubKeeps, client, Wanted
<1>2. DOMAIN hub = HubFields /\ ManagersOK /\ HubOK /\ LogOK /\ RedisOK
  BY <1>1 DEF Types, HubOK, Idle
<1>3. IsEntry(Entry) /\ IsUpdate(hub.u) /\ hub.updated \in BOOLEAN
  BY <1>1, <1>2, EntryIs DEF HubOK
<1>4. IsEntry(e) /\ \A k \in Fields: e[k] = IF k \in Keys(hub.u) THEN hub.u[k] ELSE Entry[k]
  BY <1>3, ApplyEntry
<1>5. CASE "unknown" \in Keys(hub.u) \/ (updated /\ hub.dev \notin DOMAIN redis.config)
  <2>1. /\ Reply(hub.req.id, FALSE) /\ SetEntry(e, Idle) /\ UNCHANGED <<asks, inbox, redis, fresh>>
        /\ log' = [log EXCEPT !["torn"] = log.torn \cup hub.stored \cup {hub.dev}, !["refused"] = log.refused \cup {hub.dev}]
    BY <1>5 DEF HubStore
  <2>2. LogKeeps({"torn", "refused"}) /\ log'.torn = log.torn \cup hub.stored \cup {hub.dev} /\ log'.refused = log.refused \cup {hub.dev}
    <3>1. LogOK /\ "torn" \in LogFields /\ "refused" \in LogFields /\ "torn" # "refused"
      BY <1>2 DEF LogFields
    <3> QED
      BY <2>1, <3>1, LogTwo
  <2> HIDE DEF e
  <2>3. EntryBecomes(e)
    BY <1>1, <1>2, <1>4, <2>1, SetEntryEffect DEF EntryBecomes
  <2>4. hub' = Idle
    BY <2>1 DEF SetEntry
  <2> QED
    BY <1>1, <1>4, <2>1, <2>2, <2>3, <2>4 DEF HubFails, e
<1>6. CASE ~updated
  <2>1. hub' = [hub EXCEPT !.pc = "next"] /\ UNCHANGED <<replies, asks, inbox, mgr, redis, fresh, log>>
    BY <1>6, Zenon DEF HubStore
  <2>2. HubSkips
    BY <1>2, <1>6, <2>1 DEF HubSkips, RequestKept, HubFields
  <2> QED
    BY <1>1, <1>4, <2>1, <2>2
<1>7. CASE "unknown" \notin Keys(hub.u) /\ updated /\ hub.dev \in DOMAIN redis.config
  <2> DEFINE st == hub.stored \cup {hub.dev}
             h == [hub EXCEPT !.pc = "next", !.updated = TRUE, !.stored = st]
  <2>1. SetEntry(e, h) /\ UNCHANGED <<replies, asks, inbox, fresh>> /\ redis' = [redis EXCEPT !.config[hub.dev] = e]
    BY <1>7 DEF HubStore
  <2>2. log' = IF Overwritten(e) THEN [log EXCEPT !["stale"] = log.stale \cup {hub.dev}] ELSE log
    BY <1>7 DEF HubStore
  <2>3. IF Overwritten(e) THEN LogKeeps({"stale"}) /\ log'.stale = log.stale \cup {hub.dev} ELSE log' = log
    BY <1>2, <2>2, LogOne DEF LogFields
  <2> HIDE DEF e, st
  <2>4. DOMAIN h = HubFields /\ h.pc = "next" /\ h.updated = TRUE /\ h.stored = st
    BY <1>2 DEF HubFields
  <2>5. h.req = hub.req /\ h.left = hub.left /\ h.gen = hub.gen /\ h.dev = hub.dev
    BY <1>2 DEF HubFields
  <2> HIDE DEF h
  <2>6. /\ EntryBecomes(e) /\ HubHolds(e) /\ DOMAIN hub' = HubFields
        /\ hub'.pc = h.pc /\ hub'.req = h.req /\ hub'.left = h.left /\ hub'.updated = h.updated
        /\ hub'.stored = h.stored
    BY <1>1, <1>2, <1>4, <2>1, <2>4, <2>5, EntryHeld
  <2>7. RequestKept
    BY <2>5, <2>6 DEF RequestKept, HubHolds
  <2> DEFINE c == [redis.config EXCEPT ![hub.dev] = e]
  <2>8. redis' = [config |-> c, info |-> redis.info]
    BY <1>2, <2>1 DEF RedisOK
  <2>9. DOMAIN c = DOMAIN redis.config /\ \A d \in DOMAIN redis.config: c[d] = IF d = hub.dev THEN e ELSE redis.config[d]
    BY <1>7
  <2> HIDE DEF c
  <2>10. Stores(e)
    BY <1>4, <1>7, <2>8, <2>9 DEF Stores
  <2>11. HubWrites(e)
    BY <2>1, <2>3, <2>4, <2>6, <2>7, <2>10 DEF HubWrites, st
  <2> QED
    BY <1>1, <1>4, <2>1, <2>6, <2>11 DEF e
<1> QED
  BY <1>5, <1>6, <1>7

HubTells ==
  /\ hub.updated /\ Broadcast([action |-> "update", us |-> hub.req.us]) /\ Reply(hub.req.id, TRUE)
  /\ LogKeeps({"gone"}) /\ log'.gone = log.gone \cup (DOMAIN hub.req.us \ DOMAIN redis.config)
HubIsSilent ==
  /\ ~hub.updated /\ UNCHANGED <<inbox, replies>> /\ LogKeeps({"torn", "silent"})
  /\ log'.torn = log.torn \cup hub.stored /\ log'.silent = log.silent \cup {hub.req.id}

LEMMA HubDoneEffect ==
  ASSUME Types, HubDone
  PROVE  /\ hub.pc = "next" /\ hub.left = <<>> /\ hub' = Idle
         /\ UNCHANGED <<todo, waits, requests, asks, mgr, dsh, obj, redis, fresh>>
         /\ HubTells \/ HubIsSilent
<1>1. /\ hub.pc = "next" /\ hub.left = <<>> /\ hub' = Idle
      /\ UNCHANGED <<todo, waits, requests, asks, mgr, dsh, obj, redis, fresh>>
  BY DEF HubDone, HubKeeps, client
<1>2. /\ LogOK /\ "torn" \in LogFields /\ "silent" \in LogFields /\ "torn" # "silent" /\ "gone" \in LogFields
  BY DEF Types, LogFields
<1>3. CASE hub.updated
  <2>1. /\ Broadcast([action |-> "update", us |-> hub.req.us]) /\ Reply(hub.req.id, TRUE)
        /\ log' = [log EXCEPT !["gone"] = log.gone \cup (DOMAIN hub.req.us \ DOMAIN redis.config)]
    BY <1>3 DEF HubDone
  <2> QED
    BY <1>1, <1>2, <1>3, <2>1, LogOne DEF HubTells
<1>4. CASE ~hub.updated
  <2>1. /\ UNCHANGED <<inbox, replies>>
        /\ log' = [log EXCEPT !["torn"] = log.torn \cup hub.stored, !["silent"] = log.silent \cup {hub.req.id}]
    BY <1>4 DEF HubDone
  <2>2. LogKeeps({"torn", "silent"}) /\ log'["torn"] = log.torn \cup hub.stored /\ log'["silent"] = log.silent \cup {hub.req.id}
    BY <1>2, <2>1, LogTwo, Zenon
  <2> QED
    BY <1>1, <1>4, <2>1, <2>2 DEF HubIsSilent
<1> QED
  BY <1>3, <1>4

Only(s) == DOMAIN mgr' = Services /\ (\A t \in Services: t # s => mgr'[t] = mgr[t]) /\ DOMAIN mgr'[s] = MgrFields
MgrSame(s) == mgr'[s].alive = mgr[s].alive /\ mgr'[s].gen = mgr[s].gen /\ mgr'[s].session = mgr[s].session
Handles(s) ==
  /\ mgr[s].alive /\ mgr[s].load = "idle" /\ inbox[s] # <<>>
  /\ DOMAIN inbox' = Services /\ (\A t \in Services: t # s => inbox'[t] = inbox[t]) /\ inbox'[s] = Tail(inbox[s])

Changed(us) == hub.pc \in {"ask", "wait"} /\ Attached /\ ApplyTo(Devs("hub"), us)[hub.dev] # Entry
LEMMA ParseUpdateEffect ==
  ASSUME Types, NEW s \in Services, ParseUpdate(s)
  PROVE  /\ Handles(s) /\ Head(inbox[s]).action = "update" /\ Only(s)
         /\ UNCHANGED <<todo, waits, requests, replies, asks, hub, dsh, obj, redis, fresh>>
         /\ mgr'[s].gen = mgr[s].gen /\ mgr'[s].session = mgr[s].session /\ mgr'[s].load = mgr[s].load
         /\ LET us == Head(inbox[s]).us IN
              /\ IF DOMAIN us \subseteq DOMAIN Devs(s)
                 THEN mgr'[s].devs = ApplyTo(mgr[s].devs, us) /\ mgr'[s].alive = mgr[s].alive
                 ELSE mgr'[s].devs = mgr[s].devs /\ mgr'[s].alive = FALSE
              /\ IF s = "hub" /\ Changed(us) THEN LogKeeps({"stale"}) /\ log'.stale = log.stale \cup {hub.dev}
                 ELSE log' = log
<1> DEFINE us == Head(inbox[s]).us
<1>1. /\ mgr[s].alive /\ mgr[s].load = "idle" /\ inbox[s] # <<>> /\ Head(inbox[s]).action = "update"
      /\ UNCHANGED <<todo, waits, requests, replies, asks, hub, dsh, obj, redis, fresh>>
  BY DEF ParseUpdate, MgrKeeps, client
<1>2. Handles(s)
  BY <1>1 DEF ParseUpdate, Handles, Types, InboxOK
<1>3. IF DOMAIN us \subseteq DOMAIN Devs(s) THEN mgr' = [mgr EXCEPT ![s].devs = ApplyTo(mgr[s].devs, us)] ELSE Dies(s)
  BY DEF ParseUpdate
<1>4. ManagersOK /\ LogOK
  BY DEF Types
<1>5. /\ Only(s) /\ mgr'[s].gen = mgr[s].gen /\ mgr'[s].session = mgr[s].session /\ mgr'[s].load = mgr[s].load
      /\ IF DOMAIN us \subseteq DOMAIN Devs(s)
         THEN mgr'[s].devs = ApplyTo(mgr[s].devs, us) /\ mgr'[s].alive = mgr[s].alive
         ELSE mgr'[s].devs = mgr[s].devs /\ mgr'[s].alive = FALSE
  <2> DEFINE v == ApplyTo(mgr[s].devs, us)
  <2> HIDE DEF v
  <2>1. CASE DOMAIN us \subseteq DOMAIN Devs(s)
    <3>1. mgr' = [mgr EXCEPT ![s].devs = v]
      BY <1>3, <2>1 DEF v
    <3> QED
      BY <1>4, <2>1, <3>1, MgrDevs DEF Only, v
  <2>2. CASE ~(DOMAIN us \subseteq DOMAIN Devs(s))
    BY <1>3, <1>4, <2>2, MgrAlive DEF Only
  <2> QED
    BY <2>1, <2>2
<1>6. log' = IF s = "hub" /\ Changed(us) THEN [log EXCEPT !["stale"] = log.stale \cup {hub.dev}] ELSE log
  BY DEF ParseUpdate, Changed
<1>7. IF s = "hub" /\ Changed(us) THEN LogKeeps({"stale"}) /\ log'.stale = log.stale \cup {hub.dev} ELSE log' = log
  BY <1>4, <1>6, LogOne DEF LogFields
<1> QED
  BY <1>1, <1>2, <1>5, <1>7

LEMMA ParseReloadEffect ==
  ASSUME Types, NEW s \in Services, ParseReload(s)
  PROVE  /\ Handles(s) /\ Head(inbox[s]).action = "reload" /\ Only(s)
         /\ UNCHANGED <<todo, waits, requests, replies, asks, dsh, redis, fresh, log>>
         /\ mgr'[s].alive = mgr[s].alive /\ mgr'[s].session = mgr[s].session /\ mgr'[s].devs = <<>>
         /\ mgr'[s].gen = mgr[s].gen + 1 /\ mgr'[s].load = "flushed"
         /\ IF s = "hub" /\ hub.pc \in {"ask", "wait"}
            THEN /\ RequestKept /\ hub'.pc = hub.pc /\ hub'.updated = hub.updated /\ hub'.stored = hub.stored
                 /\ hub'.u = hub.u /\ hub'.ask = hub.ask /\ hub'.entry = Entry
            ELSE hub' = hub
         /\ IF s = "ds"
            THEN DOMAIN obj' = Devices /\ \A d \in Devices: /\ DOMAIN obj'[d] = {"conf", "up"} /\ obj'[d].conf = obj[d].conf
                                                            /\ obj'[d].up = "destroyed"
            ELSE obj' = obj
<1>1. /\ mgr[s].alive /\ mgr[s].load = "idle" /\ inbox[s] # <<>> /\ Head(inbox[s]).action = "reload"
      /\ UNCHANGED <<todo, waits, requests, replies, asks, dsh, redis, fresh, log>>
  BY DEF ParseReload, MgrKeeps, client
<1>2. Handles(s)
  BY <1>1 DEF ParseReload, Handles, Types, InboxOK
<1>3. mgr' = [mgr EXCEPT ![s].devs = <<>>, ![s].gen = mgr[s].gen + 1, ![s].load = "flushed"]
  BY DEF ParseReload
<1>4. ManagersOK /\ HubOK /\ ObjOK
  BY DEF Types
<1>5. /\ Only(s) /\ mgr'[s].alive = mgr[s].alive /\ mgr'[s].session = mgr[s].session /\ mgr'[s].devs = <<>>
      /\ mgr'[s].gen = mgr[s].gen + 1 /\ mgr'[s].load = "flushed"
  <2>1. DOMAIN mgr = Services /\ DOMAIN mgr[s] = MgrFields
    BY <1>4 DEF ManagersOK, IsManager
  <2> DEFINE g == mgr[s].gen + 1
             m == [mgr[s] EXCEPT !.devs = <<>>, !.gen = g, !.load = "flushed"]
  <2> HIDE DEF g
  <2>2. mgr' = [mgr EXCEPT ![s] = m]
    BY <1>3, <2>1 DEF g
  <2>3. DOMAIN m = MgrFields /\ m.devs = <<>> /\ m.gen = g /\ m.load = "flushed" /\ m.alive = mgr[s].alive /\ m.session = mgr[s].session
    BY <2>1 DEF MgrFields
  <2> HIDE DEF m
  <2>4. DOMAIN mgr' = Services /\ (\A t \in Services: t # s => mgr'[t] = mgr[t]) /\ mgr'[s] = m
    BY <2>1, <2>2
  <2> QED
    BY <2>3, <2>4 DEF Only, g
<1>6. IF s = "hub" /\ hub.pc \in {"ask", "wait"}
      THEN /\ RequestKept /\ hub'.pc = hub.pc /\ hub'.updated = hub.updated /\ hub'.stored = hub.stored
           /\ hub'.u = hub.u /\ hub'.ask = hub.ask /\ hub'.entry = Entry
      ELSE hub' = hub
  <2>1. CASE s = "hub" /\ hub.pc \in {"ask", "wait"}
    <3>1. DOMAIN hub = HubFields
      BY <1>4, <2>1 DEF HubOK, Idle
    <3> DEFINE e == Entry
    <3> HIDE DEF e
    <3>2. hub' = [hub EXCEPT !.entry = e]
      BY <2>1 DEF ParseReload, e
    <3>3. RequestKept
      BY <3>1, <3>2 DEF RequestKept, HubFields
    <3>4. /\ hub'.pc = hub.pc /\ hub'.updated = hub.updated /\ hub'.stored = hub.stored
          /\ hub'.u = hub.u /\ hub'.ask = hub.ask /\ hub'.entry = e
      BY <3>1, <3>2 DEF HubFields
    <3> QED
      BY <2>1, <3>3, <3>4 DEF e
  <2>2. CASE ~(s = "hub" /\ hub.pc \in {"ask", "wait"})
    BY <2>2 DEF ParseReload
  <2> QED
    BY <2>1, <2>2
<1>7. IF s = "ds"
      THEN DOMAIN obj' = Devices /\ \A d \in Devices: /\ DOMAIN obj'[d] = {"conf", "up"} /\ obj'[d].conf = obj[d].conf
                                                      /\ obj'[d].up = "destroyed"
      ELSE obj' = obj
  BY <1>4 DEF ParseReload, ObjOK
<1> QED
  BY <1>1, <1>2, <1>5, <1>6, <1>7

LEMMA GetConfigEffect ==
  ASSUME Types, NEW s \in Services, GetConfig(s)
  PROVE  /\ mgr[s].alive /\ mgr[s].load = "flushed" /\ Only(s)
         /\ UNCHANGED <<todo, waits, requests, replies, asks, inbox, hub, dsh, obj, redis, fresh, log>>
         /\ mgr'[s].alive = mgr[s].alive /\ mgr'[s].gen = mgr[s].gen
         /\ IF s \in {"client", "ds"}
            THEN mgr'[s].load = "loading" /\ mgr'[s].session = redis.config /\ mgr'[s].devs = mgr[s].devs
            ELSE mgr'[s].load = "idle" /\ mgr'[s].session = mgr[s].session /\ mgr'[s].devs = redis.config
<1>1. /\ mgr[s].alive /\ mgr[s].load = "flushed"
      /\ UNCHANGED <<todo, waits, requests, replies, asks, inbox, hub, dsh, obj, redis, fresh, log>>
  BY DEF GetConfig, MgrKeeps, client
<1> DEFINE c == redis.config
           m == IF s \in {"client", "ds"} THEN [mgr[s] EXCEPT !.load = "loading", !.session = c]
                ELSE [mgr[s] EXCEPT !.load = "idle", !.devs = c]
<1>2. mgr' = [mgr EXCEPT ![s] = m]
  BY DEF GetConfig
<1>3. DOMAIN mgr = Services /\ DOMAIN mgr[s] = MgrFields
  BY DEF ManagersOK, IsManager, Types
<1> HIDE DEF c
<1>4. /\ DOMAIN m = MgrFields /\ m.alive = mgr[s].alive /\ m.gen = mgr[s].gen
      /\ IF s \in {"client", "ds"} THEN m.load = "loading" /\ m.session = c /\ m.devs = mgr[s].devs
         ELSE m.load = "idle" /\ m.session = mgr[s].session /\ m.devs = c
  BY <1>3 DEF MgrFields
<1> HIDE DEF m
<1>5. DOMAIN mgr' = Services /\ (\A t \in Services: t # s => mgr'[t] = mgr[t]) /\ mgr'[s] = m
  BY <1>2, <1>3
<1> QED
  BY <1>1, <1>4, <1>5 DEF Only, c

LEMMA ClientLoadsEffect ==
  ASSUME Types, ClientLoads
  PROVE  /\ mgr["client"].alive /\ mgr["client"].load = "loading" /\ Only("client")
         /\ UNCHANGED <<todo, waits, requests, replies, asks, inbox, hub, dsh, obj, redis, fresh>>
         /\ mgr'["client"].alive = mgr["client"].alive /\ mgr'["client"].gen = mgr["client"].gen
         /\ mgr'["client"].load = "idle" /\ mgr'["client"].session = <<>>
         /\ mgr'["client"].devs = Restrict(mgr["client"].session, DOMAIN mgr["client"].session \cap redis.info)
         /\ LogKeeps({"unloaded"}) /\ log'.unloaded = log.unloaded \cup (DOMAIN mgr["client"].session \ redis.info)
<1>1. /\ mgr["client"].alive /\ mgr["client"].load = "loading"
      /\ UNCHANGED <<todo, waits, requests, replies, asks, inbox, hub, dsh, obj, redis, fresh>>
  BY DEF ClientLoads, MgrKeeps, client
<1> DEFINE c == Restrict(mgr["client"].session, DOMAIN mgr["client"].session \cap redis.info)
           m == [mgr["client"] EXCEPT !.load = "idle", !.session = <<>>, !.devs = c]
<1>2. mgr' = [mgr EXCEPT !["client"] = m]
  BY DEF ClientLoads
<1>3. DOMAIN mgr = Services /\ DOMAIN mgr["client"] = MgrFields /\ "client" \in Services /\ LogOK /\ "unloaded" \in LogFields
  BY DEF ManagersOK, IsManager, Types, Services, LogFields
<1> HIDE DEF c
<1>4. /\ DOMAIN m = MgrFields /\ m.alive = mgr["client"].alive /\ m.gen = mgr["client"].gen
      /\ m.load = "idle" /\ m.session = <<>> /\ m.devs = c
  BY <1>3 DEF MgrFields
<1> HIDE DEF m
<1>5. DOMAIN mgr' = Services /\ (\A t \in Services: t # "client" => mgr'[t] = mgr[t]) /\ mgr'["client"] = m
  BY <1>2, <1>3
<1>6. log' = [log EXCEPT !["unloaded"] = log.unloaded \cup (DOMAIN mgr["client"].session \ redis.info)]
  BY DEF ClientLoads
<1>7. LogKeeps({"unloaded"}) /\ log'.unloaded = log.unloaded \cup (DOMAIN mgr["client"].session \ redis.info)
  BY <1>3, <1>6, LogOne
<1> QED
  BY <1>1, <1>4, <1>5, <1>7 DEF Only, c

DsHub == UNCHANGED <<todo, waits, asks, hub, inbox>>
ObjBut(d) == DOMAIN obj' = Devices /\ (\A x \in Devices: x # d => obj'[x] = obj[x]) /\ DOMAIN obj'[d] = {"conf", "up"}
Creates(d, e) ==
  /\ ObjBut(d) /\ obj'[d].conf = e.conf /\ obj'[d].up = IF e.enabled /\ d \notin Unreachable THEN "connected" ELSE "off"

LEMMA CreatedEffect ==
  ASSUME ObjOK, NEW d \in Devices, NEW e, obj' = Created(d, e)
  PROVE  Creates(d, e)
  BY DEF ObjOK, Created, Creates, ObjBut

LEMMA RemadeEffect ==
  ASSUME LogOK, NEW d, NEW early \in BOOLEAN, log' = Remade(d, early, log)
  PROVE  LogKeeps({"remade"}) /\ log'.remade = IF early THEN log.remade \cup {d} ELSE log.remade
<1>1. "remade" \in LogFields
  BY DEF LogFields
<1>2. CASE early
  <2>1. log' = [log EXCEPT !["remade"] = log.remade \cup {d}]
    BY <1>2 DEF Remade
  <2> QED
    BY <1>1, <1>2, <2>1, LogOne
<1>3. CASE ~early
  <2>1. log' = log
    BY <1>3 DEF Remade
  <2> QED
    BY <1>3, <2>1, LogNone DEF LogKeeps, LogFields
<1> QED
  BY <1>2, <1>3

LEMMA RemadeRefused ==
  ASSUME LogOK, NEW d, NEW early \in BOOLEAN, log' = Remade(d, early, [log EXCEPT !.refused = @ \cup {d}])
  PROVE  /\ LogKeeps({"remade", "refused"}) /\ log'.refused = log.refused \cup {d}
         /\ log'.remade = IF early THEN log.remade \cup {d} ELSE log.remade
<1> DEFINE x == log.refused \cup {d}
           y == log.remade \cup {d}
<1>1. /\ LogOK /\ "refused" \in LogFields /\ "remade" \in LogFields /\ "refused" # "remade"
  BY DEF LogFields
<1>2. CASE early
  <2>0. log' = [[log EXCEPT !.refused = x] EXCEPT !.remade = [log EXCEPT !.refused = x].remade \cup {d}]
    BY <1>2 DEF Remade
  <2>1. [log EXCEPT !.refused = x].remade = log.remade
    BY <1>1 DEF LogOK
  <2> HIDE DEF x
  <2>2. log' = [[log EXCEPT !.refused = x] EXCEPT !.remade = y]
    BY <2>0, <2>1
  <2> HIDE DEF y
  <2>3. LogKeeps({"remade", "refused"}) /\ log'.refused = x /\ log'.remade = y
    BY <1>1, <2>2 DEF LogKeeps, LogOK, LogFields
  <2> QED
    BY <1>2, <2>3 DEF x, y
<1>3. CASE ~early
  <2>1. log' = [log EXCEPT !["refused"] = x]
    BY <1>3 DEF Remade
  <2>2. LogKeeps({"refused"}) /\ log'.refused = x
    BY <1>1, <2>1, LogOne
  <2> QED
    BY <1>3, <2>2 DEF LogKeeps, LogFields
<1> QED
  BY <1>2, <1>3

\* What the device server does with the next device of the session that it loads.
Takes(d) ==
  /\ d \in DOMAIN mgr["ds"].session /\ Only("ds")
  /\ mgr'["ds"].alive = mgr["ds"].alive /\ mgr'["ds"].gen = mgr["ds"].gen
  /\ DOMAIN mgr'["ds"].session = DOMAIN mgr["ds"].session \ {d}
  /\ \A x \in DOMAIN mgr["ds"].session \ {d}: mgr'["ds"].session[x] = mgr["ds"].session[x]
Adds(d, e) ==
  /\ DOMAIN mgr'["ds"].devs = DOMAIN mgr["ds"].devs \cup {d} /\ mgr'["ds"].devs[d] = e
  /\ \A x \in DOMAIN mgr["ds"].devs: x # d => mgr'["ds"].devs[x] = mgr["ds"].devs[x]
Informs(d) == redis' = [config |-> redis.config, info |-> redis.info \cup {d}]
LoadEnds ==
  /\ DOMAIN mgr["ds"].session = {} /\ Only("ds") /\ mgr'["ds"].alive = mgr["ds"].alive /\ mgr'["ds"].gen = mgr["ds"].gen
  /\ mgr'["ds"].session = mgr["ds"].session /\ mgr'["ds"].devs = mgr["ds"].devs /\ mgr'["ds"].load = "idle"
  /\ UNCHANGED <<requests, obj, redis, fresh, log>>
LoadRefuses(d) ==
  /\ Takes(d) /\ mgr'["ds"].devs = mgr["ds"].devs /\ mgr'["ds"].load = "loading"
  /\ UNCHANGED <<requests, obj, redis, fresh>> /\ LogKeeps({"refused"}) /\ log'.refused = log.refused \cup {d}
Asks(d) == DisableRequest(d) /\ fresh' = fresh + 1
LoadFails(d, e) ==
  /\ Takes(d) /\ Adds(d, [e EXCEPT !.enabled = FALSE]) /\ mgr'["ds"].load = "disabling" /\ Creates(d, e) /\ Informs(d)
  /\ Asks(d) /\ e.enabled /\ d \in Unreachable
  /\ LogKeeps({"remade", "refused"}) /\ log'.refused = log.refused \cup {d}
  /\ log'.remade = IF Overtaken(d, e) THEN log.remade \cup {d} ELSE log.remade
LoadAdds(d, e) ==
  /\ Takes(d) /\ Adds(d, e) /\ mgr'["ds"].load = "loading" /\ Creates(d, e) /\ Informs(d) /\ e.conf # Bad
  /\ UNCHANGED <<requests, fresh>> /\ ~Failing(d, e)
  /\ LogKeeps({"remade"}) /\ log'.remade = IF Overtaken(d, e) THEN log.remade \cup {d} ELSE log.remade

LEMMA DsLoadEffect ==
  ASSUME Types, DsLoad
  PROVE  /\ mgr["ds"].alive /\ mgr["ds"].load = "loading" /\ UNCHANGED <<todo, waits, asks, replies, hub, dsh, inbox>>
         /\ LoadEnds \/ \E d \in Devices: LET e == mgr["ds"].session[d] IN LoadRefuses(d) \/ LoadFails(d, e) \/ LoadAdds(d, e)
<1>1. mgr["ds"].alive /\ mgr["ds"].load = "loading" /\ UNCHANGED <<todo, waits, asks, replies, hub, dsh, inbox>>
  BY DEF DsLoad, client
<1>2. ManagersOK /\ "ds" \in Services /\ LogOK /\ RedisOK /\ ObjOK /\ "refused" \in LogFields
  BY DEF Types, Services, LogFields
<1>3. CASE DOMAIN mgr["ds"].session = {}
  <2>1. mgr' = [mgr EXCEPT !["ds"].load = "idle"] /\ UNCHANGED <<requests, obj, redis, fresh, log>>
    BY <1>3 DEF DsLoad
  <2>2. LoadEnds
    BY <1>2, <1>3, <2>1, MgrLoad DEF LoadEnds, Only
  <2> QED
    BY <1>1, <2>2
<1>4. CASE DOMAIN mgr["ds"].session # {}
  <2> DEFINE d == CHOOSE d \in DOMAIN mgr["ds"].session: TRUE
             e == mgr["ds"].session[d]
             w == Without(mgr["ds"].session, d)
             next == [mgr["ds"] EXCEPT !.session = w]
  <2>1. d \in DOMAIN mgr["ds"].session
    BY <1>4
  <2>2. d \in Devices /\ IsEntry(e)
    BY <1>2, <2>1 DEF ManagersOK, IsManager, IsConfig
  <2>3. DOMAIN mgr = Services /\ DOMAIN mgr["ds"] = MgrFields
    BY <1>2 DEF ManagersOK, IsManager
  <2>4. /\ DOMAIN w = DOMAIN mgr["ds"].session \ {d}
        /\ \A x \in DOMAIN mgr["ds"].session \ {d}: w[x] = mgr["ds"].session[x]
    BY DEF Without, Restrict, Keys
  <2>5. CASE e.conf = Bad
    <3>1. /\ mgr' = [mgr EXCEPT !["ds"] = next] /\ log' = [log EXCEPT !["refused"] = log.refused \cup {d}]
          /\ UNCHANGED <<requests, obj, redis, fresh>>
      BY <1>4, <2>5 DEF DsLoad
    <3> HIDE DEF w, d
    <3>2. /\ DOMAIN next = MgrFields /\ next.session = w /\ next.devs = mgr["ds"].devs /\ next.load = mgr["ds"].load
          /\ next.alive = mgr["ds"].alive /\ next.gen = mgr["ds"].gen
      BY <2>3 DEF MgrFields
    <3> HIDE DEF next
    <3>3. DOMAIN mgr' = Services /\ (\A t \in Services: t # "ds" => mgr'[t] = mgr[t]) /\ mgr'["ds"] = next
      BY <1>2, <2>3, <3>1
    <3>4. LogKeeps({"refused"}) /\ log'.refused = log.refused \cup {d}
      BY <1>2, <3>1, LogOne
    <3>5. LoadRefuses(d)
      BY <1>1, <2>1, <2>4, <3>1, <3>2, <3>3, <3>4 DEF LoadRefuses, Takes, Only
    <3> QED
      BY <1>1, <2>2, <3>5
  <2>6. CASE e.conf # Bad /\ Failing(d, e)
    <3> DEFINE a == AddDevice(d, [e EXCEPT !.enabled = FALSE])
               m == [next EXCEPT !.devs = a, !.load = "disabling", !.ask = fresh]
    <3>1. /\ obj' = Created(d, e) /\ redis' = [redis EXCEPT !.info = @ \cup {d}]
          /\ mgr' = [mgr EXCEPT !["ds"] = m]
          /\ DisableRequest(d) /\ fresh' = fresh + 1
          /\ log' = Remade(d, Overtaken(d, e), [log EXCEPT !.refused = @ \cup {d}])
      BY <1>4, <2>6 DEF DsLoad
    <3>2. /\ DOMAIN a = DOMAIN mgr["ds"].devs \cup {d} /\ a[d] = [e EXCEPT !.enabled = FALSE]
          /\ \A x \in DOMAIN mgr["ds"].devs: x # d => a[x] = mgr["ds"].devs[x]
      BY DEF AddDevice, Devs
    <3>3. Creates(d, e)
      BY <1>2, <2>2, <3>1, CreatedEffect
    <3>4. Informs(d)
      BY <1>2, <3>1 DEF Informs, RedisOK
    <3>5. e.enabled /\ d \in Unreachable
      BY <2>6 DEF Failing
    <3>6. /\ LogKeeps({"remade", "refused"}) /\ log'.refused = log.refused \cup {d}
          /\ log'.remade = IF Overtaken(d, e) THEN log.remade \cup {d} ELSE log.remade
      <4>1. Overtaken(d, e) \in BOOLEAN
        BY DEF Overtaken
      <4> QED
        BY <1>2, <3>1, <4>1, RemadeRefused
    <3> HIDE DEF w, d, a
    <3>7. /\ DOMAIN m = MgrFields /\ m.session = w /\ m.devs = a /\ m.load = "disabling"
          /\ m.alive = mgr["ds"].alive /\ m.gen = mgr["ds"].gen
      BY <2>3 DEF MgrFields
    <3> HIDE DEF m
    <3>8. DOMAIN mgr' = Services /\ (\A t \in Services: t # "ds" => mgr'[t] = mgr[t]) /\ mgr'["ds"] = m
      BY <1>2, <2>3, <3>1
    <3> HIDE DEF e
    <3>9. Takes(d)
      BY <2>1, <2>4, <3>7, <3>8 DEF Takes, Only
    <3>10. Adds(d, [e EXCEPT !.enabled = FALSE])
      BY <3>2, <3>7, <3>8 DEF Adds
    <3>11. LoadFails(d, e)
      BY <3>1, <3>3, <3>4, <3>5, <3>6, <3>7, <3>8, <3>9, <3>10 DEF LoadFails, Asks
    <3> QED
      BY <1>1, <2>2, <3>11 DEF e
  <2>7. CASE e.conf # Bad /\ ~Failing(d, e)
    <3> DEFINE a == AddDevice(d, e)
               m == [next EXCEPT !.devs = a]
    <3>1. /\ obj' = Created(d, e) /\ redis' = [redis EXCEPT !.info = @ \cup {d}]
          /\ mgr' = [mgr EXCEPT !["ds"] = m]
          /\ UNCHANGED <<requests, fresh>>
          /\ log' = Remade(d, Overtaken(d, e), log)
      BY <1>4, <2>7 DEF DsLoad
    <3>2. /\ DOMAIN a = DOMAIN mgr["ds"].devs \cup {d} /\ a[d] = e
          /\ \A x \in DOMAIN mgr["ds"].devs: x # d => a[x] = mgr["ds"].devs[x]
      BY DEF AddDevice, Devs
    <3>3. Creates(d, e)
      BY <1>2, <2>2, <3>1, CreatedEffect
    <3>4. Informs(d)
      BY <1>2, <3>1 DEF Informs, RedisOK
    <3>6. LogKeeps({"remade"}) /\ log'.remade = IF Overtaken(d, e) THEN log.remade \cup {d} ELSE log.remade
      <4>1. Overtaken(d, e) \in BOOLEAN
        BY DEF Overtaken
      <4> QED
        BY <1>2, <3>1, <4>1, RemadeEffect
    <3> HIDE DEF w, d, a
    <3>7. /\ DOMAIN m = MgrFields /\ m.session = w /\ m.devs = a /\ m.load = "loading"
          /\ m.alive = mgr["ds"].alive /\ m.gen = mgr["ds"].gen
      BY <1>1, <2>3 DEF MgrFields
    <3> HIDE DEF m
    <3>8. DOMAIN mgr' = Services /\ (\A t \in Services: t # "ds" => mgr'[t] = mgr[t]) /\ mgr'["ds"] = m
      BY <1>2, <2>3, <3>1
    <3> HIDE DEF e
    <3>9. Takes(d)
      BY <2>1, <2>4, <3>7, <3>8 DEF Takes, Only
    <3>10. Adds(d, e)
      BY <3>2, <3>7, <3>8 DEF Adds
    <3>11. LoadAdds(d, e)
      BY <2>7, <3>1, <3>3, <3>4, <3>6, <3>7, <3>8, <3>9, <3>10 DEF LoadAdds
    <3> QED
      BY <1>1, <2>2, <3>11 DEF e
  <2> QED
    BY <2>5, <2>6, <2>7
<1> QED
  BY <1>3, <1>4

LEMMA DsDisabledEffect ==
  ASSUME Types, DsDisabled
  PROVE  /\ mgr["ds"].alive /\ mgr["ds"].load = "disabling" /\ Only("ds")
         /\ UNCHANGED <<todo, waits, asks, requests, replies, hub, dsh, inbox, obj, redis, fresh, log>>
         /\ mgr'["ds"].alive = mgr["ds"].alive /\ mgr'["ds"].gen = mgr["ds"].gen /\ mgr'["ds"].session = mgr["ds"].session
         /\ mgr'["ds"].devs = mgr["ds"].devs /\ mgr'["ds"].load = "loading"
<1>1. /\ mgr["ds"].alive /\ mgr["ds"].load = "disabling"
      /\ UNCHANGED <<todo, waits, asks, requests, replies, hub, dsh, inbox, obj, redis, fresh, log>>
      /\ mgr' = [mgr EXCEPT !["ds"].load = "loading"]
  BY DEF DsDisabled, client
<1>2. ManagersOK /\ "ds" \in Services
  BY DEF Types, Services
<1> QED
  BY <1>1, <1>2, MgrLoad DEF Only

DshTakes(a) ==
  /\ a.dev \in DOMAIN Devs("ds") /\ dsh' = [pc |-> "update", ask |-> a, nested |-> 0] /\ UNCHANGED <<replies, log>>
DshRefuses(a) ==
  /\ a.dev \notin DOMAIN Devs("ds") /\ Reply(a.id, FALSE) /\ UNCHANGED dsh
  /\ LogKeeps({"late"}) /\ log'.late = log.late \cup {a.dev}
LEMMA DsReceiveEffect ==
  ASSUME Types, DsReceive
  PROVE  /\ mgr["ds"].alive /\ dsh.pc = "idle" /\ asks # <<>> /\ asks' = Tail(asks)
         /\ UNCHANGED <<todo, waits, requests, hub, inbox, mgr, obj, redis, fresh>>
         /\ DshTakes(Head(asks)) \/ DshRefuses(Head(asks))
<1>1. /\ mgr["ds"].alive /\ dsh.pc = "idle" /\ asks # <<>> /\ asks' = Tail(asks)
      /\ UNCHANGED <<todo, waits, requests, hub, inbox, mgr, obj, redis, fresh>>
  BY DEF DsReceive, client
<1>2. CASE Head(asks).dev \in DOMAIN Devs("ds")
  <2>1. DshTakes(Head(asks))
    BY <1>2 DEF DsReceive, DshTakes
  <2> QED
    BY <1>1, <2>1
<1>3. CASE Head(asks).dev \notin DOMAIN Devs("ds")
  <2>1. /\ Reply(Head(asks).id, FALSE) /\ UNCHANGED dsh
        /\ log' = [log EXCEPT !["late"] = log.late \cup {Head(asks).dev}]
    BY <1>3 DEF DsReceive
  <2>2. LogOK /\ "late" \in LogFields
    BY DEF Types, LogFields
  <2>3. DshRefuses(Head(asks))
    BY <1>3, <2>1, <2>2, LogOne DEF DshRefuses
  <2> QED
    BY <1>1, <2>3
<1> QED
  BY <1>2, <1>3

LEMMA DsGivesUpEffect ==
  ASSUME Types, DsGivesUp
  PROVE  /\ mgr["ds"].alive /\ dsh.pc = "disabling" /\ dsh' = Idle
         /\ UNCHANGED <<todo, waits, requests, asks, hub, inbox, mgr, obj, redis, fresh, log>>
         /\ \E accepted \in BOOLEAN: Reply(dsh.ask.id, accepted) /\ accepted = (Answer(dsh.nested) = {TRUE})
<1>1. (Answer(dsh.nested) = {TRUE}) \in BOOLEAN
  OBVIOUS
<1> QED
  BY <1>1 DEF DsGivesUp, DsKeeps, client, Finish

DsEntry(d, enabled) ==
  /\ Only("ds") /\ MgrSame("ds") /\ mgr'["ds"].load = mgr["ds"].load
  /\ DOMAIN mgr'["ds"].devs = DOMAIN mgr["ds"].devs /\ d \in DOMAIN mgr["ds"].devs
  /\ \A x \in DOMAIN mgr["ds"].devs: x # d => mgr'["ds"].devs[x] = mgr["ds"].devs[x]
  /\ IsEntry(mgr'["ds"].devs[d]) /\ mgr'["ds"].devs[d].enabled = enabled
  /\ mgr'["ds"].devs[d].conf = mgr["ds"].devs[d].conf /\ mgr'["ds"].devs[d].param = mgr["ds"].devs[d].param
DsFinishes(accepted) == Reply(dsh.ask.id, accepted) /\ dsh' = Idle /\ UNCHANGED <<requests, fresh>>
DsDies ==
  /\ Only("ds") /\ mgr'["ds"].alive = FALSE /\ mgr'["ds"].gen = mgr["ds"].gen /\ mgr'["ds"].session = mgr["ds"].session
  /\ mgr'["ds"].devs = mgr["ds"].devs /\ mgr'["ds"].load = mgr["ds"].load

\* The six outcomes for a device d and an update u.
NoneThere(d) == d \notin DOMAIN Devs("ds") /\ DsDies /\ DsFinishes(TRUE) /\ UNCHANGED <<obj, log>>
ConfRefused(d, u) ==
  /\ d \in DOMAIN Devs("ds") /\ "conf" \in Keys(u) /\ u.conf = Bad
  /\ DsFinishes(FALSE) /\ ObjBut(d) /\ obj'[d].conf = Devs("ds")[d].conf /\ obj'[d].up = obj[d].up /\ UNCHANGED mgr
  /\ IF Devs("ds")[d].conf = obj[d].conf THEN log' = log ELSE LogKeeps({"late"}) /\ log'.late = log.late \cup {d}
ConfSet(d, u) ==
  /\ d \in DOMAIN Devs("ds") /\ "conf" \in Keys(u) /\ u.conf # Bad /\ "enabled" \notin Keys(u)
  /\ DsFinishes(TRUE) /\ ObjBut(d) /\ obj'[d].conf = u.conf /\ obj'[d].up = obj[d].up /\ UNCHANGED <<mgr, log>>
NewConf(d, u) == IF "conf" \in Keys(u) THEN u.conf ELSE obj[d].conf
Asked(d, u) == d \in DOMAIN Devs("ds") /\ "enabled" \in Keys(u) /\ ("conf" \in Keys(u) => u.conf # Bad)
Disabled(d, u) ==
  /\ Asked(d, u) /\ u.enabled = FALSE /\ DsEntry(d, FALSE) /\ DsFinishes(TRUE) /\ UNCHANGED log
  /\ ObjBut(d) /\ obj'[d].conf = NewConf(d, u)
  /\ obj'[d].up = IF obj[d].up = "connected" THEN Off(d) ELSE obj[d].up
Enabled(d, u) ==
  /\ Asked(d, u) /\ u.enabled = TRUE /\ (d \notin Unreachable \/ obj[d].up = "connected")
  /\ DsEntry(d, TRUE) /\ DsFinishes(TRUE) /\ LogKeeps({"remade"}) /\ ObjBut(d)
  /\ IF obj[d].up = "destroyed"
     THEN /\ obj'[d].conf = Devs("ds")[d].conf /\ obj'[d].up = "connected"
          /\ log'.remade = IF Devs("ds")[d].conf # NewConf(d, u) THEN log.remade \cup {d} ELSE log.remade
     ELSE obj'[d].conf = NewConf(d, u) /\ obj'[d].up = "connected" /\ log'.remade = log.remade
NotConnected(d, u) ==
  /\ Asked(d, u) /\ u.enabled = TRUE /\ d \in Unreachable /\ obj[d].up = "destroyed"
  /\ DsEntry(d, FALSE) /\ ObjBut(d) /\ obj'[d].conf = Devs("ds")[d].conf /\ obj'[d].up = "off"
  /\ Asks(d) /\ UNCHANGED replies /\ dsh' = [pc |-> "disabling", ask |-> dsh.ask, nested |-> fresh]
  /\ LogKeeps({"remade", "refused"}) /\ log'.refused = log.refused \cup {d}
  /\ log'.remade = IF Devs("ds")[d].conf # NewConf(d, u) THEN log.remade \cup {d} ELSE log.remade
CannotReconnect(d, u) ==
  /\ Asked(d, u) /\ u.enabled = TRUE /\ d \in Unreachable /\ obj[d].up = "off"
  /\ DsDies /\ DsFinishes(TRUE) /\ UNCHANGED log /\ ObjBut(d) /\ obj'[d].conf = NewConf(d, u) /\ obj'[d].up = obj[d].up

LEMMA DsEntryEffect ==
  ASSUME ManagersOK, NEW d \in DOMAIN Devs("ds"), NEW b \in BOOLEAN,
         \/ mgr' = [mgr EXCEPT !["ds"].devs[d] = [Devs("ds")[d] EXCEPT !.enabled = b]]
         \/ mgr' = [mgr EXCEPT !["ds"].devs[d].enabled = b]
  PROVE  DsEntry(d, b)
<1>1. DOMAIN mgr = Services /\ IsManager(mgr["ds"]) /\ "ds" \in Services /\ IsEntry(mgr["ds"].devs[d]) /\ d \in DOMAIN mgr["ds"].devs
  BY DEF ManagersOK, Services, IsManager, IsConfig, Devs
<1> DEFINE e == [mgr["ds"].devs[d] EXCEPT !.enabled = b]
           v == [mgr["ds"].devs EXCEPT ![d] = e]
<1>2. mgr' = [mgr EXCEPT !["ds"].devs = v]
  <2>1. CASE mgr' = [mgr EXCEPT !["ds"].devs[d] = [Devs("ds")[d] EXCEPT !.enabled = b]]
    BY <2>1 DEF Devs
  <2>2. CASE mgr' = [mgr EXCEPT !["ds"].devs[d].enabled = b]
    BY <1>1, <2>2
  <2> QED
    BY <2>1, <2>2
<1>3. IsEntry(e) /\ e.enabled = b /\ e.conf = mgr["ds"].devs[d].conf /\ e.param = mgr["ds"].devs[d].param
  BY <1>1 DEF IsEntry
<1> HIDE DEF e
<1>4. DOMAIN v = DOMAIN mgr["ds"].devs /\ v[d] = e /\ \A x \in DOMAIN mgr["ds"].devs: x # d => v[x] = mgr["ds"].devs[x]
  BY <1>1
<1> HIDE DEF v
<1>5. /\ Only("ds") /\ mgr'["ds"].devs = v /\ mgr'["ds"].alive = mgr["ds"].alive
      /\ mgr'["ds"].gen = mgr["ds"].gen /\ mgr'["ds"].load = mgr["ds"].load /\ mgr'["ds"].session = mgr["ds"].session
  BY <1>1, <1>2, MgrDevs DEF Only
<1> QED
  BY <1>1, <1>3, <1>4, <1>5 DEF DsEntry, MgrSame

LEMMA ConfiguredEffect ==
  ASSUME ObjOK, NEW d \in Devices, NEW u, NEW made, made = Configured(d, u)
  PROVE  /\ DOMAIN made = Devices /\ (\A x \in Devices: x # d => made[x] = obj[x])
         /\ DOMAIN made[d] = {"conf", "up"} /\ made[d].up = obj[d].up
         /\ made[d].conf = IF "conf" \in Keys(u) THEN IF u.conf # Bad THEN u.conf ELSE Devs("ds")[d].conf ELSE obj[d].conf
  BY DEF ObjOK, Configured

LEMMA DsUpdateEffect ==
  ASSUME Types, DsUpdate
  PROVE  /\ mgr["ds"].alive /\ dsh.pc = "update" /\ DsHub /\ redis' = redis
         /\ LET d == dsh.ask.dev
                u == dsh.ask.u
            IN  NoneThere(d) \/ ConfRefused(d, u) \/ ConfSet(d, u) \/ Disabled(d, u) \/ Enabled(d, u)
                  \/ NotConnected(d, u) \/ CannotReconnect(d, u)
<1> DEFINE d == dsh.ask.dev
           u == dsh.ask.u
           made == Configured(d, u)
           e == [Devs("ds")[d] EXCEPT !.enabled = u.enabled]
           set == [mgr EXCEPT !["ds"].devs[d] = e]
           gone == obj[d].up = "destroyed"
<1>1. mgr["ds"].alive /\ dsh.pc = "update" /\ DsHub
  BY DEF DsUpdate, DsKeeps, client, DsHub
<1>2. /\ IsAsk(dsh.ask) /\ d \in Devices /\ IsUpdate(u) /\ Keys(u) \cap {"conf", "enabled"} # {} /\ ManagersOK /\ ObjOK /\ LogOK
      /\ "late" \in LogFields /\ "ds" \in Services
  BY <1>1 DEF Types, DshOK, IsAsk, LogFields, Services
<1>3. /\ DOMAIN made = Devices /\ (\A x \in Devices: x # d => made[x] = obj[x])
      /\ DOMAIN made[d] = {"conf", "up"} /\ made[d].up = obj[d].up
      /\ made[d].conf = IF "conf" \in Keys(u) THEN IF u.conf # Bad THEN u.conf ELSE Devs("ds")[d].conf ELSE obj[d].conf
  BY <1>2, ConfiguredEffect
<1>4. obj[d].up \in {"connected", "off", "destroyed"}
  BY <1>2 DEF ObjOK
<1> HIDE DEF made
<1>5. CASE d \notin DOMAIN Devs("ds")
  <2>1. Dies("ds") /\ Finish(TRUE) /\ UNCHANGED <<requests, obj, fresh, redis, log>>
    BY <1>5 DEF DsUpdate
  <2>2. DsDies
    BY <1>2, <2>1, MgrAlive DEF DsDies, Only
  <2>3. NoneThere(d)
    BY <1>5, <2>1, <2>2 DEF NoneThere, DsFinishes, Finish
  <2> QED
    BY <1>1, <2>1, <2>3
<1>6. CASE d \in DOMAIN Devs("ds") /\ "conf" \in Keys(u) /\ u.conf = Bad
  <2>a. ~(Apply([conf |-> 0], u).conf # Bad)
    BY <1>6 DEF Apply
  <2>0. Finish(FALSE) /\ obj' = made /\ UNCHANGED <<requests, mgr, redis, fresh>>
    BY <1>6, <2>a DEF DsUpdate, made
  <2>1. log' = IF Devs("ds")[d].conf = obj[d].conf THEN log ELSE [log EXCEPT !["late"] = log.late \cup {d}]
    BY <1>6, <2>a DEF DsUpdate
  <2>2. IF Devs("ds")[d].conf = obj[d].conf THEN log' = log ELSE LogKeeps({"late"}) /\ log'.late = log.late \cup {d}
    BY <1>2, <2>1, LogOne
  <2>3. ConfRefused(d, u)
    BY <1>3, <1>6, <2>0, <2>2 DEF ConfRefused, DsFinishes, Finish, ObjBut
  <2> QED
    BY <1>1, <2>0, <2>3
<1>7. CASE d \in DOMAIN Devs("ds") /\ "conf" \in Keys(u) /\ u.conf # Bad /\ "enabled" \notin Keys(u)
  <2>1. Apply([conf |-> 0], u).conf # Bad
    BY <1>7 DEF Apply
  <2>2. Finish(TRUE) /\ obj' = made /\ UNCHANGED <<requests, mgr, redis, fresh, log>>
    BY <1>7, <2>1 DEF DsUpdate, made
  <2>3. ConfSet(d, u)
    BY <1>3, <1>7, <2>2 DEF ConfSet, DsFinishes, Finish, ObjBut
  <2> QED
    BY <1>1, <2>2, <2>3
<1>8. CASE Asked(d, u)
  <2>1. d \in DOMAIN Devs("ds") /\ "enabled" \in Keys(u) /\ ("conf" \in Keys(u) => u.conf # Bad)
    BY <1>8 DEF Asked
  <2>2. u.enabled \in BOOLEAN
    BY <1>2, <2>1 DEF IsUpdate, Keys
  <2>3. made[d].conf = NewConf(d, u)
    BY <1>3, <2>1 DEF NewConf
  <2>4. IF ~u.enabled
        THEN /\ mgr' = set /\ obj' = [made EXCEPT ![d].up = IF @ = "connected" THEN Off(d) ELSE @]
             /\ Finish(TRUE) /\ UNCHANGED <<requests, redis, fresh, log>>
        ELSE IF d \notin Unreachable \/ obj[d].up = "connected"
        THEN /\ mgr' = set /\ obj' = Enable(d, e, made) /\ Finish(TRUE)
             /\ log' = Remade(d, gone /\ e.conf # made[d].conf, log)
             /\ UNCHANGED <<requests, redis, fresh>>
        ELSE IF gone
        THEN /\ mgr' = [mgr EXCEPT !["ds"].devs[d].enabled = FALSE] /\ obj' = Created(d, e)
             /\ DisableRequest(d) /\ fresh' = fresh + 1 /\ UNCHANGED <<replies, redis>>
             /\ dsh' = [dsh EXCEPT !.pc = "disabling", !.nested = fresh]
             /\ log' = Remade(d, e.conf # made[d].conf, [log EXCEPT !.refused = @ \cup {d}])
        ELSE Dies("ds") /\ Finish(TRUE) /\ obj' = made /\ UNCHANGED <<requests, redis, fresh, log>>
    BY <2>1 DEF DsUpdate, made
  <2>5. IsEntry(Devs("ds")[d]) /\ e.conf = Devs("ds")[d].conf /\ e.enabled = u.enabled
    BY <1>2, <2>1 DEF ManagersOK, IsManager, IsConfig, Devs, IsEntry
  <2>6. mgr' = set => DsEntry(d, u.enabled)
    BY <1>2, <2>1, <2>2, DsEntryEffect
  <2> HIDE DEF e, set
  <2>7. CASE ~u.enabled
    <3>1. /\ mgr' = set /\ obj' = [made EXCEPT ![d].up = IF @ = "connected" THEN Off(d) ELSE @]
          /\ Finish(TRUE) /\ UNCHANGED <<requests, redis, fresh, log>>
      BY <2>4, <2>7
    <3>2. ObjBut(d) /\ obj'[d].conf = made[d].conf /\ obj'[d].up = IF obj[d].up = "connected" THEN Off(d) ELSE obj[d].up
      BY <1>2, <1>3, <3>1 DEF ObjBut
    <3>3. Disabled(d, u)
      BY <1>8, <2>2, <2>3, <2>6, <2>7, <3>1, <3>2 DEF Disabled, DsFinishes, Finish
    <3> QED
      BY <1>1, <3>1, <3>3
  <2>8. CASE u.enabled /\ (d \notin Unreachable \/ obj[d].up = "connected")
    <3>1. /\ mgr' = set /\ obj' = Enable(d, e, made) /\ Finish(TRUE)
          /\ log' = Remade(d, gone /\ e.conf # made[d].conf, log)
          /\ UNCHANGED <<requests, redis, fresh>>
      BY <2>4, <2>8
    <3>2. LogKeeps({"remade"}) /\ log'.remade = IF gone /\ e.conf # made[d].conf THEN log.remade \cup {d} ELSE log.remade
      BY <1>2, <3>1, RemadeEffect
    <3>3. CASE gone
      <4>1. obj' = Created(d, e)
        BY <1>3, <3>1, <3>3 DEF Enable
      <4>2. Creates(d, e)
        BY <1>2, <4>1, CreatedEffect
      <4>3. d \notin Unreachable
        BY <2>8, <3>3
      <4>4. Enabled(d, u)
        BY <1>8, <2>2, <2>3, <2>5, <2>6, <2>8, <3>1, <3>2, <3>3, <4>2, <4>3 DEF Enabled, DsFinishes, Finish, Creates
      <4> QED
        BY <1>1, <3>1, <4>4
    <3>4. CASE ~gone
      <4>1. obj' = [made EXCEPT ![d].up = "connected"]
        BY <1>3, <3>1, <3>4 DEF Enable
      <4>2. ObjBut(d) /\ obj'[d].conf = made[d].conf /\ obj'[d].up = "connected"
        BY <1>2, <1>3, <4>1 DEF ObjBut
      <4>3. Enabled(d, u)
        BY <1>8, <2>2, <2>3, <2>5, <2>6, <2>8, <3>1, <3>2, <3>4, <4>2 DEF Enabled, DsFinishes, Finish
      <4> QED
        BY <1>1, <3>1, <4>3
    <3> QED
      BY <3>3, <3>4
  <2>9. CASE u.enabled /\ d \in Unreachable /\ gone
    <3>1. /\ mgr' = [mgr EXCEPT !["ds"].devs[d].enabled = FALSE] /\ obj' = Created(d, e)
          /\ DisableRequest(d) /\ fresh' = fresh + 1 /\ UNCHANGED <<replies, redis>>
          /\ dsh' = [dsh EXCEPT !.pc = "disabling", !.nested = fresh]
          /\ log' = Remade(d, e.conf # made[d].conf, [log EXCEPT !.refused = @ \cup {d}])
      BY <2>4, <2>9
    <3>2. /\ LogKeeps({"remade", "refused"}) /\ log'.refused = log.refused \cup {d}
          /\ log'.remade = IF e.conf # made[d].conf THEN log.remade \cup {d} ELSE log.remade
      <4>1. (e.conf # made[d].conf) \in BOOLEAN
        OBVIOUS
      <4> QED
        BY <1>2, <3>1, <4>1, RemadeRefused
    <3>3. Creates(d, e)
      BY <1>2, <3>1, CreatedEffect
    <3>4. DsEntry(d, FALSE)
      BY <1>2, <2>1, <3>1, DsEntryEffect
    <3>5. dsh' = [pc |-> "disabling", ask |-> dsh.ask, nested |-> fresh]
      <4>1. DOMAIN dsh = {"pc", "ask", "nested"}
        BY <1>1 DEF Types, DshOK, Idle
      <4>2. dsh = [pc |-> dsh.pc, ask |-> dsh.ask, nested |-> dsh.nested]
        BY <1>1 DEF Types, DshOK, Idle
      <4> QED
        BY <3>1, <4>1, <4>2
    <3>6. NotConnected(d, u)
      BY <1>8, <2>2, <2>3, <2>5, <2>9, <3>1, <3>2, <3>3, <3>4, <3>5 DEF NotConnected, Asks, Creates
    <3> QED
      BY <1>1, <3>1, <3>6
  <2>10. CASE u.enabled /\ d \in Unreachable /\ obj[d].up = "off"
    <3>1. Dies("ds") /\ Finish(TRUE) /\ obj' = made /\ UNCHANGED <<requests, redis, fresh, log>>
      BY <2>4, <2>10
    <3>2. DsDies
      BY <1>2, <3>1, MgrAlive DEF DsDies, Only
    <3>3. CannotReconnect(d, u)
      BY <1>3, <1>8, <2>2, <2>3, <2>10, <3>1, <3>2 DEF CannotReconnect, DsFinishes, Finish, ObjBut
    <3> QED
      BY <1>1, <3>1, <3>3
  <2> QED
    BY <1>4, <2>2, <2>7, <2>8, <2>9, <2>10
<1> QED
  BY <1>2, <1>5, <1>6, <1>7, <1>8 DEF Asked

LEMMA SendRequestEffect ==
  ASSUME Types, SendRequest
  PROVE  LET r == Head(todo) IN
         /\ waits = 0 /\ todo # <<>> /\ todo' = Tail(todo) /\ waits' = fresh /\ fresh' = fresh + 1 /\ IsRequest(r)
         /\ requests' = Append(requests, [id |-> fresh, action |-> r.action, us |-> r.us])
         /\ UNCHANGED <<replies, asks, hub, dsh, inbox, obj, redis, log>>
         /\ r.action = "update" => DOMAIN r.us \subseteq DOMAIN Devs("client")
         /\ IF r.locally
            THEN /\ Only("client") /\ MgrSame("client") /\ mgr'["client"].load = mgr["client"].load
                 /\ mgr'["client"].devs = ApplyTo(mgr["client"].devs, r.us)
            ELSE mgr' = mgr
<1> DEFINE r == Head(todo)
           v == ApplyTo(mgr["client"].devs, r.us)
<1>1. /\ waits = 0 /\ todo # <<>> /\ todo' = Tail(todo) /\ waits' = fresh /\ fresh' = fresh + 1
      /\ requests' = Append(requests, [id |-> fresh, action |-> r.action, us |-> r.us])
      /\ UNCHANGED <<replies, asks, hub, dsh, inbox, obj, redis, log>>
      /\ r.action = "update" => DOMAIN r.us \subseteq DOMAIN Devs("client")
  BY DEF SendRequest, Devs
<1>2. IsRequest(r)
  BY <1>1, SeqTail DEF Types, ClientOK
<1>3. mgr' = IF r.locally THEN [mgr EXCEPT !["client"].devs = v] ELSE mgr
  BY DEF SendRequest
<1>4. ManagersOK /\ "client" \in Services
  BY DEF Types, Services
<1> HIDE DEF v
<1>5. IF r.locally
      THEN /\ Only("client") /\ MgrSame("client") /\ mgr'["client"].load = mgr["client"].load
           /\ mgr'["client"].devs = v
      ELSE mgr' = mgr
  BY <1>3, <1>4, MgrDevs DEF Only, MgrSame
<1> QED
  BY <1>1, <1>2, <1>5 DEF v

-----------------------------------------------------------------------------
(* Types.                                                                  *)

Later == fresh' \in {fresh, fresh + 1}

LEMMA FreshLater ==
  ASSUME FreshOK, Later
  PROVE  FreshOK' /\ fresh' >= fresh /\ fresh' \in Nat /\ \A id \in 1..(fresh - 1): id \in 1..(fresh' - 1)
<1>1. fresh \in Nat /\ fresh # 0 /\ (fresh' = fresh \/ fresh' = fresh + 1)
  BY DEF FreshOK, Later
<1>2. fresh' \in Nat /\ fresh' # 0 /\ fresh' >= fresh
  BY <1>1
<1>3. ASSUME NEW id \in 1..(fresh - 1)
      PROVE  id \in 1..(fresh' - 1)
  <2> DEFINE f == fresh'
  <2>1. id \in Int /\ 1 <= id /\ id <= fresh - 1 /\ f \in Nat /\ f >= fresh
    BY <1>1, <1>2
  <2> HIDE DEF f
  <2>2. id \in 1..(f - 1)
    BY <1>1, <2>1
  <2> QED
    BY <2>2 DEF f
<1>4. FreshOK'
  BY <1>2 DEF FreshOK
<1> QED
  BY <1>2, <1>3, <1>4

LEMMA RequestsSame ==
  ASSUME FreshOK, Later, RequestsOK, requests' = requests
  PROVE  RequestsOK'
  BY FreshLater DEF RequestsOK, IsSent

LEMMA RequestsTail ==
  ASSUME FreshOK, Later, RequestsOK, requests # <<>>, requests' = Tail(requests)
  PROVE  RequestsOK' /\ IsSent(Head(requests))
<1>1. IsSeq(requests) /\ \A i \in DOMAIN requests: IsSent(requests[i])
  BY DEF RequestsOK
<1>2. IsSent(Head(requests)) /\ IsSeq(requests') /\ \A i \in DOMAIN requests': IsSent(requests'[i])
  BY <1>1, SeqTail
<1> QED
  BY <1>2, FreshLater DEF RequestsOK, IsSent

LEMMA RequestsAppend ==
  ASSUME FreshOK, fresh' = fresh + 1, RequestsOK, NEW m, requests' = Append(requests, m), m.id = fresh,
         m.action \in {"update", "reload", "set"}, m.action = "update" => IsUpdates(m.us), m.action = "set" => IsConfig(m.us)
  PROVE  RequestsOK'
<1>1. Later /\ fresh \in 1..(fresh' - 1)
  BY DEF FreshOK, Later
<1>2. IsSeq(requests) /\ \A i \in DOMAIN requests: IsSent(requests[i])
  BY DEF RequestsOK
<1>3. IsSeq(requests') /\ \A i \in DOMAIN requests': requests'[i] = m \/ IsSent(requests'[i])
  BY <1>2, SeqAppend
<1> QED
  BY <1>1, <1>3, FreshLater DEF RequestsOK, IsSent

LEMMA AsksDisable ==
  ASSUME FreshOK, RequestsOK, NEW d \in Devices, Asks(d)
  PROVE  RequestsOK' /\ Later
<1> DEFINE us == [x \in {d} |-> [enabled |-> FALSE]]
           m == [id |-> fresh, action |-> "update", us |-> us]
<1>1. IsUpdates(us)
  BY DEF IsUpdates, IsUpdate
<1>2. requests' = Append(requests, m) /\ fresh' = fresh + 1
  BY DEF Asks, DisableRequest
<1> HIDE DEF us
<1>3. m.id = fresh /\ m.action = "update" /\ m.us = us
  OBVIOUS
<1> HIDE DEF m
<1> QED
  BY <1>1, <1>2, <1>3, RequestsAppend DEF Later

LEMMA AsksSame ==
  ASSUME FreshOK, Later, AsksOK, asks' = asks
  PROVE  AsksOK'
  BY FreshLater DEF AsksOK, IsAsk

LEMMA AsksTail ==
  ASSUME FreshOK, Later, AsksOK, asks # <<>>, asks' = Tail(asks)
  PROVE  AsksOK' /\ IsAsk(Head(asks))
<1>1. IsSeq(asks) /\ \A i \in DOMAIN asks: IsAsk(asks[i])
  BY DEF AsksOK
<1>2. IsAsk(Head(asks)) /\ IsSeq(asks') /\ \A i \in DOMAIN asks': IsAsk(asks'[i])
  BY <1>1, SeqTail
<1> QED
  BY <1>2, FreshLater DEF AsksOK, IsAsk

LEMMA AsksAppend ==
  ASSUME FreshOK, fresh' = fresh + 1, AsksOK, NEW d \in Devices, NEW u, IsUpdate(u), Keys(u) \cap {"conf", "enabled"} # {},
         asks' = Append(asks, [id |-> fresh, dev |-> d, u |-> u])
  PROVE  AsksOK'
<1> DEFINE m == [id |-> fresh, dev |-> d, u |-> u]
<1>1. Later /\ fresh \in 1..(fresh' - 1)
  BY DEF FreshOK, Later
<1>2. IsSeq(asks) /\ \A i \in DOMAIN asks: IsAsk(asks[i])
  BY DEF AsksOK
<1>3. m.id = fresh /\ m.dev = d /\ m.u = u /\ asks' = Append(asks, m)
  OBVIOUS
<1> HIDE DEF m
<1>4. IsSeq(asks') /\ \A i \in DOMAIN asks': asks'[i] = m \/ IsAsk(asks'[i])
  BY <1>2, <1>3, SeqAppend
<1> QED
  BY <1>1, <1>3, <1>4, FreshLater DEF AsksOK, IsAsk

LEMMA RepliesSame ==
  ASSUME FreshOK, Later, RepliesOK, replies' = replies
  PROVE  RepliesOK'
  BY FreshLater DEF RepliesOK

LEMMA RepliesAdd ==
  ASSUME FreshOK, Later, RepliesOK, NEW id \in 1..(fresh - 1), NEW accepted \in BOOLEAN, Reply(id, accepted)
  PROVE  RepliesOK'
  BY FreshLater DEF RepliesOK, Reply

LEMMA InboxBroadcast ==
  ASSUME InboxOK, NEW m, IsMessage(m), Broadcast(m)
  PROVE  InboxOK'
<1>1. \A s \in Services: IsSeq(inbox'[s]) /\ \A i \in DOMAIN inbox'[s]: inbox'[s][i] = m \/ IsMessage(inbox'[s][i])
  BY SeqAppend DEF InboxOK, Broadcast
<1> QED
  BY <1>1 DEF InboxOK, Broadcast

LEMMA InboxTail ==
  ASSUME InboxOK, NEW s \in Services, Handles(s)
  PROVE  InboxOK' /\ IsMessage(Head(inbox[s]))
<1>1. IsSeq(inbox[s]) /\ \A i \in DOMAIN inbox[s]: IsMessage(inbox[s][i])
  BY DEF InboxOK
<1>2. IsMessage(Head(inbox[s])) /\ IsSeq(inbox'[s]) /\ \A i \in DOMAIN inbox'[s]: IsMessage(inbox'[s][i])
  BY <1>1, SeqTail DEF Handles
<1> QED
  BY <1>2 DEF InboxOK, Handles

LEMMA HubSame ==
  ASSUME FreshOK, Later, HubOK, hub' = hub, mgr'["hub"].gen = mgr["hub"].gen,
         DOMAIN mgr'["hub"].devs = DOMAIN mgr["hub"].devs
  PROVE  HubOK'
  BY FreshLater DEF HubOK, Attached, Devs

LEMMA DshSame ==
  ASSUME FreshOK, Later, DshOK, dsh' = dsh
  PROVE  DshOK'
  BY FreshLater DEF DshOK, IsAsk

LEMMA ClientSame ==
  ASSUME FreshOK, Later, ClientOK, UNCHANGED <<todo, waits>>
  PROVE  ClientOK'
  BY FreshLater DEF ClientOK, FreshOK

LEMMA SetToSeqFacts ==
  ASSUME NEW S, S \subseteq Devices
  PROVE  LET q == SetToSeq(S) IN IsSeq(q) /\ ToSet(q) = S /\ \A i, j \in DOMAIN q: q[i] = q[j] => i = j
<1>1. IsFiniteSet(S)
  BY FS_Subset, DevicesAssumption
<1> DEFINE n == Cardinality(S)
<1>2. n \in Nat /\ ExistsBijection(1..n, S)
  BY <1>1, FS_CardinalityType
<1>3. PICK f \in [1..n -> S]: (\A a, b \in 1..n: a # b => f[a] # f[b]) /\ \A x \in S: \E a \in 1..n: f[a] = x
  BY <1>2 DEF ExistsBijection, Bijection, Injection, Surjection, IsInjective
<1> DEFINE q == SetToSeq(S)
<1>4. q \in [1..n -> S] /\ \A a, b \in 1..n: q[a] = q[b] => a = b
  <2>1. \E g \in [1..n -> S]: IsInjective(g)
    BY <1>3 DEF IsInjective
  <2>2. q \in [1..n -> S] /\ IsInjective(q)
    BY <2>1 DEF SetToSeq
  <2> QED
    BY <2>2 DEF IsInjective
<1> HIDE DEF q
<1>5. IsFiniteSet(1..n) /\ Cardinality(1..n) = n
  BY <1>2, FS_Interval
<1>6. q \in Injection(1..n, S)
  BY <1>4 DEF Injection, IsInjective
<1>7. q \in Surjection(1..n, S)
  BY <1>1, <1>5, <1>6, FS_Injection
<1>8. \A x \in S: \E a \in 1..n: q[a] = x
  BY <1>7 DEF Surjection
<1>9. ToSet(q) = S
  BY <1>4, <1>8 DEF ToSet
<1>10. IsSeq(q)
  BY <1>2, <1>4, <1>9 DEF IsSeq
<1> QED
  BY <1>4, <1>9, <1>10 DEF q

\* The place of the loads: only the client and the device server load in two steps.
IsPlaced(s, m) ==
  /\ m.load = "flushed" => DOMAIN m.devs = {}
  /\ m.load \in {"idle", "flushed"} => DOMAIN m.session = {}
  /\ m.load = "loading" => s \in {"client", "ds"}
  /\ m.load = "disabling" => s = "ds"
  /\ s = "client" /\ m.load = "loading" => DOMAIN m.devs = {}

LEMMA ManagersBut ==
  ASSUME ManagersOK, NEW s \in Services, Only(s), IsManager(mgr'[s]), IsPlaced(s, mgr'[s])
  PROVE  ManagersOK'
<1>1. \A t \in Services: IsManager(mgr'[t]) /\ IsPlaced(t, mgr'[t])
  <2> SUFFICES ASSUME NEW t \in Services PROVE IsManager(mgr'[t]) /\ IsPlaced(t, mgr'[t])
    OBVIOUS
  <2>1. CASE t = s
    BY <2>1
  <2>2. CASE t # s
    <3>1. mgr'[t] = mgr[t]
      BY <2>2 DEF Only
    <3> QED
      BY <3>1 DEF ManagersOK, IsPlaced
  <2> QED
    BY <2>1, <2>2
<1> QED
  BY <1>1 DEF ManagersOK, IsPlaced, Only, Services

LEMMA ManagerIs ==
  ASSUME ManagersOK, NEW s \in Services
  PROVE  IsManager(mgr[s]) /\ IsPlaced(s, mgr[s]) /\ mgr[s].gen \in Nat /\ IsConfig(mgr[s].devs) /\ IsConfig(mgr[s].session)
  BY DEF ManagersOK, IsPlaced, IsManager

LEMMA ClientTypes ==
  ASSUME Types, Client
  PROVE  Types'
<1>1. CASE SendRequest
  <2> DEFINE r == Head(todo)
  <2>1. /\ waits = 0 /\ todo # <<>> /\ todo' = Tail(todo) /\ waits' = fresh /\ fresh' = fresh + 1 /\ IsRequest(r)
        /\ requests' = Append(requests, [id |-> fresh, action |-> r.action, us |-> r.us])
        /\ UNCHANGED <<replies, asks, hub, dsh, inbox, obj, redis, log>>
        /\ IF r.locally
           THEN /\ Only("client") /\ MgrSame("client") /\ mgr'["client"].load = mgr["client"].load
                /\ mgr'["client"].devs = ApplyTo(mgr["client"].devs, r.us)
           ELSE mgr' = mgr
    BY <1>1, SendRequestEffect
  <2>2. Later /\ FreshOK
    BY <2>1 DEF Later, Types, QueuesOK
  <2>3. ClientOK'
    <3>1. IsSeq(todo) /\ \A i \in DOMAIN todo: IsRequest(todo[i])
      BY DEF Types, ClientOK
    <3>2. IsSeq(todo') /\ \A i \in DOMAIN todo': IsRequest(todo'[i])
      BY <2>1, <3>1, SeqTail
    <3> QED
      BY <2>1, <2>2, <3>2, FreshLater DEF ClientOK, FreshOK
  <2>4. RequestsOK'
    <3> DEFINE m == [id |-> fresh, action |-> r.action, us |-> r.us]
    <3> HIDE DEF r
    <3>1. m.id = fresh /\ m.action = r.action /\ m.us = r.us
      OBVIOUS
    <3>2. requests' = Append(requests, m)
      BY <2>1
    <3> HIDE DEF m
    <3>3. /\ m.action \in {"update", "reload", "set"} /\ (m.action = "update" => IsUpdates(m.us))
          /\ m.action = "set" => IsConfig(m.us)
      BY <2>1, <3>1 DEF IsRequest, IsUpdates
    <3> QED
      BY <2>1, <2>2, <3>1, <3>2, <3>3, RequestsAppend DEF Types, QueuesOK
  <2>5. ManagersOK'
    <3>1. CASE r.locally
      <4>1. IsUpdates(r.us)
        BY <2>1, <3>1 DEF IsRequest, IsUpdates
      <4>2. "client" \in Services /\ ManagersOK
        BY DEF Services, Types
      <4>3. /\ IsManager(mgr["client"]) /\ IsPlaced("client", mgr["client"]) /\ IsConfig(mgr["client"].devs)
        BY <4>2, ManagerIs
      <4>4. IsConfig(mgr'["client"].devs) /\ DOMAIN mgr'["client"].devs = DOMAIN mgr["client"].devs
        BY <2>1, <3>1, <4>1, <4>3, ApplyToConfig
      <4>5. IsManager(mgr'["client"]) /\ IsPlaced("client", mgr'["client"])
        BY <2>1, <3>1, <4>3, <4>4 DEF IsManager, IsPlaced, MgrSame, Only
      <4> QED
        BY <2>1, <3>1, <4>2, <4>5, ManagersBut
    <3>2. CASE ~r.locally
      BY <2>1, <3>2 DEF Types, ManagersOK
    <3> QED
      BY <3>1, <3>2
  <2>6. HubOK'
    <3>1. mgr'["hub"] = mgr["hub"]
      BY <2>1 DEF Only, Services
    <3> QED
      BY <2>1, <2>2, <3>1, HubSame DEF Types
  <2>7. AsksOK' /\ RepliesOK' /\ DshOK' /\ FreshOK'
    BY <2>1, <2>2, AsksSame, RepliesSame, DshSame, FreshLater DEF Types, QueuesOK
  <2>8. InboxOK' /\ ObjOK' /\ RedisOK' /\ LogOK'
    BY <2>1 DEF Types, InboxOK, ObjOK, RedisOK, LogOK
  <2> QED
    BY <2>3, <2>4, <2>5, <2>6, <2>7, <2>8 DEF Types, QueuesOK
<1>2. CASE NoSuchDevice \/ GetReply \/ ReplyTimesOut
  <2>1. UNCHANGED <<requests, replies, asks, hub, dsh, inbox, mgr, obj, redis, fresh, log>>
    BY <1>2 DEF NoSuchDevice, GetReply, ReplyTimesOut
  <2>2. Later /\ FreshOK
    BY <2>1 DEF Later, Types, QueuesOK
  <2>3. ClientOK'
    <3>1. IsSeq(todo) /\ (\A i \in DOMAIN todo: IsRequest(todo[i])) /\ waits \in 0..(fresh - 1)
      BY DEF Types, ClientOK
    <3>2. (todo' = todo \/ (todo # <<>> /\ todo' = Tail(todo))) /\ (waits' = waits \/ waits' = 0)
      BY <1>2 DEF NoSuchDevice, GetReply, ReplyTimesOut
    <3>3. IsSeq(todo') /\ \A i \in DOMAIN todo': IsRequest(todo'[i])
      <4>1. CASE todo' = todo
        BY <3>1, <4>1
      <4>2. CASE todo # <<>> /\ todo' = Tail(todo)
        BY <3>1, <4>2, SeqTail
      <4> QED
        BY <3>2, <4>1, <4>2
    <3>4. waits' \in 0..(fresh' - 1)
      BY <2>1, <2>2, <3>1, <3>2 DEF FreshOK
    <3> QED
      BY <3>3, <3>4 DEF ClientOK
  <2>4. RequestsOK' /\ AsksOK' /\ RepliesOK' /\ DshOK' /\ FreshOK' /\ HubOK'
    BY <2>1, <2>2, RequestsSame, AsksSame, RepliesSame, DshSame, FreshLater, HubSame DEF Types, QueuesOK
  <2>5. InboxOK' /\ ObjOK' /\ RedisOK' /\ LogOK' /\ ManagersOK'
    BY <2>1 DEF Types, InboxOK, ObjOK, RedisOK, LogOK, ManagersOK
  <2> QED
    BY <2>3, <2>4, <2>5 DEF Types, QueuesOK
<1> QED
  BY <1>1, <1>2 DEF Client

LEMMA IdleHub ==
  ASSUME hub' = Idle
  PROVE  HubOK'
  BY DEF HubOK, Idle

LEMMA HubReceiveTypes ==
  ASSUME Types, HubReceive
  PROVE  Types'
<1> DEFINE r == Head(requests)
<1>1. /\ hub.pc = "idle" /\ requests # <<>> /\ mgr["hub"].alive /\ requests' = Tail(requests)
      /\ UNCHANGED <<todo, waits, dsh, obj, asks, mgr, fresh>>
      /\ HubRefuses(r) \/ HubTakes(r) \/ HubReloads(r) \/ HubSets(r)
  BY HubReceiveEffect
<1>2. Later /\ FreshOK
  BY <1>1 DEF Later, Types, QueuesOK
<1>3. RequestsOK' /\ IsSent(r)
  BY <1>1, <1>2, RequestsTail DEF Types, QueuesOK
<1> HIDE DEF r
<1>4. ClientOK' /\ AsksOK' /\ DshOK' /\ FreshOK'
  BY <1>1, <1>2, ClientSame, AsksSame, DshSame, FreshLater DEF Types, QueuesOK
<1>5. ManagersOK' /\ ObjOK'
  BY <1>1 DEF Types, ManagersOK, ObjOK
<1>6. RepliesOK'
  <2>1. r.id \in 1..(fresh - 1)
    BY <1>3 DEF IsSent
  <2>2. replies' = replies \/ \E accepted \in BOOLEAN: Reply(r.id, accepted)
    BY <1>1 DEF HubRefuses, HubTakes, HubReloads, HubSets
  <2> QED
    BY <1>2, <2>1, <2>2, RepliesSame, RepliesAdd DEF Types
<1>7. InboxOK'
  <2>1. inbox' = inbox \/ Broadcast([action |-> "reload"])
    BY <1>1 DEF HubRefuses, HubTakes, HubReloads, HubSets
  <2>2. IsMessage([action |-> "reload"])
    BY DEF IsMessage
  <2>3. CASE inbox' = inbox
    BY <2>3 DEF Types, InboxOK
  <2> QED
    BY <2>1, <2>2, <2>3, InboxBroadcast DEF Types
<1>8. HubOK'
  <2>1. CASE HubTakes(r)
    <3>1. /\ DOMAIN hub' = HubFields /\ hub'.pc = "next" /\ hub'.req = r /\ hub'.left = SetToSeq(DOMAIN r.us)
          /\ hub'.updated = FALSE /\ hub'.stored = {} /\ r.action = "update"
      BY <2>1 DEF HubTakes
    <3>2. IsUpdates(r.us) /\ r.id \in 1..(fresh' - 1)
      BY <1>1, <1>3, <3>1 DEF IsSent
    <3>3. DOMAIN r.us \subseteq Devices
      BY <3>2 DEF IsUpdates
    <3> DEFINE q == SetToSeq(DOMAIN r.us)
    <3>4. IsSeq(q) /\ ToSet(q) = DOMAIN r.us /\ \A i, j \in DOMAIN q: q[i] = q[j] => i = j
      BY <3>3, SetToSeqFacts
    <3> HIDE DEF q
    <3>5. hub'.left = q
      BY <3>1 DEF q
    <3> QED
      BY <3>1, <3>2, <3>4, <3>5 DEF HubOK
  <2>2. CASE HubRefuses(r)
    BY <2>2, IdleHub DEF HubRefuses
  <2>3. CASE HubReloads(r) \/ HubSets(r)
    <3>1. hub' = hub
      BY <2>3 DEF HubReloads, HubSets
    <3> QED
      BY <1>1, <1>2, <3>1, HubSame DEF Types
  <2> QED
    BY <1>1, <2>1, <2>2, <2>3
<1>9. RedisOK'
  <2>1. CASE HubSets(r)
    <3>1. redis' = [config |-> r.us, info |-> redis.info] /\ IsConfig(r.us)
      BY <1>3, <2>1 DEF HubSets, IsSent
    <3> QED
      BY <3>1 DEF Types, RedisOK
  <2>2. CASE redis' = redis
    BY <2>2 DEF Types, RedisOK
  <2> QED
    BY <1>1, <2>1, <2>2 DEF HubRefuses, HubTakes, HubReloads
<1>10. LogOK'
  BY <1>1 DEF HubRefuses, HubTakes, HubReloads, HubSets, LogKeeps, LogOK, LogFields, Types
<1> QED
  BY <1>3, <1>4, <1>5, <1>6, <1>7, <1>8, <1>9, <1>10 DEF Types, QueuesOK

LEMMA HubBusy ==
  ASSUME HubOK, hub.pc # "idle"
  PROVE  /\ DOMAIN hub = HubFields /\ hub.pc \in {"next", "ask", "wait"}
         /\ hub.req.action = "update" /\ IsUpdates(hub.req.us) /\ hub.req.id \in 1..(fresh - 1)
         /\ IsSeq(hub.left) /\ \A i, j \in DOMAIN hub.left: hub.left[i] = hub.left[j] => i = j
         /\ ToSet(hub.left) \subseteq DOMAIN hub.req.us
         /\ hub.updated \in BOOLEAN /\ hub.stored \subseteq DOMAIN hub.req.us \ ToSet(hub.left)
         /\ DOMAIN hub.req.us \subseteq Devices /\ \A d \in DOMAIN hub.req.us: IsUpdate(hub.req.us[d])
  BY DEF HubOK, Idle, IsUpdates

LEMMA LogKept ==
  ASSUME NEW S, LogKeeps(S)
  PROVE  LogOK'
  BY DEF LogKeeps, LogOK, LogFields

\* The devices that are left when the first of them is taken.
LEMMA TailOfLeft ==
  ASSUME NEW q, IsSeq(q), q # <<>>, \A i, j \in DOMAIN q: q[i] = q[j] => i = j
  PROVE  /\ IsSeq(Tail(q)) /\ \A i, j \in DOMAIN Tail(q): Tail(q)[i] = Tail(q)[j] => i = j
         /\ ToSet(Tail(q)) = ToSet(q) \ {Head(q)} /\ Head(q) \in ToSet(q)
<1> DEFINE r == Tail(q)
<1>1. /\ IsSeq(r) /\ Len(q) \in Nat \ {0} /\ DOMAIN q = 1..Len(q) /\ DOMAIN r = 1..(Len(q) - 1)
      /\ Head(q) = q[1] /\ 1 \in DOMAIN q
      /\ \A i \in DOMAIN r: r[i] = q[i + 1] /\ i + 1 \in DOMAIN q
      /\ \A i \in DOMAIN q: i # 1 => i - 1 \in DOMAIN r /\ r[i - 1] = q[i]
  BY SeqTail
<1> HIDE DEF r
<1>2. \A i, j \in DOMAIN r: r[i] = r[j] => i = j
  <2> SUFFICES ASSUME NEW i \in DOMAIN r, NEW j \in DOMAIN r, r[i] = r[j] PROVE i = j
    OBVIOUS
  <2>1. i + 1 = j + 1
    BY <1>1
  <2>2. i \in Int /\ j \in Int
    BY <1>1
  <2> QED
    BY <2>1, <2>2
<1>3. ToSet(q) = {q[i]: i \in DOMAIN q} /\ ToSet(r) = {r[i]: i \in DOMAIN r}
  BY DEF ToSet
<1>4. \A x \in ToSet(r): x \in ToSet(q) /\ x # Head(q)
  <2> SUFFICES ASSUME NEW i \in DOMAIN r PROVE r[i] \in ToSet(q) /\ r[i] # Head(q)
    BY <1>3
  <2>1. i + 1 \in DOMAIN q /\ r[i] = q[i + 1] /\ i + 1 # 1
    BY <1>1
  <2> QED
    BY <1>1, <1>3, <2>1
<1>5. \A x \in ToSet(q): x # Head(q) => x \in ToSet(r)
  <2> SUFFICES ASSUME NEW i \in DOMAIN q, q[i] # Head(q) PROVE q[i] \in ToSet(r)
    BY <1>3
  <2>1. i # 1
    BY <1>1
  <2> QED
    BY <1>1, <1>3, <2>1
<1> QED
  BY <1>1, <1>2, <1>3, <1>4, <1>5 DEF r

LEMMA HubDeviceTypes ==
  ASSUME Types, HubDevice
  PROVE  Types'
<1>1. /\ hub.pc = "next" /\ hub.left # <<>>
      /\ UNCHANGED <<todo, waits, requests, dsh, obj, asks, inbox, mgr, redis, fresh>>
      /\ HubStarts(Head(hub.left)) \/ HubMisses
  BY HubDeviceEffect
<1>2. Later /\ FreshOK
  BY <1>1 DEF Later, Types, QueuesOK
<1>3. ClientOK' /\ RequestsOK' /\ AsksOK' /\ DshOK' /\ FreshOK'
  BY <1>1, <1>2, ClientSame, RequestsSame, AsksSame, DshSame, FreshLater DEF Types, QueuesOK
<1>4. ManagersOK' /\ ObjOK' /\ RedisOK' /\ InboxOK'
  BY <1>1 DEF Types, ManagersOK, ObjOK, RedisOK, InboxOK
<1>5. /\ DOMAIN hub = HubFields
      /\ hub.req.action = "update" /\ IsUpdates(hub.req.us) /\ hub.req.id \in 1..(fresh - 1)
      /\ IsSeq(hub.left) /\ \A i, j \in DOMAIN hub.left: hub.left[i] = hub.left[j] => i = j
      /\ ToSet(hub.left) \subseteq DOMAIN hub.req.us
      /\ hub.updated \in BOOLEAN /\ hub.stored \subseteq DOMAIN hub.req.us \ ToSet(hub.left)
      /\ DOMAIN hub.req.us \subseteq Devices /\ \A d \in DOMAIN hub.req.us: IsUpdate(hub.req.us[d])
  BY <1>1, HubBusy DEF Types
<1>6. CASE HubMisses
  <2>1. RepliesOK'
    BY <1>2, <1>5, <1>6, RepliesAdd DEF HubMisses, Types
  <2>2. LogOK' /\ HubOK'
    BY <1>6, LogKept, IdleHub DEF HubMisses
  <2> QED
    BY <1>3, <1>4, <2>1, <2>2 DEF Types, QueuesOK
<1>7. CASE HubStarts(Head(hub.left))
  <2> DEFINE d == Head(hub.left)
  <2>1. RepliesOK' /\ LogOK'
    BY <1>2, <1>7, RepliesSame DEF HubStarts, Types, LogOK
  <2>2. /\ DOMAIN hub' = HubFields /\ hub'.pc = "ask" /\ hub'.req = hub.req /\ hub'.left = Tail(hub.left)
        /\ hub'.dev = d /\ hub'.u = hub.req.us[d] /\ hub'.gen = mgr["hub"].gen
        /\ hub'.entry = Devs("hub")[d] /\ hub'.updated = FALSE /\ hub'.stored = hub.stored
        /\ d \in DOMAIN Devs("hub")
    BY <1>7 DEF HubStarts
  <2>3. /\ IsSeq(hub'.left) /\ \A i, j \in DOMAIN hub'.left: hub'.left[i] = hub'.left[j] => i = j
        /\ ToSet(hub'.left) = ToSet(hub.left) \ {d} /\ d \in ToSet(hub.left)
    BY <1>1, <1>5, <2>2, TailOfLeft
  <2>4. mgr["hub"].gen \in Nat /\ IsEntry(Devs("hub")[d])
    BY <2>2 DEF Types, ManagersOK, IsManager, Services, IsConfig, Devs
  <2>5. hub'.dev \in DOMAIN hub'.req.us \ (ToSet(hub'.left) \cup hub'.stored)
    BY <1>5, <2>2, <2>3
  <2> HIDE DEF d
  <2>6. HubOK'
    <3>1. /\ hub'.req.action = "update" /\ IsUpdates(hub'.req.us) /\ hub'.req.id \in 1..(fresh' - 1)
          /\ ToSet(hub'.left) \subseteq DOMAIN hub'.req.us
          /\ hub'.updated \in BOOLEAN /\ hub'.stored \subseteq DOMAIN hub'.req.us \ ToSet(hub'.left)
      BY <1>1, <1>5, <2>2, <2>3
    <3>2. hub'.gen \in 0..mgr'["hub"].gen /\ IsEntry(hub'.entry) /\ hub'.dev \in DOMAIN mgr'["hub"].devs
      BY <1>1, <2>2, <2>4 DEF Devs
    <3>3. IsUpdate(hub'.u) /\ hub'.u = hub'.req.us[hub'.dev]
      BY <1>5, <2>2, <2>5
    <3> QED
      BY <2>2, <2>3, <2>5, <3>1, <3>2, <3>3 DEF HubOK, Devs
  <2> QED
    BY <1>3, <1>4, <2>1, <2>6 DEF Types, QueuesOK
<1> QED
  BY <1>1, <1>6, <1>7

\* The part of HubOK about the request is kept when the request is.
LEMMA HubRequestKept ==
  ASSUME HubOK, hub.pc # "idle", RequestKept, FreshOK, Later, hub'.pc \in {"next", "ask", "wait"},
         hub'.updated \in BOOLEAN, hub'.stored \subseteq DOMAIN hub.req.us \ ToSet(hub.left),
         hub'.pc \in {"ask", "wait"} =>
           /\ hub.dev \in DOMAIN hub.req.us \ (ToSet(hub.left) \cup hub'.stored)
           /\ hub.gen \in 0..mgr'["hub"].gen /\ IsEntry(hub'.entry)
           /\ hub.gen = mgr'["hub"].gen => hub.dev \in DOMAIN mgr'["hub"].devs
           /\ IsUpdate(hub'.u) /\ Keys(hub'.u) \subseteq Keys(hub.req.us[hub.dev])
           /\ \A k \in Keys(hub'.u): hub'.u[k] = hub.req.us[hub.dev][k],
         hub'.pc = "wait" => Keys(hub'.u) \cap {"conf", "enabled"} # {} /\ hub'.ask \in 1..(fresh' - 1)
  PROVE  HubOK'
<1>1. hub.req.id \in 1..(fresh' - 1)
  BY HubBusy, FreshLater
<1>2. DOMAIN hub' = HubFields /\ hub'.req = hub.req /\ hub'.left = hub.left /\ hub'.gen = hub.gen /\ hub'.dev = hub.dev
  BY DEF RequestKept
<1>3. /\ hub.req.action = "update" /\ IsUpdates(hub.req.us)
      /\ IsSeq(hub.left) /\ \A i, j \in DOMAIN hub.left: hub.left[i] = hub.left[j] => i = j
      /\ ToSet(hub.left) \subseteq DOMAIN hub.req.us
  BY HubBusy
<1> QED
  BY <1>1, <1>2, <1>3 DEF HubOK, Attached, Devs

LEMMA HubAtDevice ==
  ASSUME Types, hub.pc \in {"ask", "wait"}
  PROVE  /\ hub.dev \in DOMAIN hub.req.us \ (ToSet(hub.left) \cup hub.stored) /\ hub.dev \in Devices
         /\ hub.gen \in 0..mgr["hub"].gen /\ IsEntry(hub.entry) /\ hub.gen \in Nat /\ mgr["hub"].gen \in Nat
         /\ hub.gen = mgr["hub"].gen => hub.dev \in DOMAIN mgr["hub"].devs
         /\ IsUpdate(hub.u) /\ Keys(hub.u) \subseteq Keys(hub.req.us[hub.dev])
         /\ \A k \in Keys(hub.u): hub.u[k] = hub.req.us[hub.dev][k]
         /\ hub.pc = "wait" => Keys(hub.u) \cap {"conf", "enabled"} # {} /\ hub.ask \in 1..(fresh - 1)
         /\ IsEntry(Entry)
<1>1. HubOK /\ ManagersOK
  BY DEF Types
<1>2. IsEntry(Entry) /\ mgr["hub"].gen \in Nat /\ hub.dev \in Devices
  BY <1>1, EntryIs, ManagerIs, HubBusy DEF Services, HubOK
<1>3. hub.gen \in 0..mgr["hub"].gen
  BY <1>1 DEF HubOK
<1> QED
  BY <1>1, <1>2, <1>3 DEF HubOK, Attached, Devs

LEMMA HubAskTypes ==
  ASSUME Types, HubAsk
  PROVE  Types'
<1>1. /\ hub.pc = "ask" /\ Keys(hub.u) \cap {"conf", "enabled"} # {}
      /\ asks' = Append(asks, [id |-> fresh, dev |-> hub.dev, u |-> hub.u]) /\ fresh' = fresh + 1
      /\ UNCHANGED <<todo, waits, requests, replies, inbox, dsh, obj, redis, log>>
      /\ RequestKept /\ hub'.pc = "wait" /\ hub'.ask = fresh /\ hub'.updated = hub.updated
      /\ hub'.stored = hub.stored /\ hub'.u = hub.u
  BY HubAskEffect
<1>2. PICK e: EntryBecomes(e) /\ HubHolds(e)
  BY HubAskEffect
<1>3. Later /\ FreshOK /\ fresh \in 1..(fresh' - 1)
  BY <1>1 DEF Later, Types, QueuesOK, FreshOK
<1>4. ClientOK' /\ RequestsOK' /\ RepliesOK' /\ DshOK' /\ FreshOK'
  BY <1>1, <1>3, ClientSame, RequestsSame, RepliesSame, DshSame, FreshLater DEF Types, QueuesOK
<1>5. ManagersOK' /\ ObjOK' /\ RedisOK' /\ InboxOK' /\ LogOK'
  BY <1>1, <1>2 DEF Types, ObjOK, RedisOK, InboxOK, LogOK, EntryBecomes
<1>6. /\ hub.dev \in DOMAIN hub.req.us \ (ToSet(hub.left) \cup hub.stored) /\ hub.dev \in Devices
      /\ hub.gen \in 0..mgr["hub"].gen
      /\ hub.gen = mgr["hub"].gen => hub.dev \in DOMAIN mgr["hub"].devs
      /\ IsUpdate(hub.u) /\ Keys(hub.u) \subseteq Keys(hub.req.us[hub.dev])
      /\ \A k \in Keys(hub.u): hub.u[k] = hub.req.us[hub.dev][k]
  BY <1>1, HubAtDevice
<1>7. AsksOK'
  BY <1>1, <1>3, <1>6, AsksAppend DEF Types, QueuesOK
<1>8. HubOK'
  <2>1. IsEntry(hub'.entry) /\ mgr'["hub"].gen = mgr["hub"].gen /\ DOMAIN mgr'["hub"].devs = DOMAIN mgr["hub"].devs
    BY <1>2 DEF HubHolds, EntryBecomes
  <2>2. hub'.updated \in BOOLEAN /\ hub'.stored \subseteq DOMAIN hub.req.us \ ToSet(hub.left)
    BY <1>1, HubBusy DEF Types
  <2> QED
    BY <1>1, <1>3, <1>6, <2>1, <2>2, HubRequestKept DEF Types
<1> QED
  BY <1>4, <1>5, <1>7, <1>8 DEF Types, QueuesOK

LEMMA HubGetsAnswerTypes ==
  ASSUME Types, HubGetsAnswer
  PROVE  Types'
<1>1. /\ hub.pc = "wait"
      /\ UNCHANGED <<todo, waits, requests, asks, replies, inbox, dsh, obj, redis, fresh>>
      /\ RequestKept /\ hub'.pc = "ask" /\ hub'.updated = (Answer(hub.ask) = {TRUE}) /\ hub'.stored = hub.stored
      /\ IF hub'.updated THEN log' = log
         ELSE LogKeeps({"refused"}) /\ log'.refused = log.refused \cup {hub.dev}
  BY HubGetsAnswerEffect
<1>2. PICK e: \E k \in {"conf", "enabled"}:
        EntryBecomes(e) /\ HubHolds(e) /\ k \in Keys(hub.u) /\ hub'.u = Without(hub.u, k)
  BY HubGetsAnswerEffect
<1>3. Later /\ FreshOK
  BY <1>1 DEF Later, Types, QueuesOK
<1>4. ClientOK' /\ RequestsOK' /\ AsksOK' /\ RepliesOK' /\ DshOK' /\ FreshOK'
  BY <1>1, <1>3, ClientSame, RequestsSame, AsksSame, RepliesSame, DshSame, FreshLater DEF Types, QueuesOK
<1>5. ManagersOK' /\ ObjOK' /\ RedisOK' /\ InboxOK'
  BY <1>1, <1>2 DEF Types, ObjOK, RedisOK, InboxOK, EntryBecomes
<1>6. LogOK'
  BY <1>1, LogKept DEF Types, LogOK
<1>7. /\ hub.dev \in DOMAIN hub.req.us \ (ToSet(hub.left) \cup hub.stored)
      /\ hub.gen \in 0..mgr["hub"].gen
      /\ hub.gen = mgr["hub"].gen => hub.dev \in DOMAIN mgr["hub"].devs
      /\ IsUpdate(hub.u) /\ Keys(hub.u) \subseteq Keys(hub.req.us[hub.dev])
      /\ \A k \in Keys(hub.u): hub.u[k] = hub.req.us[hub.dev][k]
  BY <1>1, HubAtDevice
<1>8. HubOK'
  <2>1. IsEntry(hub'.entry) /\ mgr'["hub"].gen = mgr["hub"].gen /\ DOMAIN mgr'["hub"].devs = DOMAIN mgr["hub"].devs
    BY <1>2 DEF HubHolds, EntryBecomes
  <2>2. hub'.updated \in BOOLEAN /\ hub'.stored \subseteq DOMAIN hub.req.us \ ToSet(hub.left)
    BY <1>1, HubBusy DEF Types
  <2>3. /\ IsUpdate(hub'.u) /\ Keys(hub'.u) \subseteq Keys(hub.req.us[hub.dev])
        /\ \A k \in Keys(hub'.u): hub'.u[k] = hub.req.us[hub.dev][k]
    BY <1>2, <1>7, WithoutUpdate
  <2> QED
    BY <1>1, <1>3, <1>7, <2>1, <2>2, <2>3, HubRequestKept DEF Types
<1> QED
  BY <1>4, <1>5, <1>6, <1>8 DEF Types, QueuesOK

LEMMA HubTimesOutTypes ==
  ASSUME Types, HubTimesOut
  PROVE  Types'
<1>1. /\ hub.pc = "wait" /\ Reply(hub.req.id, FALSE) /\ hub' = Idle
      /\ UNCHANGED <<todo, waits, requests, asks, inbox, mgr, dsh, obj, redis, fresh>>
      /\ LogKeeps({"refused", "late", "torn"})
  BY HubTimesOutEffect
<1>2. Later /\ FreshOK
  BY <1>1 DEF Later, Types, QueuesOK
<1>3. ClientOK' /\ RequestsOK' /\ AsksOK' /\ DshOK' /\ FreshOK'
  BY <1>1, <1>2, ClientSame, RequestsSame, AsksSame, DshSame, FreshLater DEF Types, QueuesOK
<1>4. ManagersOK' /\ ObjOK' /\ RedisOK' /\ InboxOK'
  BY <1>1 DEF Types, ManagersOK, ObjOK, RedisOK, InboxOK
<1>5. RepliesOK'
  <2>1. hub.req.id \in 1..(fresh - 1)
    BY <1>1, HubBusy DEF Types
  <2> QED
    BY <1>1, <1>2, <2>1, RepliesAdd DEF Types
<1>6. LogOK' /\ HubOK'
  BY <1>1, LogKept, IdleHub
<1> QED
  BY <1>3, <1>4, <1>5, <1>6 DEF Types, QueuesOK

LEMMA HubStoreTypes ==
  ASSUME Types, HubStore
  PROVE  Types'
<1> DEFINE e == Apply(Entry, hub.u)
<1>1. /\ hub.pc = "ask" /\ UNCHANGED <<todo, waits, requests, asks, dsh, obj, fresh>>
      /\ HubSkips \/ (EntryBecomes(e) /\ (HubFails \/ HubWrites(e)))
  BY HubStoreEffect
<1> HIDE DEF e
<1>2. Later /\ FreshOK
  BY <1>1 DEF Later, Types, QueuesOK
<1>3. ClientOK' /\ RequestsOK' /\ AsksOK' /\ DshOK' /\ FreshOK'
  BY <1>1, <1>2, ClientSame, RequestsSame, AsksSame, DshSame, FreshLater DEF Types, QueuesOK
<1>4. ManagersOK'
  BY <1>1 DEF Types, HubSkips, EntryBecomes, ManagersOK
<1>5. ObjOK' /\ InboxOK'
  BY <1>1 DEF Types, ObjOK, InboxOK, HubSkips, HubFails, HubWrites
<1>6. /\ hub.req.id \in 1..(fresh - 1) /\ hub.updated \in BOOLEAN /\ hub.stored \subseteq DOMAIN hub.req.us \ ToSet(hub.left)
      /\ hub.dev \in DOMAIN hub.req.us \ (ToSet(hub.left) \cup hub.stored)
  BY <1>1, HubBusy, HubAtDevice DEF Types
<1>7. RepliesOK'
  BY <1>1, <1>2, <1>6, RepliesAdd, RepliesSame DEF Types, HubSkips, HubFails, HubWrites
<1>8. LogOK'
  BY <1>1, LogKept DEF Types, HubSkips, HubFails, HubWrites, LogOK
<1>9. RedisOK'
  <2>1. CASE HubWrites(e)
    <3>1. /\ IsEntry(e) /\ DOMAIN redis'.config = DOMAIN redis.config /\ redis' = [config |-> redis'.config, info |-> redis.info]
          /\ \A d \in DOMAIN redis.config: redis'.config[d] = IF d = hub.dev THEN e ELSE redis.config[d]
      BY <2>1 DEF HubWrites, Stores
    <3>2. IsConfig(redis.config) /\ redis.info \subseteq Devices
      BY DEF Types, RedisOK
    <3>3. IsConfig(redis'.config)
      BY <3>1, <3>2 DEF IsConfig
    <3> QED
      BY <3>1, <3>2, <3>3 DEF RedisOK
  <2>2. CASE redis' = redis
    BY <2>2 DEF Types, RedisOK
  <2> QED
    BY <1>1, <2>1, <2>2 DEF HubSkips, HubFails
<1>10. HubOK'
  <2>1. CASE HubFails
    BY <2>1, IdleHub DEF HubFails
  <2>2. CASE HubSkips
    BY <1>1, <1>2, <1>6, <2>2, HubRequestKept DEF Types, HubSkips
  <2>3. CASE HubWrites(e)
    <3>1. hub'.stored \subseteq DOMAIN hub.req.us \ ToSet(hub.left)
      BY <1>6, <2>3 DEF HubWrites
    <3> QED
      BY <1>1, <1>2, <2>3, <3>1, HubRequestKept DEF Types, HubWrites
  <2> QED
    BY <1>1, <2>1, <2>2, <2>3
<1> QED
  BY <1>3, <1>4, <1>5, <1>7, <1>8, <1>9, <1>10 DEF Types, QueuesOK

LEMMA HubDoneTypes ==
  ASSUME Types, HubDone
  PROVE  Types'
<1>1. /\ hub.pc = "next" /\ hub.left = <<>> /\ hub' = Idle
      /\ UNCHANGED <<todo, waits, requests, asks, mgr, dsh, obj, redis, fresh>>
      /\ HubTells \/ HubIsSilent
  BY HubDoneEffect
<1>2. Later /\ FreshOK
  BY <1>1 DEF Later, Types, QueuesOK
<1>3. ClientOK' /\ RequestsOK' /\ AsksOK' /\ DshOK' /\ FreshOK'
  BY <1>1, <1>2, ClientSame, RequestsSame, AsksSame, DshSame, FreshLater DEF Types, QueuesOK
<1>4. ManagersOK' /\ ObjOK' /\ RedisOK'
  BY <1>1 DEF Types, ManagersOK, ObjOK, RedisOK
<1>5. hub.req.id \in 1..(fresh - 1) /\ IsUpdates(hub.req.us)
  BY <1>1, HubBusy DEF Types
<1>6. LogOK' /\ HubOK'
  BY <1>1, LogKept, IdleHub DEF HubTells, HubIsSilent
<1>7. CASE HubTells
  <2> DEFINE m == [action |-> "update", us |-> hub.req.us]
  <2>1. IsMessage(m)
    BY <1>5 DEF IsMessage
  <2>2. Broadcast(m) /\ Reply(hub.req.id, TRUE)
    BY <1>7 DEF HubTells
  <2> HIDE DEF m
  <2>3. InboxOK' /\ RepliesOK'
    BY <1>2, <1>5, <2>1, <2>2, InboxBroadcast, RepliesAdd DEF Types
  <2> QED
    BY <1>3, <1>4, <1>6, <2>3 DEF Types, QueuesOK
<1>8. CASE HubIsSilent
  <2>1. InboxOK' /\ RepliesOK'
    BY <1>2, <1>8, RepliesSame DEF Types, InboxOK, HubIsSilent
  <2> QED
    BY <1>3, <1>4, <1>6, <2>1 DEF Types, QueuesOK
<1> QED
  BY <1>1, <1>7, <1>8

LEMMA ParseUpdateTypes ==
  ASSUME Types, NEW s \in Services, ParseUpdate(s)
  PROVE  Types'
<1> DEFINE us == Head(inbox[s]).us
<1>1. /\ Handles(s) /\ Head(inbox[s]).action = "update" /\ Only(s)
      /\ UNCHANGED <<todo, waits, requests, replies, asks, hub, dsh, obj, redis, fresh>>
      /\ mgr'[s].gen = mgr[s].gen /\ mgr'[s].session = mgr[s].session /\ mgr'[s].load = mgr[s].load
      /\ IF DOMAIN us \subseteq DOMAIN Devs(s)
         THEN mgr'[s].devs = ApplyTo(mgr[s].devs, us) /\ mgr'[s].alive = mgr[s].alive
         ELSE mgr'[s].devs = mgr[s].devs /\ mgr'[s].alive = FALSE
      /\ LogKeeps({"stale"}) \/ log' = log
  BY ParseUpdateEffect
<1>2. Later /\ FreshOK
  BY <1>1 DEF Later, Types, QueuesOK
<1>3. ClientOK' /\ RequestsOK' /\ AsksOK' /\ RepliesOK' /\ DshOK' /\ FreshOK'
  BY <1>1, <1>2, ClientSame, RequestsSame, AsksSame, RepliesSame, DshSame, FreshLater DEF Types, QueuesOK
<1>4. ObjOK' /\ RedisOK'
  BY <1>1 DEF Types, ObjOK, RedisOK
<1>5. LogOK'
  BY <1>1, LogKept DEF Types, LogOK
<1>6. InboxOK' /\ IsUpdates(us)
  BY <1>1, InboxTail DEF Types, IsMessage
<1> HIDE DEF us
<1>7. IsManager(mgr[s]) /\ IsPlaced(s, mgr[s]) /\ IsConfig(mgr[s].devs)
  BY ManagerIs DEF Types
<1>8. IsConfig(mgr'[s].devs) /\ DOMAIN mgr'[s].devs = DOMAIN mgr[s].devs
  <2>1. IsConfig(ApplyTo(mgr[s].devs, us)) /\ DOMAIN ApplyTo(mgr[s].devs, us) = DOMAIN mgr[s].devs
    BY <1>6, <1>7, ApplyToConfig
  <2> QED
    BY <1>1, <1>7, <2>1
<1>9. ManagersOK'
  <2>1. IsManager(mgr'[s]) /\ IsPlaced(s, mgr'[s])
    BY <1>1, <1>7, <1>8 DEF IsManager, IsPlaced, Only
  <2> QED
    BY <1>1, <2>1, ManagersBut DEF Types
<1>10. HubOK'
  <2>1. mgr'["hub"].gen = mgr["hub"].gen /\ DOMAIN mgr'["hub"].devs = DOMAIN mgr["hub"].devs
    BY <1>1, <1>8 DEF Only, Services
  <2> QED
    BY <1>1, <1>2, <2>1, HubSame DEF Types
<1> QED
  BY <1>3, <1>4, <1>5, <1>6, <1>9, <1>10 DEF Types, QueuesOK

LEMMA ParseReloadTypes ==
  ASSUME Types, NEW s \in Services, ParseReload(s)
  PROVE  Types'
<1>1. /\ Handles(s) /\ Only(s)
      /\ UNCHANGED <<todo, waits, requests, replies, asks, dsh, redis, fresh, log>>
      /\ mgr'[s].alive = mgr[s].alive /\ mgr'[s].session = mgr[s].session /\ mgr'[s].devs = <<>>
      /\ mgr'[s].gen = mgr[s].gen + 1 /\ mgr'[s].load = "flushed"
      /\ IF s = "hub" /\ hub.pc \in {"ask", "wait"}
         THEN /\ RequestKept /\ hub'.pc = hub.pc /\ hub'.updated = hub.updated /\ hub'.stored = hub.stored
              /\ hub'.u = hub.u /\ hub'.ask = hub.ask /\ hub'.entry = Entry
         ELSE hub' = hub
      /\ IF s = "ds"
         THEN DOMAIN obj' = Devices /\ \A d \in Devices: /\ DOMAIN obj'[d] = {"conf", "up"} /\ obj'[d].conf = obj[d].conf
                                                         /\ obj'[d].up = "destroyed"
         ELSE obj' = obj
  BY ParseReloadEffect
<1>2. Later /\ FreshOK
  BY <1>1 DEF Later, Types, QueuesOK
<1>3. ClientOK' /\ RequestsOK' /\ AsksOK' /\ RepliesOK' /\ DshOK' /\ FreshOK'
  BY <1>1, <1>2, ClientSame, RequestsSame, AsksSame, RepliesSame, DshSame, FreshLater DEF Types, QueuesOK
<1>4. RedisOK' /\ LogOK' /\ InboxOK'
  BY <1>1, InboxTail DEF Types, RedisOK, LogOK
<1>5. ObjOK'
  BY <1>1 DEF Types, ObjOK
<1>6. IsManager(mgr[s]) /\ IsPlaced(s, mgr[s]) /\ mgr[s].gen \in Nat
  BY ManagerIs DEF Types
<1>7. ManagersOK'
  <2>1. IsConfig(mgr'[s].devs) /\ DOMAIN mgr'[s].devs = {}
    BY <1>1 DEF IsConfig
  <2>2. mgr[s].load = "idle"
    BY <1>1 DEF Handles
  <2>3. mgr'[s].gen \in Nat
    BY <1>1, <1>6
  <2>4. IsManager(mgr'[s]) /\ IsPlaced(s, mgr'[s])
    BY <1>1, <1>6, <2>1, <2>2, <2>3 DEF IsManager, IsPlaced, Only
  <2> QED
    BY <1>1, <2>4, ManagersBut DEF Types
<1>8. HubOK'
  <2>1. CASE s = "hub" /\ hub.pc \in {"ask", "wait"}
    <3>1. /\ hub.dev \in DOMAIN hub.req.us \ (ToSet(hub.left) \cup hub.stored)
          /\ hub.gen \in 0..mgr["hub"].gen /\ mgr["hub"].gen \in Nat
          /\ IsUpdate(hub.u) /\ Keys(hub.u) \subseteq Keys(hub.req.us[hub.dev])
          /\ \A k \in Keys(hub.u): hub.u[k] = hub.req.us[hub.dev][k]
          /\ hub.pc = "wait" => Keys(hub.u) \cap {"conf", "enabled"} # {} /\ hub.ask \in 1..(fresh - 1)
          /\ IsEntry(Entry)
      BY <2>1, HubAtDevice
    <3>2. mgr'["hub"].gen = mgr["hub"].gen + 1
      BY <1>1, <2>1
    <3>3. hub.gen \in 0..mgr'["hub"].gen /\ hub.gen # mgr'["hub"].gen
      BY <3>1, <3>2
    <3>4. hub'.updated \in BOOLEAN /\ hub'.stored \subseteq DOMAIN hub.req.us \ ToSet(hub.left)
      BY <1>1, <2>1, HubBusy DEF Types
    <3> QED
      BY <1>1, <1>2, <2>1, <3>1, <3>3, <3>4, HubRequestKept DEF Types
  <2>2. CASE s = "hub" /\ hub.pc \notin {"ask", "wait"}
    <3>1. hub' = hub /\ fresh' = fresh
      BY <1>1, <2>2
    <3> QED
      BY <2>2, <3>1 DEF HubOK, Types
  <2>3. CASE s # "hub"
    <3>1. hub' = hub /\ mgr'["hub"] = mgr["hub"]
      BY <1>1, <2>3 DEF Only, Services
    <3> QED
      BY <1>2, <3>1, HubSame DEF Types
  <2> QED
    BY <2>1, <2>2, <2>3
<1> QED
  BY <1>3, <1>4, <1>5, <1>7, <1>8 DEF Types, QueuesOK

LEMMA GetConfigTypes ==
  ASSUME Types, NEW s \in Services, GetConfig(s)
  PROVE  Types'
<1>1. /\ mgr[s].alive /\ mgr[s].load = "flushed" /\ Only(s)
      /\ UNCHANGED <<todo, waits, requests, replies, asks, inbox, hub, dsh, obj, redis, fresh, log>>
      /\ mgr'[s].alive = mgr[s].alive /\ mgr'[s].gen = mgr[s].gen
      /\ IF s \in {"client", "ds"}
         THEN mgr'[s].load = "loading" /\ mgr'[s].session = redis.config /\ mgr'[s].devs = mgr[s].devs
         ELSE mgr'[s].load = "idle" /\ mgr'[s].session = mgr[s].session /\ mgr'[s].devs = redis.config
  BY GetConfigEffect
<1>2. Later /\ FreshOK
  BY <1>1 DEF Later, Types, QueuesOK
<1>3. ClientOK' /\ RequestsOK' /\ AsksOK' /\ RepliesOK' /\ DshOK' /\ FreshOK'
  BY <1>1, <1>2, ClientSame, RequestsSame, AsksSame, RepliesSame, DshSame, FreshLater DEF Types, QueuesOK
<1>4. ObjOK' /\ RedisOK' /\ LogOK' /\ InboxOK'
  BY <1>1 DEF Types, ObjOK, RedisOK, LogOK, InboxOK
<1>5. IsManager(mgr[s]) /\ IsPlaced(s, mgr[s]) /\ IsConfig(redis.config)
  BY ManagerIs DEF Types, RedisOK
<1>6. ManagersOK'
  <2>1. IsManager(mgr'[s]) /\ IsPlaced(s, mgr'[s])
    BY <1>1, <1>5 DEF IsManager, IsPlaced, Only
  <2> QED
    BY <1>1, <2>1, ManagersBut DEF Types
<1>7. HubOK'
  <2>1. CASE s = "hub"
    <3>1. DOMAIN mgr["hub"].devs = {} /\ mgr'["hub"].gen = mgr["hub"].gen
      BY <1>1, <1>5, <2>1 DEF IsPlaced
    <3>2. HubOK /\ ~(hub.pc \in {"ask", "wait"} /\ Attached)
      BY <3>1 DEF Types, HubOK, Devs
    <3>3. hub' = hub /\ fresh' = fresh
      BY <1>1
    <3> QED
      BY <3>1, <3>2, <3>3 DEF HubOK, Attached
  <2>2. CASE s # "hub"
    <3>1. mgr'["hub"] = mgr["hub"]
      BY <1>1, <2>2 DEF Only, Services
    <3> QED
      BY <1>1, <1>2, <3>1, HubSame DEF Types
  <2> QED
    BY <2>1, <2>2
<1> QED
  BY <1>3, <1>4, <1>6, <1>7 DEF Types, QueuesOK

LEMMA ClientLoadsTypes ==
  ASSUME Types, ClientLoads
  PROVE  Types'
<1> DEFINE c == Restrict(mgr["client"].session, DOMAIN mgr["client"].session \cap redis.info)
<1>1. /\ Only("client")
      /\ UNCHANGED <<todo, waits, requests, replies, asks, inbox, hub, dsh, obj, redis, fresh>>
      /\ mgr'["client"].alive = mgr["client"].alive /\ mgr'["client"].gen = mgr["client"].gen
      /\ mgr'["client"].load = "idle" /\ mgr'["client"].session = <<>>
      /\ mgr'["client"].devs = c /\ LogKeeps({"unloaded"})
  BY ClientLoadsEffect
<1>2. Later /\ FreshOK /\ "client" \in Services
  BY <1>1 DEF Later, Types, QueuesOK, Services
<1>3. ClientOK' /\ RequestsOK' /\ AsksOK' /\ RepliesOK' /\ DshOK' /\ FreshOK'
  BY <1>1, <1>2, ClientSame, RequestsSame, AsksSame, RepliesSame, DshSame, FreshLater DEF Types, QueuesOK
<1>4. ObjOK' /\ RedisOK' /\ LogOK' /\ InboxOK'
  BY <1>1, LogKept DEF Types, ObjOK, RedisOK, InboxOK
<1>5. IsManager(mgr["client"]) /\ IsPlaced("client", mgr["client"]) /\ IsConfig(mgr["client"].session)
  BY <1>2, ManagerIs DEF Types
<1>6. IsConfig(c)
  BY <1>5 DEF IsConfig, Restrict
<1> HIDE DEF c
<1>7. ManagersOK'
  <2>1. IsConfig(mgr'["client"].session) /\ DOMAIN mgr'["client"].session = {}
    BY <1>1 DEF IsConfig
  <2>2. IsManager(mgr'["client"]) /\ IsPlaced("client", mgr'["client"])
    BY <1>1, <1>5, <1>6, <2>1 DEF IsManager, IsPlaced, Only
  <2> QED
    BY <1>1, <1>2, <2>2, ManagersBut DEF Types
<1>8. HubOK'
  <2>1. mgr'["hub"] = mgr["hub"]
    BY <1>1 DEF Only, Services
  <2> QED
    BY <1>1, <1>2, <2>1, HubSame DEF Types
<1> QED
  BY <1>3, <1>4, <1>7, <1>8 DEF Types, QueuesOK

LEMMA EnabledEntry ==
  ASSUME NEW e, IsEntry(e), NEW b \in BOOLEAN
  PROVE  LET f == [e EXCEPT !.enabled = b] IN
         IsEntry(f) /\ f.enabled = b /\ f.conf = e.conf /\ f.param = e.param
  BY DEF IsEntry

LEMMA DisabledEntry ==
  ASSUME NEW e, IsEntry(e)
  PROVE  LET f == [e EXCEPT !.enabled = FALSE] IN
         IsEntry(f) /\ f.enabled = FALSE /\ f.conf = e.conf /\ f.param = e.param
<1>1. \A b \in BOOLEAN: LET f == [e EXCEPT !.enabled = b] IN
         IsEntry(f) /\ f.enabled = b /\ f.conf = e.conf /\ f.param = e.param
  BY EnabledEntry
<1> QED
  BY <1>1, Zenon

LEMMA DsLoadTypes ==
  ASSUME Types, DsLoad
  PROVE  Types'
<1>1. /\ mgr["ds"].alive /\ mgr["ds"].load = "loading" /\ UNCHANGED <<todo, waits, asks, replies, hub, dsh, inbox>>
      /\ LoadEnds \/ \E d \in Devices: LET e == mgr["ds"].session[d] IN LoadRefuses(d) \/ LoadFails(d, e) \/ LoadAdds(d, e)
  BY DsLoadEffect
<1>2. /\ IsManager(mgr["ds"]) /\ IsPlaced("ds", mgr["ds"]) /\ IsConfig(mgr["ds"].session) /\ IsConfig(mgr["ds"].devs)
      /\ "ds" \in Services /\ FreshOK
  BY ManagerIs DEF Types, Services, QueuesOK
<1>3. SUFFICES Later /\ RequestsOK' /\ Only("ds") /\ IsManager(mgr'["ds"]) /\ IsPlaced("ds", mgr'["ds"]) /\ ObjOK' /\ RedisOK' /\ LogOK'
  <2>1. ClientOK' /\ AsksOK' /\ RepliesOK' /\ DshOK' /\ FreshOK'
    BY <1>1, <1>2, <1>3, ClientSame, AsksSame, RepliesSame, DshSame, FreshLater DEF Types, QueuesOK
  <2>2. InboxOK'
    BY <1>1 DEF Types, InboxOK
  <2>3. ManagersOK'
    BY <1>2, <1>3, ManagersBut DEF Types
  <2>4. mgr'["hub"] = mgr["hub"]
    BY <1>3 DEF Only, Services
  <2>5. HubOK'
    BY <1>1, <1>2, <1>3, <2>4, HubSame DEF Types
  <2> QED
    BY <1>3, <2>1, <2>2, <2>3, <2>5 DEF Types, QueuesOK
<1>4. CASE LoadEnds
  <2>1. Later
    BY <1>4 DEF LoadEnds, Later
  <2>2. RequestsOK' /\ ObjOK' /\ RedisOK' /\ LogOK'
    BY <1>2, <1>4, <2>1, RequestsSame DEF LoadEnds, Types, QueuesOK, ObjOK, RedisOK, LogOK
  <2>3. IsManager(mgr'["ds"]) /\ IsPlaced("ds", mgr'["ds"])
    BY <1>2, <1>4 DEF LoadEnds, IsManager, IsPlaced, Only
  <2> QED
    BY <1>4, <2>1, <2>2, <2>3 DEF LoadEnds
<1>5. ASSUME NEW d \in Devices, LoadRefuses(d)
      PROVE  Later /\ RequestsOK' /\ Only("ds") /\ IsManager(mgr'["ds"]) /\ IsPlaced("ds", mgr'["ds"]) /\ ObjOK' /\ RedisOK' /\ LogOK'
  <2>1. Later
    BY <1>5 DEF LoadRefuses, Later
  <2>2. RequestsOK' /\ ObjOK' /\ RedisOK' /\ LogOK'
    BY <1>2, <1>5, <2>1, RequestsSame, LogKept DEF LoadRefuses, Types, QueuesOK, ObjOK, RedisOK
  <2>3. /\ IsConfig(mgr'["ds"].session) /\ Only("ds") /\ mgr'["ds"].devs = mgr["ds"].devs /\ mgr'["ds"].load = "loading"
        /\ mgr'["ds"].alive = mgr["ds"].alive /\ mgr'["ds"].gen = mgr["ds"].gen
    BY <1>2, <1>5 DEF LoadRefuses, Takes, IsConfig
  <2>4. IsManager(mgr'["ds"]) /\ IsPlaced("ds", mgr'["ds"])
    BY <1>2, <2>3 DEF IsManager, IsPlaced, Only
  <2> QED
    BY <2>1, <2>2, <2>3, <2>4
<1>6. ASSUME NEW d \in Devices, NEW e, Takes(d), Adds(d, e), IsEntry(e), mgr'["ds"].load \in {"loading", "disabling"}
      PROVE  Only("ds") /\ IsManager(mgr'["ds"]) /\ IsPlaced("ds", mgr'["ds"])
  <2>1. /\ IsConfig(mgr'["ds"].session) /\ Only("ds")
        /\ mgr'["ds"].alive = mgr["ds"].alive /\ mgr'["ds"].gen = mgr["ds"].gen
    BY <1>2, <1>6 DEF Takes, IsConfig
  <2>2. IsConfig(mgr'["ds"].devs)
    BY <1>2, <1>6 DEF Adds, IsConfig
  <2>3. IsManager(mgr'["ds"]) /\ IsPlaced("ds", mgr'["ds"])
    BY <1>2, <1>6, <2>1, <2>2 DEF IsManager, IsPlaced, Only
  <2> QED
    BY <2>1, <2>3
<1>7. ASSUME NEW d \in Devices, NEW e, Creates(d, e), Informs(d)
      PROVE  ObjOK' /\ RedisOK'
  <2>1. ObjOK'
    BY <1>7 DEF Types, ObjOK, Creates, ObjBut
  <2>2. RedisOK'
    BY <1>7 DEF Types, RedisOK, Informs
  <2> QED
    BY <2>1, <2>2
<1>8. ASSUME NEW d \in Devices, LoadFails(d, mgr["ds"].session[d])
      PROVE  Later /\ RequestsOK' /\ Only("ds") /\ IsManager(mgr'["ds"]) /\ IsPlaced("ds", mgr'["ds"]) /\ ObjOK' /\ RedisOK' /\ LogOK'
  <2> DEFINE e == mgr["ds"].session[d]
             f == [e EXCEPT !.enabled = FALSE]
  <2>1. IsEntry(e)
    BY <1>2, <1>8 DEF LoadFails, Takes, IsConfig
  <2>2. IsEntry(f)
    BY <2>1, DisabledEntry
  <2>3. Takes(d) /\ Adds(d, f) /\ mgr'["ds"].load = "disabling" /\ Creates(d, e) /\ Informs(d) /\ Asks(d) /\ LogOK'
    BY <1>8, LogKept DEF LoadFails
  <2> HIDE DEF e, f
  <2>4. RequestsOK' /\ Later
    BY <1>2, <2>3, AsksDisable DEF Types, QueuesOK
  <2>5. Only("ds") /\ IsManager(mgr'["ds"]) /\ IsPlaced("ds", mgr'["ds"])
    BY <1>6, <2>2, <2>3
  <2> QED
    BY <1>7, <2>3, <2>4, <2>5
<1>9. ASSUME NEW d \in Devices, LoadAdds(d, mgr["ds"].session[d])
      PROVE  Later /\ RequestsOK' /\ Only("ds") /\ IsManager(mgr'["ds"]) /\ IsPlaced("ds", mgr'["ds"]) /\ ObjOK' /\ RedisOK' /\ LogOK'
  <2> DEFINE e == mgr["ds"].session[d]
  <2>1. IsEntry(e)
    BY <1>2, <1>9 DEF LoadAdds, Takes, IsConfig
  <2>2. Takes(d) /\ Adds(d, e) /\ mgr'["ds"].load = "loading" /\ Creates(d, e) /\ Informs(d) /\ UNCHANGED <<requests, fresh>> /\ LogOK'
    BY <1>9, LogKept DEF LoadAdds
  <2> HIDE DEF e
  <2>3. Later
    BY <2>2 DEF Later
  <2>4. RequestsOK'
    BY <1>2, <2>2, <2>3, RequestsSame DEF Types, QueuesOK
  <2>5. Only("ds") /\ IsManager(mgr'["ds"]) /\ IsPlaced("ds", mgr'["ds"])
    BY <1>6, <2>1, <2>2
  <2> QED
    BY <1>7, <2>2, <2>3, <2>4, <2>5
<1> QED
  BY <1>1, <1>4, <1>5, <1>8, <1>9

LEMMA DsDisabledTypes ==
  ASSUME Types, DsDisabled
  PROVE  Types'
<1>1. /\ mgr["ds"].load = "disabling" /\ Only("ds")
      /\ UNCHANGED <<todo, waits, asks, requests, replies, hub, dsh, inbox, obj, redis, fresh, log>>
      /\ mgr'["ds"].alive = mgr["ds"].alive /\ mgr'["ds"].gen = mgr["ds"].gen /\ mgr'["ds"].session = mgr["ds"].session
      /\ mgr'["ds"].devs = mgr["ds"].devs /\ mgr'["ds"].load = "loading"
  BY DsDisabledEffect
<1>2. IsManager(mgr["ds"]) /\ IsPlaced("ds", mgr["ds"]) /\ "ds" \in Services /\ FreshOK /\ Later
  BY <1>1, ManagerIs DEF Types, Services, QueuesOK, Later
<1>3. ClientOK' /\ RequestsOK' /\ AsksOK' /\ RepliesOK' /\ DshOK' /\ FreshOK'
  BY <1>1, <1>2, ClientSame, RequestsSame, AsksSame, RepliesSame, DshSame, FreshLater DEF Types, QueuesOK
<1>4. ObjOK' /\ RedisOK' /\ LogOK' /\ InboxOK'
  BY <1>1 DEF Types, ObjOK, RedisOK, LogOK, InboxOK
<1>5. ManagersOK'
  <2>1. IsManager(mgr'["ds"]) /\ IsPlaced("ds", mgr'["ds"])
    BY <1>1, <1>2 DEF IsManager, IsPlaced, Only
  <2> QED
    BY <1>1, <1>2, <2>1, ManagersBut DEF Types
<1>6. mgr'["hub"] = mgr["hub"]
  BY <1>1 DEF Only, Services
<1>7. HubOK'
  BY <1>1, <1>2, <1>6, HubSame DEF Types
<1> QED
  BY <1>3, <1>4, <1>5, <1>7 DEF Types, QueuesOK

LEMMA IdleDsh ==
  ASSUME dsh' = Idle
  PROVE  DshOK'
  BY DEF DshOK, Idle

LEMMA DsReceiveTypes ==
  ASSUME Types, DsReceive
  PROVE  Types'
<1> DEFINE a == Head(asks)
<1>1. /\ mgr["ds"].alive /\ dsh.pc = "idle" /\ asks # <<>> /\ asks' = Tail(asks)
      /\ UNCHANGED <<todo, waits, requests, hub, inbox, mgr, obj, redis, fresh>>
      /\ DshTakes(a) \/ DshRefuses(a)
  BY DsReceiveEffect
<1>2. Later /\ FreshOK
  BY <1>1 DEF Later, Types, QueuesOK
<1>3. AsksOK' /\ IsAsk(a)
  BY <1>1, <1>2, AsksTail DEF Types, QueuesOK
<1> HIDE DEF a
<1>4. ClientOK' /\ RequestsOK' /\ FreshOK' /\ HubOK'
  BY <1>1, <1>2, ClientSame, RequestsSame, FreshLater, HubSame DEF Types, QueuesOK
<1>5. ManagersOK' /\ ObjOK' /\ RedisOK' /\ InboxOK'
  BY <1>1 DEF Types, ManagersOK, ObjOK, RedisOK, InboxOK
<1>6. CASE DshTakes(a)
  <2>1. RepliesOK' /\ LogOK'
    BY <1>2, <1>6, RepliesSame DEF DshTakes, Types, LogOK
  <2>2. dsh' = [pc |-> "update", ask |-> a, nested |-> 0] /\ fresh' = fresh
    BY <1>1, <1>6 DEF DshTakes
  <2>3. DshOK'
    BY <1>3, <2>2 DEF DshOK, IsAsk
  <2> QED
    BY <1>3, <1>4, <1>5, <2>1, <2>3 DEF Types, QueuesOK
<1>7. CASE DshRefuses(a)
  <2>1. Reply(a.id, FALSE) /\ dsh' = dsh /\ LogOK' /\ a.id \in 1..(fresh - 1)
    BY <1>3, <1>7, LogKept DEF DshRefuses, IsAsk
  <2>2. RepliesOK' /\ DshOK'
    BY <1>2, <2>1, RepliesAdd, DshSame DEF Types
  <2> QED
    BY <1>3, <1>4, <1>5, <2>1, <2>2 DEF Types, QueuesOK
<1> QED
  BY <1>1, <1>6, <1>7

LEMMA DsGivesUpTypes ==
  ASSUME Types, DsGivesUp
  PROVE  Types'
<1>1. /\ dsh.pc = "disabling" /\ dsh' = Idle
      /\ UNCHANGED <<todo, waits, requests, asks, hub, inbox, mgr, obj, redis, fresh, log>>
      /\ \E accepted \in BOOLEAN: Reply(dsh.ask.id, accepted)
  BY DsGivesUpEffect
<1>2. Later /\ FreshOK /\ dsh.ask.id \in 1..(fresh - 1)
  BY <1>1 DEF Later, Types, QueuesOK, DshOK, IsAsk
<1>3. ClientOK' /\ RequestsOK' /\ AsksOK' /\ FreshOK' /\ HubOK'
  BY <1>1, <1>2, ClientSame, RequestsSame, AsksSame, FreshLater, HubSame DEF Types, QueuesOK
<1>4. ManagersOK' /\ ObjOK' /\ RedisOK' /\ InboxOK' /\ LogOK'
  BY <1>1 DEF Types, ManagersOK, ObjOK, RedisOK, InboxOK, LogOK
<1>5. RepliesOK' /\ DshOK'
  BY <1>1, <1>2, RepliesAdd, IdleDsh DEF Types
<1> QED
  BY <1>3, <1>4, <1>5 DEF Types, QueuesOK

\* In all outcomes of an update, the device server keeps the devices it has, and their entries.
DsSame ==
  /\ mgr'["ds"].gen = mgr["ds"].gen /\ mgr'["ds"].session = mgr["ds"].session /\ mgr'["ds"].load = mgr["ds"].load
  /\ DOMAIN mgr'["ds"].devs = DOMAIN mgr["ds"].devs /\ mgr'["ds"].alive \in BOOLEAN
  /\ \A x \in DOMAIN mgr["ds"].devs: IsEntry(mgr'["ds"].devs[x])

LEMMA DsUpdateTypes ==
  ASSUME Types, DsUpdate
  PROVE  Types' /\ Only("ds") /\ DsSame
<1> DEFINE d == dsh.ask.dev
           u == dsh.ask.u
<1>1. /\ mgr["ds"].alive /\ dsh.pc = "update" /\ DsHub /\ redis' = redis
      /\ NoneThere(d) \/ ConfRefused(d, u) \/ ConfSet(d, u) \/ Disabled(d, u) \/ Enabled(d, u)
           \/ NotConnected(d, u) \/ CannotReconnect(d, u)
  BY DsUpdateEffect
<1>2. /\ IsManager(mgr["ds"]) /\ IsPlaced("ds", mgr["ds"]) /\ IsConfig(mgr["ds"].devs) /\ "ds" \in Services /\ FreshOK
      /\ DOMAIN mgr = Services
  BY ManagerIs DEF Types, Services, QueuesOK, ManagersOK
<1>3. IsAsk(dsh.ask) /\ d \in Devices /\ dsh.ask.id \in 1..(fresh - 1)
  BY <1>1 DEF Types, DshOK, IsAsk
<1> HIDE DEF d, u
<1>4. Only("ds") /\ DsSame
  <2>1. CASE DsDies
    BY <1>2, <2>1 DEF DsDies, DsSame, IsConfig
  <2>2. CASE mgr' = mgr
    BY <1>2, <2>2 DEF Only, DsSame, IsConfig, IsManager
  <2>3. ASSUME NEW b \in BOOLEAN, DsEntry(d, b) PROVE Only("ds") /\ DsSame
    BY <1>2, <2>3 DEF DsEntry, DsSame, MgrSame, IsConfig, IsManager
  <2> QED
    BY <1>1, <2>1, <2>2, <2>3 DEF NoneThere, ConfRefused, ConfSet, Disabled, Enabled, NotConnected, CannotReconnect
<1>5. ManagersOK'
  <2>1. IsConfig(mgr'["ds"].devs)
    BY <1>2, <1>4 DEF DsSame, IsConfig
  <2>2. IsManager(mgr'["ds"]) /\ IsPlaced("ds", mgr'["ds"])
    BY <1>2, <1>4, <2>1 DEF DsSame, IsManager, IsPlaced, Only
  <2> QED
    BY <1>2, <1>4, <2>2, ManagersBut DEF Types
<1>6. ObjOK'
  <2>1. CASE obj' = obj
    BY <2>1 DEF Types, ObjOK
  <2>2. CASE ObjBut(d) /\ obj'[d].up \in {"connected", "off", "destroyed"}
    BY <2>2 DEF Types, ObjOK, ObjBut
  <2>3. obj[d].up \in {"connected", "off", "destroyed"} /\ Off(d) \in {"connected", "off", "destroyed"}
    BY <1>3 DEF Types, ObjOK, Off
  <2> QED
    BY <1>1, <2>1, <2>2, <2>3
    DEF NoneThere, ConfRefused, ConfSet, Disabled, Enabled, NotConnected, CannotReconnect
<1>7. LogOK'
  BY <1>1, LogKept DEF Types, LogOK, NoneThere, ConfRefused, ConfSet, Disabled, Enabled, NotConnected, CannotReconnect
<1>8. Later /\ RequestsOK' /\ RepliesOK' /\ DshOK'
  <2>1. ASSUME NEW accepted \in BOOLEAN, DsFinishes(accepted)
        PROVE  Later /\ RequestsOK' /\ RepliesOK' /\ DshOK'
    <3>1. Reply(dsh.ask.id, accepted) /\ dsh' = Idle /\ requests' = requests /\ Later
      BY <2>1 DEF DsFinishes, Later
    <3> QED
      BY <1>2, <1>3, <3>1, RequestsSame, RepliesAdd, IdleDsh DEF Types, QueuesOK
  <2>2. CASE NotConnected(d, u)
    <3>1. Asks(d) /\ replies' = replies /\ dsh' = [pc |-> "disabling", ask |-> dsh.ask, nested |-> fresh]
      BY <2>2 DEF NotConnected
    <3>2. Later /\ RequestsOK'
      BY <1>2, <1>3, <3>1, AsksDisable DEF Types, QueuesOK
    <3>3. RepliesOK'
      BY <1>2, <3>1, <3>2, RepliesSame DEF Types
    <3>4. IsAsk(dsh.ask)'
      BY <1>2, <1>3, <3>1, <3>2, FreshLater DEF IsAsk
    <3>5. DshOK'
      BY <3>1, <3>4 DEF DshOK
    <3> QED
      BY <3>2, <3>3, <3>5
  <2> QED
    BY <1>1, <2>1, <2>2 DEF NoneThere, ConfRefused, ConfSet, Disabled, Enabled, CannotReconnect
<1>9. ClientOK' /\ AsksOK' /\ FreshOK' /\ InboxOK' /\ RedisOK'
  BY <1>1, <1>2, <1>8, ClientSame, AsksSame, FreshLater DEF Types, QueuesOK, DsHub, InboxOK, RedisOK
<1>10. HubOK'
  <2>1. mgr'["hub"] = mgr["hub"] /\ hub' = hub
    BY <1>1, <1>4 DEF Only, Services, DsHub
  <2> QED
    BY <1>2, <1>8, <2>1, HubSame DEF Types
<1> QED
  BY <1>4, <1>5, <1>6, <1>7, <1>8, <1>9, <1>10 DEF Types, QueuesOK

LEMMA EmptySequence ==
  ASSUME NEW q, q = <<>>
  PROVE  IsSeq(q) /\ DOMAIN q = {} /\ ToSet(q) = {} /\ Len(q) = 0
<1>1. q \in Seq({})
  <2>1. <<>> \in Seq({})
    OBVIOUS
  <2> QED
    BY <2>1
<1>2. Len(q) = 0
  <2>1. Len(<<>>) = 0
    OBVIOUS
  <2> QED
    BY <2>1
<1>3. DOMAIN q = {}
  BY <1>1, <1>2
<1>4. ToSet(q) = {}
  BY <1>3 DEF ToSet
<1> QED
  BY <1>1, <1>2, <1>3, <1>4 DEF IsSeq

LEMMA InitTypes == Init => Types
<1> SUFFICES ASSUME Init PROVE Types
  OBVIOUS
<1>1. PICK p \in DOMAIN Programs: InitiallyWith(Programs[p].config) /\ todo = Programs[p].requests
  BY DEF Init
<1> DEFINE config == Programs[p].config
<1>2. IsConfig(config) /\ IsSeq(todo) /\ \A r \in ToSet(todo): IsRequest(r)
  BY <1>1, ProgramsAssumption DEF IsSeq
<1>3. mgr = [s \in Services |-> [alive |-> TRUE, gen |-> 1, devs |-> config, load |-> "idle", session |-> <<>>, ask |-> 0]]
  BY <1>1 DEF InitiallyWith
<1>4. ObjOK
  BY <1>1 DEF InitiallyWith, ObjOK
<1>5. RedisOK
  BY <1>1, <1>2 DEF InitiallyWith, RedisOK, IsConfig
<1> HIDE DEF config
<1>6. ManagersOK
  <2>1. IsConfig(<<>>)
    BY EmptySequence DEF IsConfig
  <2>2. DOMAIN mgr = Services
    BY <1>3
  <2>3. ASSUME NEW s \in Services
        PROVE  IsManager(mgr[s]) /\ mgr[s].load = "idle" /\ DOMAIN mgr[s].session = {}
    <3>1. mgr[s] = [alive |-> TRUE, gen |-> 1, devs |-> config, load |-> "idle", session |-> <<>>, ask |-> 0]
      BY <1>3
    <3>2. IsConfig(config)
      BY <1>2 DEF config
    <3>3. DOMAIN mgr[s] = MgrFields /\ mgr[s].alive \in BOOLEAN /\ mgr[s].gen \in Nat /\ mgr[s].devs = config
      BY <3>1 DEF MgrFields
    <3>4. mgr[s].load = "idle" /\ mgr[s].session = <<>>
      BY <3>1
    <3>5. DOMAIN mgr[s].session = {}
      BY <3>4, EmptySequence
    <3>6. IsConfig(mgr[s].session) /\ IsConfig(mgr[s].devs)
      <4>1. IsConfig(mgr[s].session)
        BY <2>1, <3>4
      <4>2. IsConfig(mgr[s].devs)
        BY <3>2, <3>3
      <4> QED
        BY <4>1, <4>2
    <3>7. mgr[s].load = "idle"
      BY <3>4
    <3>8. IsManager(mgr[s])
      BY <3>3, <3>6, <3>7 DEF IsManager
    <3> QED
      BY <3>5, <3>7, <3>8
  <2> QED
    BY <2>2, <2>3 DEF ManagersOK, Services
<1>7. LogOK
  BY DEF Init, LogOK
<1>8. fresh = 1 /\ requests = <<>> /\ asks = <<>> /\ waits = 0 /\ replies = {} /\ hub = Idle /\ dsh = Idle
  BY DEF Init
<1>9. ClientOK
  BY <1>2, <1>8 DEF ClientOK, ToSet
<1>10. QueuesOK /\ RepliesOK
  <2>1. RequestsOK /\ AsksOK
    <3>1. DOMAIN requests = {} /\ IsSeq(requests) /\ DOMAIN asks = {} /\ IsSeq(asks)
      BY <1>8, EmptySequence
    <3> QED
      BY <3>1 DEF RequestsOK, AsksOK
  <2> QED
    BY <1>8, <2>1 DEF QueuesOK, FreshOK, RepliesOK
<1>11. HubOK /\ DshOK
  BY <1>8 DEF HubOK, DshOK, Idle
<1>12. InboxOK
  <2>1. DOMAIN inbox = Services /\ \A s \in Services: inbox[s] = <<>>
    BY DEF Init
  <2>2. \A s \in Services: IsSeq(inbox[s]) /\ DOMAIN inbox[s] = {}
    BY <2>1, EmptySequence
  <2> QED
    BY <2>1, <2>2 DEF InboxOK
<1> QED
  BY <1>4, <1>5, <1>6, <1>7, <1>9, <1>10, <1>11, <1>12 DEF Types

LEMMA TypesStep == Types /\ [Next]_vars => Types'
<1> SUFFICES ASSUME Types, [Next]_vars PROVE Types'
  OBVIOUS
<1>1. CASE UNCHANGED vars
  <2>1. UNCHANGED <<todo, waits, requests, replies, asks, hub, dsh, inbox, mgr, obj, redis, fresh, log>>
    BY <1>1 DEF vars, client
  <2>2. FreshOK /\ Later
    BY <2>1 DEF Types, QueuesOK, Later
  <2>3. QueuesOK' /\ ClientOK' /\ RepliesOK' /\ HubOK' /\ DshOK'
    BY <2>1, <2>2, RequestsSame, AsksSame, FreshLater, ClientSame, RepliesSame, HubSame, DshSame DEF Types, QueuesOK
  <2>4. InboxOK' /\ ManagersOK' /\ ObjOK' /\ RedisOK' /\ LogOK'
    BY <2>1 DEF Types, InboxOK, ManagersOK, ObjOK, RedisOK, LogOK
  <2> QED
    BY <2>3, <2>4 DEF Types
<1>2. CASE Client
  BY <1>2, ClientTypes
<1>3. CASE Hub
  BY <1>3, HubReceiveTypes, HubDeviceTypes, HubAskTypes, HubGetsAnswerTypes, HubTimesOutTypes, HubStoreTypes, HubDoneTypes
  DEF Hub
<1>4. CASE DsHandler
  BY <1>4, DsReceiveTypes, DsUpdateTypes, DsGivesUpTypes DEF DsHandler
<1>5. CASE DsLoad \/ DsDisabled \/ ClientLoads
  BY <1>5, DsLoadTypes, DsDisabledTypes, ClientLoadsTypes
<1>6. CASE \E s \in Services: Manager(s)
  BY <1>6, ParseUpdateTypes, ParseReloadTypes, GetConfigTypes DEF Manager
<1> QED
  BY <1>1, <1>2, <1>3, <1>4, <1>5, <1>6 DEF Next, Done

-----------------------------------------------------------------------------
(* A request is in one place.                                              *)
LEMMA IdsEmpty == Init => Ids /\ Accounted
<1> SUFFICES ASSUME Init PROVE Ids /\ Accounted
  OBVIOUS
<1>1. requests = <<>> /\ asks = <<>> /\ replies = {} /\ hub.pc = "idle" /\ dsh.pc = "idle" /\ fresh = 1
  BY DEF Init, Idle
<1>2. DOMAIN requests = {} /\ DOMAIN asks = {}
  BY <1>1, EmptySequence
<1>3. Distinct(requests) /\ Distinct(asks) /\ OneAnswer
  BY <1>1, <1>2 DEF Distinct, OneAnswer
<1>4. 1..(fresh - 1) = {}
  BY <1>1
<1> QED
  BY <1>3, <1>4 DEF Ids, Accounted

LEMMA HoldsAppend ==
  ASSUME NEW q, IsSeq(q), NEW m
  PROVE  /\ \A x: Holds(Append(q, m), x) <=> Holds(q, x) \/ m.id = x
         /\ Distinct(q) /\ ~Holds(q, m.id) => Distinct(Append(q, m))
<1> DEFINE r == Append(q, m)
           n == Len(q)
<1>1. /\ n \in Nat /\ DOMAIN q = 1..n /\ DOMAIN r = 1..(n + 1) /\ (\A i \in DOMAIN q: r[i] = q[i]) /\ r[n + 1] = m
  BY SeqAppend
<1> HIDE DEF r, n
<1>2. ASSUME NEW x PROVE Holds(r, x) <=> Holds(q, x) \/ m.id = x
  <2>1. \A i \in 1..(n + 1): i \in 1..n \/ i = n + 1
    BY <1>1
  <2>2. n + 1 \in DOMAIN r /\ DOMAIN q \subseteq DOMAIN r
    BY <1>1
  <2> QED
    BY <1>1, <2>1, <2>2 DEF Holds
<1>3. Distinct(q) /\ ~Holds(q, m.id) => Distinct(r)
  BY <1>1 DEF Holds, Distinct
<1> QED
  BY <1>2, <1>3 DEF r

LEMMA HoldsTail ==
  ASSUME NEW q, IsSeq(q), q # <<>>, Distinct(q)
  PROVE  /\ Distinct(Tail(q)) /\ Holds(q, Head(q).id)
         /\ \A x: Holds(Tail(q), x) <=> Holds(q, x) /\ x # Head(q).id
<1> DEFINE r == Tail(q)
           n == Len(q)
<1>1. /\ n \in Nat \ {0} /\ DOMAIN q = 1..n /\ DOMAIN r = 1..(n - 1) /\ Head(q) = q[1] /\ 1 \in DOMAIN q
      /\ \A i \in DOMAIN r: r[i] = q[i + 1] /\ i + 1 \in DOMAIN q
      /\ \A i \in DOMAIN q: i # 1 => i - 1 \in DOMAIN r /\ r[i - 1] = q[i]
  BY SeqTail
<1> HIDE DEF r, n
<1>2. Distinct(r)
  <2>1. ASSUME NEW i \in DOMAIN r, NEW j \in DOMAIN r, i # j PROVE r[i].id # r[j].id
    <3>1. i + 1 \in DOMAIN q /\ j + 1 \in DOMAIN q /\ i + 1 # j + 1
      BY <1>1, <2>1
    <3> QED
      BY <1>1, <3>1 DEF Distinct
  <2> QED
    BY <2>1 DEF Distinct
<1>3. Holds(q, Head(q).id)
  BY <1>1 DEF Holds
<1>4. ASSUME NEW x PROVE Holds(r, x) <=> Holds(q, x) /\ x # Head(q).id
  <2>1. ASSUME Holds(r, x) PROVE Holds(q, x) /\ x # Head(q).id
    <3>1. PICK i \in DOMAIN r: r[i].id = x
      BY <2>1 DEF Holds
    <3>2. i + 1 \in DOMAIN q /\ q[i + 1].id = x /\ i + 1 # 1
      BY <1>1, <3>1
    <3> QED
      BY <1>1, <3>2 DEF Distinct, Holds
  <2>2. ASSUME Holds(q, x), x # Head(q).id PROVE Holds(r, x)
    <3>1. PICK i \in DOMAIN q: q[i].id = x
      BY <2>2 DEF Holds
    <3> QED
      BY <1>1, <2>2, <3>1 DEF Holds
  <2> QED
    BY <2>1, <2>2
<1> QED
  BY <1>2, <1>3, <1>4 DEF r

LEMMA FreshHeld ==
  ASSUME Types
  PROVE  ~Holds(requests, fresh) /\ ~Holds(asks, fresh) /\ ~HubId(fresh) /\ ~DshId(fresh) /\ Answer(fresh) = {}
<1>1. fresh \in Nat \ {0} /\ fresh \notin 1..(fresh - 1)
  BY DEF Types, QueuesOK, FreshOK
<1>2. ~Holds(requests, fresh) /\ ~Holds(asks, fresh)
  BY <1>1 DEF Types, QueuesOK, RequestsOK, AsksOK, IsSent, IsAsk, Holds
<1>3. ~HubId(fresh) /\ ~DshId(fresh)
  BY <1>1 DEF Types, HubOK, DshOK, IsAsk, HubId, DshId
<1>4. Answer(fresh) = {}
  BY <1>1, Replying DEF Types, RepliesOK
<1> QED
  BY <1>2, <1>3, <1>4

LEMMA ReplyEffect ==
  ASSUME NEW id, NEW accepted, Reply(id, accepted)
  PROVE  /\ \A x: Answer(x)' = {} <=> Answer(x) = {} /\ x # id
         /\ OneAnswer /\ Answer(id) = {} => OneAnswer'
<1>1. replies' = replies \cup {[id |-> id, accepted |-> accepted]}
  BY DEF Reply
<1>2. ASSUME NEW x PROVE Answer(x)' = {} <=> Answer(x) = {} /\ x # id
  <2>1. Answer(x)' = {} <=> \A r \in replies': r.id # x
    BY DEF Answer
  <2>2. Answer(x) = {} <=> \A r \in replies: r.id # x
    BY Replying
  <2>3. (\A r \in replies': r.id # x) <=> (\A r \in replies: r.id # x) /\ x # id
    <3> DEFINE new == [id |-> id, accepted |-> accepted]
    <3>1. new.id = id
      OBVIOUS
    <3>2. \A r: r \in replies' <=> r \in replies \/ r = new
      BY <1>1
    <3> HIDE DEF new
    <3> QED
      BY <3>1, <3>2, Zenon
  <2> QED
    BY <2>1, <2>2, <2>3
<1>3. OneAnswer /\ Answer(id) = {} => OneAnswer'
  BY <1>1, Replying DEF OneAnswer
<1> QED
  BY <1>2, <1>3

SameAt(x) ==
  /\ (Holds(requests, x)' <=> Holds(requests, x)) /\ (Holds(asks, x)' <=> Holds(asks, x))
  /\ (HubId(x)' <=> HubId(x)) /\ (DshId(x)' <=> DshId(x)) /\ (Answer(x)' = {} <=> Answer(x) = {})
LEMMA IdMoves ==
  ASSUME Types, Ids, Accounted, NEW id \in 1..(fresh' - 1), fresh' = fresh \/ (fresh' = fresh + 1 /\ id = fresh),
         Distinct(requests'), Distinct(asks'), OneAnswer', OnePlace(id)', Somewhere(id)',
         \A x: x # id => SameAt(x), log.silent \subseteq log'.silent
  PROVE  Ids' /\ Accounted'
<1>1. ASSUME NEW x \in 1..(fresh' - 1), x # id PROVE OnePlace(x)' /\ Somewhere(x)'
  <2>1. x \in 1..(fresh - 1)
    BY <1>1 DEF Types, QueuesOK, FreshOK
  <2>2. OnePlace(x) /\ Somewhere(x) /\ SameAt(x)
    BY <1>1, <2>1 DEF Ids, Accounted
  <2> QED
    BY <2>2 DEF OnePlace, Somewhere, SameAt
<1>2. \A x \in 1..(fresh' - 1): OnePlace(x)' /\ Somewhere(x)'
  BY <1>1
<1> QED
  BY <1>2 DEF Ids, Accounted, Distinct

LEMMA IdsStay ==
  ASSUME Ids, Accounted, UNCHANGED <<requests, asks, replies, fresh>>, \A x: (HubId(x)' <=> HubId(x)) /\ (DshId(x)' <=> DshId(x)),
         log.silent \subseteq log'.silent
  PROVE  Ids' /\ Accounted'
<1>1. \A x: Answer(x)' = Answer(x) /\ (Holds(requests, x)' <=> Holds(requests, x)) /\ (Holds(asks, x)' <=> Holds(asks, x))
  BY DEF Answer, Holds
<1>2. Distinct(requests') /\ Distinct(asks') /\ OneAnswer'
  BY DEF Ids, OneAnswer
<1>3. ASSUME NEW x \in 1..(fresh' - 1) PROVE OnePlace(x)' /\ Somewhere(x)'
  <2>1. OnePlace(x) /\ Somewhere(x)
    BY <1>3 DEF Ids, Accounted
  <2> QED
    BY <1>1, <2>1 DEF OnePlace, Somewhere
<1> QED
  BY <1>2, <1>3 DEF Ids, Accounted, Distinct
LEMMA NewRequestIds ==
  ASSUME Types, Ids, Accounted, NEW m, m.id = fresh, requests' = Append(requests, m), fresh' = fresh + 1,
         UNCHANGED <<asks, replies>>, \A x: (HubId(x)' <=> HubId(x)) /\ (DshId(x)' <=> DshId(x)), log.silent \subseteq log'.silent
  PROVE  Ids' /\ Accounted'
<1>1. \A x: Holds(requests, x)' <=> Holds(requests, x) \/ x = fresh
  BY HoldsAppend DEF Types, QueuesOK, RequestsOK, Holds
<1>2. ~Holds(requests, fresh) /\ ~Holds(asks, fresh) /\ ~HubId(fresh) /\ ~DshId(fresh) /\ Answer(fresh) = {}
  BY FreshHeld
<1>3. \A x: Answer(x)' = Answer(x) /\ (Holds(asks, x)' <=> Holds(asks, x))
  BY DEF Answer, Holds
<1>4. Distinct(requests') /\ Distinct(asks') /\ OneAnswer'
  BY <1>2, HoldsAppend DEF Ids, Types, QueuesOK, RequestsOK, OneAnswer
<1>5. PICK id \in 1..(fresh' - 1): id = fresh
  BY DEF Types, QueuesOK, FreshOK
<1>6. OnePlace(id)' /\ Somewhere(id)'
  BY <1>1, <1>2, <1>3, <1>5 DEF OnePlace, Somewhere
<1>7. \A x: x # id => SameAt(x)
  BY <1>1, <1>3, <1>5 DEF SameAt
<1> QED
  BY <1>4, <1>5, <1>6, <1>7, IdMoves

LEMMA ClientIds ==
  ASSUME Types, Ids, Accounted, Client
  PROVE  Ids' /\ Accounted'
<1>1. CASE SendRequest
  <2> DEFINE r == Head(todo)
             m == [id |-> fresh, action |-> r.action, us |-> r.us]
  <2>1. requests' = Append(requests, m) /\ fresh' = fresh + 1 /\ m.id = fresh /\ UNCHANGED <<replies, asks, hub, dsh, log>>
    BY <1>1, SendRequestEffect
  <2>2. \A x: (HubId(x)' <=> HubId(x)) /\ (DshId(x)' <=> DshId(x))
    BY <2>1 DEF HubId, DshId
  <2> HIDE DEF m
  <2> QED
    BY <2>1, <2>2, NewRequestIds
<1>2. CASE NoSuchDevice \/ GetReply \/ ReplyTimesOut
  <2>1. UNCHANGED <<requests, asks, replies, hub, dsh, fresh, log>>
    BY <1>2 DEF NoSuchDevice, GetReply, ReplyTimesOut
  <2> QED
    BY <2>1, IdsStay DEF HubId, DshId
<1> QED
  BY <1>1, <1>2 DEF Client

LEMMA HubReceiveIds ==
  ASSUME Types, Ids, Accounted, HubReceive
  PROVE  Ids' /\ Accounted'
<1>1. /\ hub.pc = "idle" /\ requests # <<>> /\ requests' = Tail(requests) /\ UNCHANGED <<dsh, asks, fresh>>
      /\ HubRefuses(Head(requests)) \/ HubTakes(Head(requests)) \/ HubReloads(Head(requests)) \/ HubSets(Head(requests))
  BY HubReceiveEffect
<1>2. /\ Distinct(requests') /\ Holds(requests, Head(requests).id) /\ IsSent(Head(requests))
      /\ \A x: Holds(requests, x)' <=> Holds(requests, x) /\ x # Head(requests).id
  <2>1. IsSeq(requests) /\ requests # <<>> /\ Distinct(requests)
    BY <1>1 DEF Ids, Types, QueuesOK, RequestsOK
  <2>2. /\ Distinct(Tail(requests)) /\ Holds(requests, Head(requests).id)
        /\ \A x: Holds(Tail(requests), x) <=> Holds(requests, x) /\ x # Head(requests).id
    BY <2>1, HoldsTail
  <2>3. \A x: Holds(requests, x)' <=> Holds(Tail(requests), x)
    BY <1>1 DEF Holds
  <2>4. IsSent(Head(requests))
    BY <2>1, SeqTail DEF Types, QueuesOK, RequestsOK
  <2> QED
    BY <1>1, <2>2, <2>3, <2>4
<1>3. PICK id \in 1..(fresh - 1): id = Head(requests).id
  BY <1>2 DEF IsSent
<1>4. id \in 1..(fresh' - 1) /\ fresh' = fresh /\ Distinct(asks') /\ OnePlace(id) /\ \A x: Holds(asks, x)' <=> Holds(asks, x)
  BY <1>1 DEF Ids, Holds
<1>5. ~Holds(asks, id) /\ ~HubId(id) /\ ~DshId(id) /\ Answer(id) = {} /\ \A x: ~HubId(x) /\ (DshId(x)' <=> DshId(x))
  BY <1>1, <1>2, <1>3, <1>4 DEF OnePlace, HubId, DshId
<1>6. ASSUME NEW accepted, Reply(id, accepted), hub'.pc = "idle", log.silent \subseteq log'.silent
      PROVE  Ids' /\ Accounted'
  <2>1. OneAnswer' /\ \A x: Answer(x)' = {} <=> Answer(x) = {} /\ x # id
    BY <1>5, <1>6, ReplyEffect DEF Ids
  <2>2. \A x: ~HubId(x)'
    BY <1>6 DEF HubId
  <2>3. OnePlace(id)' /\ Somewhere(id)'
    BY <1>2, <1>3, <1>4, <1>5, <2>1, <2>2 DEF OnePlace, Somewhere
  <2>4. \A x: x # id => SameAt(x)
    BY <1>2, <1>3, <1>4, <1>5, <2>1, <2>2 DEF SameAt
  <2> QED
    BY <1>2, <1>4, <1>6, <2>1, <2>3, <2>4, IdMoves
<1>7. CASE HubTakes(Head(requests))
  <2>1. hub'.pc = "next" /\ hub'.req = Head(requests) /\ UNCHANGED <<replies, log>>
    BY <1>7 DEF HubTakes
  <2>2. OneAnswer' /\ \A x: Answer(x)' = Answer(x)
    BY <2>1 DEF Ids, OneAnswer, Answer
  <2>3. \A x: HubId(x)' <=> x = id
    BY <1>3, <2>1 DEF HubId
  <2>4. OnePlace(id)' /\ Somewhere(id)'
    BY <1>2, <1>3, <1>4, <1>5, <2>2, <2>3 DEF OnePlace, Somewhere
  <2>5. \A x: x # id => SameAt(x)
    BY <1>2, <1>3, <1>4, <1>5, <2>2, <2>3 DEF SameAt
  <2> QED
    BY <1>2, <1>4, <2>1, <2>2, <2>4, <2>5, IdMoves
<1>8. CASE HubRefuses(Head(requests))
  BY <1>3, <1>6, <1>8 DEF HubRefuses, Idle, LogKeeps, LogFields
<1>9. CASE HubReloads(Head(requests))
  BY <1>1, <1>3, <1>6, <1>9 DEF HubReloads
<1>10. CASE HubSets(Head(requests))
  BY <1>1, <1>3, <1>6, <1>10 DEF HubSets, LogKeeps, LogFields
<1> QED
  BY <1>1, <1>7, <1>8, <1>9, <1>10

\* SciHub keeps its request.
LEMMA HubKeepsIds ==
  ASSUME Types, Ids, Accounted, hub.pc # "idle", hub'.pc # "idle", hub'.req = hub.req, UNCHANGED <<requests, asks, replies, fresh, dsh>>,
         log.silent \subseteq log'.silent
  PROVE  Ids' /\ Accounted'
<1>1. \A x: (HubId(x)' <=> HubId(x)) /\ (DshId(x)' <=> DshId(x))
  BY DEF HubId, DshId
<1> QED
  BY <1>1, IdsStay

\* SciHub answers its request.
LEMMA HubAnswersIds ==
  ASSUME Types, Ids, Accounted, hub.pc # "idle", hub' = Idle, UNCHANGED <<requests, asks, fresh, dsh>>, NEW accepted,
         Reply(hub.req.id, accepted), log.silent \subseteq log'.silent
  PROVE  Ids' /\ Accounted'
<1>1. PICK id \in 1..(fresh - 1): id = hub.req.id
  BY HubBusy DEF Types
<1>2. /\ id \in 1..(fresh' - 1) /\ fresh' = fresh /\ Distinct(requests') /\ Distinct(asks') /\ OnePlace(id) /\ HubId(id)
      /\ \A x: /\ (Holds(requests, x)' <=> Holds(requests, x)) /\ (Holds(asks, x)' <=> Holds(asks, x))
               /\ (DshId(x)' <=> DshId(x)) /\ ~HubId(x)' /\ (HubId(x) => x = id)
  BY <1>1 DEF Ids, Holds, HubId, DshId, Idle
<1>3. OneAnswer' /\ \A x: Answer(x)' = {} <=> Answer(x) = {} /\ x # id
  <2>1. Reply(id, accepted) /\ OneAnswer /\ Answer(id) = {}
    BY <1>1, <1>2 DEF OnePlace, Ids
  <2> QED
    BY <2>1, ReplyEffect
<1>4. OnePlace(id)' /\ Somewhere(id)' /\ \A x: x # id => SameAt(x)
  BY <1>2, <1>3 DEF OnePlace, Somewhere, SameAt
<1> QED
  BY <1>2, <1>3, <1>4, IdMoves

LEMMA HubDeviceIds ==
  ASSUME Types, Ids, Accounted, HubDevice
  PROVE  Ids' /\ Accounted'
<1>1. hub.pc = "next" /\ UNCHANGED <<requests, dsh, asks, fresh>> /\ (HubStarts(Head(hub.left)) \/ HubMisses)
  BY HubDeviceEffect
<1>2. CASE HubStarts(Head(hub.left))
  <2>1. /\ hub.pc # "idle" /\ hub'.pc # "idle" /\ hub'.req = hub.req /\ UNCHANGED <<requests, asks, replies, fresh, dsh>>
        /\ log.silent \subseteq log'.silent
    BY <1>1, <1>2 DEF HubStarts
  <2> QED
    BY <2>1, HubKeepsIds
<1>3. CASE HubMisses
  <2>1. /\ hub.pc # "idle" /\ hub' = Idle /\ UNCHANGED <<requests, asks, fresh, dsh>>
        /\ log.silent \subseteq log'.silent /\ Reply(hub.req.id, FALSE)
    BY <1>1, <1>3 DEF HubMisses, LogKeeps, LogFields
  <2> QED
    BY <2>1, HubAnswersIds
<1> QED
  BY <1>1, <1>2, <1>3

LEMMA HubAskIds ==
  ASSUME Types, Ids, Accounted, HubAsk
  PROVE  Ids' /\ Accounted'
<1> DEFINE m == [id |-> fresh, dev |-> hub.dev, u |-> hub.u]
<1>1. /\ hub.pc = "ask" /\ hub'.pc = "wait" /\ hub'.req = hub.req /\ asks' = Append(asks, m) /\ m.id = fresh /\ fresh' = fresh + 1
      /\ UNCHANGED <<requests, replies, dsh, log>>
  BY HubAskEffect DEF RequestKept
<1> HIDE DEF m
<1>2. \A x: Holds(asks, x)' <=> Holds(asks, x) \/ x = fresh
  BY <1>1, HoldsAppend DEF Types, QueuesOK, AsksOK, Holds
<1>3. ~Holds(requests, fresh) /\ ~Holds(asks, fresh) /\ ~HubId(fresh) /\ ~DshId(fresh) /\ Answer(fresh) = {}
  BY FreshHeld
<1>4. \A x: Answer(x)' = Answer(x) /\ (Holds(requests, x)' <=> Holds(requests, x)) /\ (HubId(x)' <=> HubId(x)) /\ (DshId(x)' <=> DshId(x))
  BY <1>1 DEF Answer, Holds, HubId, DshId
<1>5. Distinct(requests') /\ Distinct(asks') /\ OneAnswer'
  BY <1>1, <1>3, HoldsAppend DEF Ids, Types, QueuesOK, AsksOK, OneAnswer
<1>6. PICK id \in 1..(fresh' - 1): id = fresh
  BY <1>1 DEF Types, QueuesOK, FreshOK
<1>7. OnePlace(id)' /\ Somewhere(id)' /\ \A x: x # id => SameAt(x)
  BY <1>2, <1>3, <1>4, <1>6 DEF OnePlace, Somewhere, SameAt
<1> QED
  BY <1>1, <1>5, <1>6, <1>7, IdMoves

LEMMA HubGetsAnswerIds ==
  ASSUME Types, Ids, Accounted, HubGetsAnswer
  PROVE  Ids' /\ Accounted'
<1>1. /\ hub.pc = "wait" /\ UNCHANGED <<requests, asks, replies, dsh, fresh>> /\ hub'.pc = "ask" /\ hub'.req = hub.req
      /\ log.silent \subseteq log'.silent
  BY HubGetsAnswerEffect DEF RequestKept, LogKeeps, LogFields
<1> QED
  BY <1>1, HubKeepsIds

LEMMA HubTimesOutIds ==
  ASSUME Types, Ids, Accounted, HubTimesOut
  PROVE  Ids' /\ Accounted'
  BY HubTimesOutEffect, HubAnswersIds DEF LogKeeps, LogFields

LEMMA HubStoreIds ==
  ASSUME Types, Ids, Accounted, HubStore
  PROVE  Ids' /\ Accounted'
<1> DEFINE e == Apply(Entry, hub.u)
<1>1. hub.pc = "ask" /\ UNCHANGED <<requests, asks, dsh, fresh>> /\ (HubSkips \/ HubFails \/ HubWrites(e))
  BY HubStoreEffect
<1> HIDE DEF e
<1>2. CASE HubSkips \/ HubWrites(e)
  <2>1. hub'.pc = "next" /\ hub'.req = hub.req /\ replies' = replies /\ log.silent \subseteq log'.silent
    BY <1>2 DEF HubSkips, HubWrites, RequestKept, LogKeeps, LogFields
  <2> QED
    BY <1>1, <2>1, HubKeepsIds
<1>3. CASE HubFails
  BY <1>1, <1>3, HubAnswersIds DEF HubFails, LogKeeps, LogFields
<1> QED
  BY <1>1, <1>2, <1>3

LEMMA HubDoneIds ==
  ASSUME Types, Ids, Accounted, HubDone
  PROVE  Ids' /\ Accounted'
<1>1. hub.pc = "next" /\ hub' = Idle /\ UNCHANGED <<requests, asks, dsh, fresh>> /\ (HubTells \/ HubIsSilent)
  BY HubDoneEffect
<1>2. CASE HubTells
  BY <1>1, <1>2, HubAnswersIds DEF HubTells, LogKeeps, LogFields
<1>3. CASE HubIsSilent
  <2>1. replies' = replies /\ log'.silent = log.silent \cup {hub.req.id}
    BY <1>3 DEF HubIsSilent
  <2>2. PICK id \in 1..(fresh - 1): id = hub.req.id
    BY <1>1, HubBusy DEF Types
  <2>3. /\ id \in 1..(fresh' - 1) /\ fresh' = fresh /\ Distinct(requests') /\ Distinct(asks') /\ OnePlace(id) /\ HubId(id) /\ OneAnswer'
        /\ \A x: /\ (Holds(requests, x)' <=> Holds(requests, x)) /\ (Holds(asks, x)' <=> Holds(asks, x))
                 /\ (DshId(x)' <=> DshId(x)) /\ ~HubId(x)' /\ (HubId(x) => x = id) /\ Answer(x)' = Answer(x)
    BY <1>1, <2>1, <2>2 DEF Ids, Holds, HubId, DshId, Idle, OneAnswer, Answer
  <2>4. OnePlace(id)' /\ Somewhere(id)' /\ \A x: x # id => SameAt(x)
    BY <2>1, <2>2, <2>3 DEF OnePlace, Somewhere, SameAt
  <2> QED
    BY <2>1, <2>3, <2>4, IdMoves
<1> QED
  BY <1>1, <1>2, <1>3
LEMMA ManagerIds ==
  ASSUME Types, Ids, Accounted, NEW s \in Services, Manager(s)
  PROVE  Ids' /\ Accounted'
<1>1. UNCHANGED <<requests, replies, asks, dsh, fresh>> /\ log.silent \subseteq log'.silent /\ \A x: HubId(x)' <=> HubId(x)
  <2>1. CASE ParseUpdate(s)
    <3>1. UNCHANGED <<requests, replies, asks, dsh, fresh, hub>> /\ log.silent \subseteq log'.silent
      BY <2>1, ParseUpdateEffect DEF LogKeeps, LogFields
    <3> QED
      BY <3>1 DEF HubId
  <2>2. CASE ParseReload(s)
    <3>1. /\ UNCHANGED <<requests, replies, asks, dsh, fresh, log>>
          /\ hub' = hub \/ (hub'.pc = hub.pc /\ hub'.req = hub.req)
      BY <2>2, ParseReloadEffect DEF RequestKept
    <3> QED
      BY <3>1 DEF HubId
  <2>3. CASE GetConfig(s)
    <3>1. UNCHANGED <<requests, replies, asks, dsh, fresh, hub, log>>
      BY <2>3, GetConfigEffect
    <3> QED
      BY <3>1 DEF HubId
  <2> QED
    BY <2>1, <2>2, <2>3 DEF Manager
<1> QED
  BY <1>1, IdsStay DEF DshId

LEMMA ClientLoadsIds ==
  ASSUME Types, Ids, Accounted, ClientLoads
  PROVE  Ids' /\ Accounted'
<1>1. UNCHANGED <<requests, replies, asks, hub, dsh, fresh>> /\ log.silent \subseteq log'.silent
  BY ClientLoadsEffect DEF LogKeeps, LogFields
<1> QED
  BY <1>1, IdsStay DEF HubId, DshId

\* The device server asks for a device to be disabled.
LEMMA AsksIds ==
  ASSUME Types, Ids, Accounted, NEW d, Asks(d), UNCHANGED <<asks, replies, hub>>, \A x: DshId(x)' <=> DshId(x),
         log.silent \subseteq log'.silent
  PROVE  Ids' /\ Accounted'
<1> DEFINE m == [id |-> fresh, action |-> "update", us |-> [x \in {d} |-> [enabled |-> FALSE]]]
<1>1. requests' = Append(requests, m) /\ m.id = fresh /\ fresh' = fresh + 1
  BY DEF Asks, DisableRequest
<1> HIDE DEF m
<1>2. \A x: HubId(x)' <=> HubId(x)
  BY DEF HubId
<1> QED
  BY <1>1, <1>2, NewRequestIds

LEMMA DsLoadIds ==
  ASSUME Types, Ids, Accounted, DsLoad
  PROVE  Ids' /\ Accounted'
<1>1. /\ UNCHANGED <<asks, replies, hub, dsh>>
      /\ LoadEnds \/ \E d \in Devices: LET e == mgr["ds"].session[d] IN LoadRefuses(d) \/ LoadFails(d, e) \/ LoadAdds(d, e)
  BY DsLoadEffect
<1>2. log.silent \subseteq log'.silent /\ (UNCHANGED <<requests, fresh>> \/ \E d \in Devices: Asks(d))
  BY <1>1 DEF LoadEnds, LoadRefuses, LoadFails, LoadAdds, LogKeeps, LogFields
<1>3. \A x: (HubId(x)' <=> HubId(x)) /\ (DshId(x)' <=> DshId(x))
  BY <1>1 DEF HubId, DshId
<1> QED
  BY <1>1, <1>2, <1>3, IdsStay, AsksIds

LEMMA DsDisabledIds ==
  ASSUME Types, Ids, Accounted, DsDisabled
  PROVE  Ids' /\ Accounted'
<1>1. UNCHANGED <<requests, replies, asks, hub, dsh, fresh, log>>
  BY DsDisabledEffect
<1> QED
  BY <1>1, IdsStay DEF HubId, DshId

LEMMA DsReceiveIds ==
  ASSUME Types, Ids, Accounted, DsReceive
  PROVE  Ids' /\ Accounted'
<1>1. /\ dsh.pc = "idle" /\ asks # <<>> /\ asks' = Tail(asks) /\ UNCHANGED <<hub, requests, fresh>>
      /\ DshTakes(Head(asks)) \/ DshRefuses(Head(asks))
  BY DsReceiveEffect
<1>2. /\ Distinct(asks') /\ Holds(asks, Head(asks).id) /\ IsAsk(Head(asks))
      /\ \A x: Holds(asks, x)' <=> Holds(asks, x) /\ x # Head(asks).id
  <2>1. IsSeq(asks) /\ asks # <<>> /\ Distinct(asks)
    BY <1>1 DEF Ids, Types, QueuesOK, AsksOK
  <2>2. /\ Distinct(Tail(asks)) /\ Holds(asks, Head(asks).id)
        /\ \A x: Holds(Tail(asks), x) <=> Holds(asks, x) /\ x # Head(asks).id
    BY <2>1, HoldsTail
  <2>3. \A x: Holds(asks, x)' <=> Holds(Tail(asks), x)
    BY <1>1 DEF Holds
  <2>4. IsAsk(Head(asks))
    BY <2>1, SeqTail DEF Types, QueuesOK, AsksOK
  <2> QED
    BY <1>1, <2>2, <2>3, <2>4
<1>3. PICK id \in 1..(fresh - 1): id = Head(asks).id
  BY <1>2 DEF IsAsk
<1>4. id \in 1..(fresh' - 1) /\ fresh' = fresh /\ Distinct(requests') /\ OnePlace(id) /\ \A x: Holds(requests, x)' <=> Holds(requests, x)
  BY <1>1 DEF Ids, Holds
<1>5. ~Holds(requests, id) /\ ~HubId(id) /\ ~DshId(id) /\ Answer(id) = {} /\ \A x: ~DshId(x) /\ (HubId(x)' <=> HubId(x))
  BY <1>1, <1>2, <1>3, <1>4 DEF OnePlace, HubId, DshId
<1>6. CASE DshTakes(Head(asks))
  <2>1. dsh'.pc = "update" /\ dsh'.ask = Head(asks) /\ UNCHANGED <<replies, log>>
    BY <1>6 DEF DshTakes
  <2>2. OneAnswer' /\ \A x: Answer(x)' = Answer(x)
    BY <2>1 DEF Ids, OneAnswer, Answer
  <2>3. \A x: DshId(x)' <=> x = id
    BY <1>3, <2>1 DEF DshId
  <2>4. OnePlace(id)' /\ Somewhere(id)'
    BY <1>2, <1>3, <1>4, <1>5, <2>2, <2>3 DEF OnePlace, Somewhere
  <2>5. \A x: x # id => SameAt(x)
    BY <1>2, <1>3, <1>4, <1>5, <2>2, <2>3 DEF SameAt
  <2> QED
    BY <1>2, <1>4, <2>1, <2>2, <2>4, <2>5, IdMoves
<1>7. CASE DshRefuses(Head(asks))
  <2>1. Reply(id, FALSE) /\ dsh' = dsh /\ log.silent \subseteq log'.silent
    BY <1>3, <1>7 DEF DshRefuses, LogKeeps, LogFields
  <2>2. OneAnswer' /\ \A x: Answer(x)' = {} <=> Answer(x) = {} /\ x # id
    BY <1>5, <2>1, ReplyEffect DEF Ids
  <2>3. \A x: ~DshId(x)'
    BY <1>1, <2>1 DEF DshId
  <2>4. OnePlace(id)' /\ Somewhere(id)'
    BY <1>2, <1>3, <1>4, <1>5, <2>2, <2>3 DEF OnePlace, Somewhere
  <2>5. \A x: x # id => SameAt(x)
    BY <1>2, <1>3, <1>4, <1>5, <2>2, <2>3 DEF SameAt
  <2> QED
    BY <1>2, <1>4, <2>1, <2>2, <2>4, <2>5, IdMoves
<1> QED
  BY <1>1, <1>6, <1>7

LEMMA DshAnswersIds ==
  ASSUME Types, Ids, Accounted, dsh.pc # "idle", dsh' = Idle, UNCHANGED <<requests, asks, fresh, hub>>, NEW accepted,
         Reply(dsh.ask.id, accepted), log.silent \subseteq log'.silent
  PROVE  Ids' /\ Accounted'
<1>1. PICK id \in 1..(fresh - 1): id = dsh.ask.id
  BY DEF Types, DshOK, IsAsk
<1>2. /\ id \in 1..(fresh' - 1) /\ fresh' = fresh /\ Distinct(requests') /\ Distinct(asks') /\ OnePlace(id) /\ DshId(id)
      /\ \A x: /\ (Holds(requests, x)' <=> Holds(requests, x)) /\ (Holds(asks, x)' <=> Holds(asks, x))
               /\ (HubId(x)' <=> HubId(x)) /\ ~DshId(x)' /\ (DshId(x) => x = id)
  BY <1>1 DEF Ids, Holds, HubId, DshId, Idle
<1>3. OneAnswer' /\ \A x: Answer(x)' = {} <=> Answer(x) = {} /\ x # id
  <2>1. Reply(id, accepted) /\ OneAnswer /\ Answer(id) = {}
    BY <1>1, <1>2 DEF OnePlace, Ids
  <2> QED
    BY <2>1, ReplyEffect
<1>4. OnePlace(id)' /\ Somewhere(id)' /\ \A x: x # id => SameAt(x)
  BY <1>2, <1>3 DEF OnePlace, Somewhere, SameAt
<1> QED
  BY <1>2, <1>3, <1>4, IdMoves

LEMMA DsUpdateIds ==
  ASSUME Types, Ids, Accounted, DsUpdate
  PROVE  Ids' /\ Accounted'
<1> DEFINE d == dsh.ask.dev
           u == dsh.ask.u
<1>1. /\ dsh.pc = "update" /\ UNCHANGED <<asks, hub>>
      /\ NoneThere(d) \/ ConfRefused(d, u) \/ ConfSet(d, u) \/ Disabled(d, u) \/ Enabled(d, u)
                  \/ NotConnected(d, u) \/ CannotReconnect(d, u)
  BY DsUpdateEffect DEF DsHub
<1> HIDE DEF d, u
<1>2. CASE NotConnected(d, u)
  <2>1. Asks(d) /\ replies' = replies /\ log.silent \subseteq log'.silent /\ dsh'.pc = "disabling" /\ dsh'.ask = dsh.ask
    BY <1>2 DEF NotConnected, LogKeeps, LogFields
  <2>2. \A x: DshId(x)' <=> DshId(x)
    BY <1>1, <2>1 DEF DshId
  <2> QED
    BY <1>1, <2>1, <2>2, AsksIds
<1>3. CASE ~NotConnected(d, u)
  <2>1. PICK accepted: DsFinishes(accepted)
    BY <1>1, <1>3 DEF NoneThere, ConfRefused, ConfSet, Disabled, Enabled, CannotReconnect
  <2>2. log.silent \subseteq log'.silent
    BY <1>1, <1>3 DEF NoneThere, ConfRefused, ConfSet, Disabled, Enabled, CannotReconnect, LogKeeps, LogFields
  <2>3. dsh' = Idle /\ UNCHANGED <<requests, asks, fresh, hub>> /\ Reply(dsh.ask.id, accepted)
    BY <1>1, <2>1 DEF DsFinishes
  <2> QED
    BY <1>1, <2>2, <2>3, DshAnswersIds
<1> QED
  BY <1>2, <1>3

LEMMA DsGivesUpIds ==
  ASSUME Types, Ids, Accounted, DsGivesUp
  PROVE  Ids' /\ Accounted'
<1>1. dsh.pc = "disabling" /\ dsh' = Idle /\ UNCHANGED <<requests, asks, fresh, hub, log>>
  BY DsGivesUpEffect
<1>2. PICK accepted: Reply(dsh.ask.id, accepted)
  BY DsGivesUpEffect
<1> QED
  BY <1>1, <1>2, DshAnswersIds

LEMMA IdsStep == Types /\ Ids /\ Accounted /\ [Next]_vars => Ids' /\ Accounted'
<1> SUFFICES ASSUME Types, Ids, Accounted, [Next]_vars PROVE Ids' /\ Accounted'
  OBVIOUS
<1>1. CASE UNCHANGED vars
  <2>1. UNCHANGED <<requests, asks, replies, fresh, hub, dsh, log>>
    BY <1>1 DEF vars
  <2> QED
    BY <2>1, IdsStay DEF HubId, DshId
<1>2. CASE Client
  BY <1>2, ClientIds
<1>3. CASE Hub
  BY <1>3, HubReceiveIds, HubDeviceIds, HubAskIds, HubGetsAnswerIds, HubTimesOutIds, HubStoreIds, HubDoneIds DEF Hub
<1>4. CASE DsHandler
  BY <1>4, DsReceiveIds, DsUpdateIds, DsGivesUpIds DEF DsHandler
<1>5. CASE DsLoad \/ DsDisabled \/ ClientLoads
  BY <1>5, DsLoadIds, DsDisabledIds, ClientLoadsIds
<1>6. CASE \E s \in Services: Manager(s)
  BY <1>6, ManagerIds
<1> QED
  BY <1>1, <1>2, <1>3, <1>4, <1>5, <1>6 DEF Next, Done
Accounts == Types /\ Ids /\ Accounted
LEMMA AccountsHold == Spec => []Accounts
<1>1. Init => Accounts
  BY InitTypes, IdsEmpty DEF Accounts
<1>2. Accounts /\ [Next]_vars => Accounts'
  BY TypesStep, IdsStep DEF Accounts
<1> QED
  BY <1>1, <1>2, PTL DEF Spec

LEMMA TypesOK == Accounts => TypeOK
<1> SUFFICES ASSUME Accounts PROVE TypeOK
  OBVIOUS
<1>1. Types /\ Ids
  BY DEF Accounts
<1>2. waits \in 0..(fresh - 1) /\ \A q \in {requests, asks}: \A i \in DOMAIN q: q[i].id \in 1..(fresh - 1)
  BY <1>1 DEF Types, ClientOK, QueuesOK, RequestsOK, AsksOK, IsSent, IsAsk
<1>3. \A i, j \in DOMAIN requests: i # j => requests[i].id # requests[j].id
  BY <1>1 DEF Ids, Distinct
<1>4. \A a, b \in replies: a.id = b.id => a = b
  BY <1>1 DEF Ids, OneAnswer
<1>5. hub.pc \in {"idle", "next", "ask", "wait"} /\ dsh.pc \in {"idle", "update", "disabling"}
  BY <1>1 DEF Types, HubOK, DshOK, Idle
<1>6. \A s \in Services: DOMAIN Devs(s) \subseteq Devices /\ mgr[s].load \in {"idle", "flushed", "loading", "disabling"}
  BY <1>1 DEF Types, ManagersOK, IsManager, IsConfig, Devs
<1>7. DOMAIN obj = Devices /\ \A d \in Devices: obj[d].up \in {"connected", "off", "destroyed"}
  BY <1>1 DEF Types, ObjOK
<1>8. redis.info \subseteq Devices /\ DOMAIN redis.config \subseteq Devices
  BY <1>1 DEF Types, RedisOK, IsConfig
<1> QED
  BY <1>2, <1>3, <1>4, <1>5, <1>6, <1>7, <1>8 DEF TypeOK

\* The state has its types, and the requests, questions and answers that are on their way
\* have different identifiers: each is given once (client and handlers count them), so that
\* an answer is never taken for that of another request.
THEOREM TypeCorrect == Spec => []TypeOK
  BY AccountsHold, TypesOK, PTL

LEMMA AccountedAreAnswered == Accounts => Answered
<1> SUFFICES ASSUME Accounts, Quiet, mgr["ds"].alive, mgr["hub"].alive, NEW id \in 1..(fresh - 1)
             PROVE  Answer(id) # {} \/ id \in log.silent
  BY DEF Answered
<1>1. requests = <<>> /\ asks = <<>> /\ hub.pc = "idle" /\ dsh.pc = "idle"
  BY DEF Quiet
<1>2. ~Holds(requests, id) /\ ~Holds(asks, id)
  BY <1>1, EmptySequence DEF Holds
<1> QED
  BY <1>1, <1>2 DEF Accounts, Accounted, Somewhere, HubId, DshId

-----------------------------------------------------------------------------
(* What SciHub stores is what was asked for.                               *)

Grows == \A f \in LogFields: log[f] \subseteq log'[f]
LEMMA LogGrows ==
  ASSUME Types, [Next]_vars
  PROVE  Grows
<1> USE DEF Grows
<1>1. CASE log' = log
  BY <1>1
<1>2. ASSUME NEW S, LogKeeps(S), \A f \in S: log[f] \subseteq log'[f]
      PROVE  Grows
  BY <1>2 DEF LogKeeps
<1>3. CASE UNCHANGED vars
  BY <1>1, <1>3 DEF vars
<1>4. CASE Client
  BY <1>1, <1>4 DEF Client, SendRequest, NoSuchDevice, GetReply, ReplyTimesOut
<1>5. CASE HubReceive
  BY <1>1, <1>2, <1>5, HubReceiveEffect DEF HubRefuses, HubTakes, HubReloads, HubSets
<1>6. CASE HubDevice
  BY <1>1, <1>2, <1>6, HubDeviceEffect DEF HubStarts, HubMisses
<1>7. CASE HubAsk
  BY <1>1, <1>7, HubAskEffect
<1>8. CASE HubGetsAnswer
  BY <1>1, <1>2, <1>8, HubGetsAnswerEffect
<1>9. CASE HubTimesOut
  BY <1>1, <1>2, <1>9, HubTimesOutEffect
<1>10. CASE HubStore
  BY <1>1, <1>2, <1>10, HubStoreEffect DEF HubSkips, HubFails, HubWrites
<1>11. CASE HubDone
  BY <1>1, <1>2, <1>11, HubDoneEffect DEF HubTells, HubIsSilent
<1>12. CASE DsReceive
  BY <1>1, <1>2, <1>12, DsReceiveEffect DEF DshTakes, DshRefuses
<1>13. CASE DsUpdate
  <2> DEFINE d == dsh.ask.dev
             u == dsh.ask.u
  <2>1. \/ NoneThere(d) \/ ConfRefused(d, u) \/ ConfSet(d, u) \/ Disabled(d, u) \/ Enabled(d, u)
        \/ NotConnected(d, u) \/ CannotReconnect(d, u)
    BY <1>13, DsUpdateEffect
  <2> HIDE DEF d, u
  <2> QED
    BY <1>1, <1>2, <2>1 DEF NoneThere, ConfRefused, ConfSet, Disabled, Enabled, NotConnected, CannotReconnect
<1>14. CASE DsGivesUp
  BY <1>1, <1>14, DsGivesUpEffect
<1>15. CASE DsLoad
  BY <1>1, <1>2, <1>15, DsLoadEffect DEF LoadEnds, LoadRefuses, LoadFails, LoadAdds
<1>16. CASE DsDisabled
  BY <1>1, <1>16, DsDisabledEffect
<1>17. CASE ClientLoads
  BY <1>2, <1>17, ClientLoadsEffect
<1>18. ASSUME NEW s \in Services, Manager(s) PROVE Grows
  BY <1>1, <1>2, <1>18, ParseUpdateEffect, ParseReloadEffect, GetConfigEffect DEF Manager
<1> QED
  BY <1>3, <1>4, <1>5, <1>6, <1>7, <1>8, <1>9, <1>10, <1>11, <1>12, <1>13, <1>14, <1>15, <1>16, <1>17, <1>18
  DEF Next, Hub, DsHandler, Done

LEMMA AwaitedNext ==
  ASSUME \A a: (\E i \in DOMAIN asks': asks'[i] = a) => IsAwaited(a)', \A a: dsh'.pc # "idle" /\ dsh'.ask = a => IsAwaited(a)'
  PROVE  AskedFor'
<1>1. ASSUME NEW i \in DOMAIN asks' PROVE IsAwaited(asks[i])'
  <2>1. PICK a: a = asks'[i]
    OBVIOUS
  <2>2. IsAwaited(a)'
    BY <2>1
  <2> QED
    BY <2>1, <2>2 DEF IsAwaited, IsAsked
<1>2. ASSUME dsh'.pc # "idle" PROVE IsAwaited(dsh.ask)'
  <2>1. PICK a: a = dsh'.ask
    OBVIOUS
  <2>2. IsAwaited(a)'
    BY <1>2, <2>1
  <2> QED
    BY <2>1, <2>2 DEF IsAwaited, IsAsked
<1> QED
  BY <1>1, <1>2 DEF AskedFor

LEMMA AskedKept ==
  ASSUME AskedFor, asks' = asks, dsh' = dsh \/ dsh' = Idle \/ (dsh.pc # "idle" /\ dsh'.ask = dsh.ask),
         \A a: IsAwaited(a) => IsAwaited(a)'
  PROVE  AskedFor'
<1>1. \A a: (\E i \in DOMAIN asks': asks'[i] = a) => IsAwaited(a)
  BY DEF AskedFor
<1>2. \A a: dsh'.pc # "idle" /\ dsh'.ask = a => IsAwaited(a)
  BY DEF AskedFor, Idle
<1> QED
  BY <1>1, <1>2, AwaitedNext

LEMMA AskedStep ==
  ASSUME Types, Ids, AskedFor, [Next]_vars
  PROVE  AskedFor'
<1>1. log.refused \subseteq log'.refused /\ log.late \subseteq log'.late
  BY LogGrows DEF Grows, LogFields
<1>2. CASE /\ hub' = hub \/ (hub'.pc = hub.pc /\ hub'.ask = hub.ask /\ hub'.dev = hub.dev /\ hub'.u = hub.u)
           /\ asks' = asks /\ (dsh' = dsh \/ dsh' = Idle \/ (dsh.pc # "idle" /\ dsh'.ask = dsh.ask))
  <2>1. \A a: IsAwaited(a) => IsAwaited(a)'
    BY <1>1, <1>2 DEF IsAsked, IsAwaited
  <2> QED
    BY <1>2, <2>1, AskedKept
<1>3. CASE hub.pc # "wait" /\ hub'.pc # "wait" /\ asks' = asks /\ dsh' = dsh
  <2>1. \A a: IsAwaited(a) => IsAwaited(a)'
    BY <1>1, <1>3 DEF IsAsked, IsAwaited
  <2> QED
    BY <1>3, <2>1, AskedKept
<1>4. CASE UNCHANGED vars
  BY <1>2, <1>4 DEF vars
<1>5. CASE Client
  BY <1>2, <1>5 DEF Client, SendRequest, NoSuchDevice, GetReply, ReplyTimesOut
<1>6. CASE HubReceive
  <2>1. hub.pc = "idle" /\ asks' = asks /\ dsh' = dsh /\ \E r: HubRefuses(r) \/ HubTakes(r) \/ HubReloads(r) \/ HubSets(r)
    BY <1>6, HubReceiveEffect
  <2>2. hub'.pc # "wait"
    <3>1. CASE \E r: HubRefuses(r)
      BY <2>1, <3>1 DEF HubRefuses, Idle
    <3>2. CASE \E r: HubTakes(r)
      BY <2>1, <3>2 DEF HubTakes
    <3>3. CASE \E r: HubReloads(r)
      BY <2>1, <3>3 DEF HubReloads
    <3>4. CASE \E r: HubSets(r)
      BY <2>1, <3>4 DEF HubSets
    <3> QED
      BY <2>1, <3>1, <3>2, <3>3, <3>4
  <2> QED
    BY <1>3, <2>1, <2>2
<1>7. CASE HubDevice
  <2>1. hub.pc = "next" /\ asks' = asks /\ dsh' = dsh /\ (HubMisses \/ \E d: HubStarts(d))
    BY <1>7, HubDeviceEffect
  <2>2. hub'.pc # "wait"
    <3>1. CASE HubMisses
      BY <2>1, <3>1 DEF HubMisses, Idle
    <3>2. CASE \E d: HubStarts(d)
      BY <2>1, <3>2 DEF HubStarts
    <3> QED
      BY <2>1, <3>1, <3>2
  <2> QED
    BY <1>3, <2>1, <2>2
<1>8. CASE HubAsk
  <2> DEFINE m == [id |-> fresh, dev |-> hub.dev, u |-> hub.u]
  <2>1. /\ hub.pc = "ask" /\ asks' = Append(asks, m) /\ m.id = fresh /\ m.dev = hub.dev /\ m.u = hub.u /\ dsh' = dsh
        /\ hub'.pc = "wait" /\ hub'.ask = fresh /\ hub'.dev = hub.dev /\ hub'.u = hub.u
    BY <1>8, HubAskEffect DEF RequestKept
  <2> HIDE DEF m
  <2>2. AsksOK /\ DshOK /\ FreshOK
    BY DEF Types, QueuesOK
  <2>3. ASSUME NEW a, a = m PROVE IsAwaited(a)'
    BY <2>1, <2>3 DEF IsAsked, IsAwaited
  <2>4. \A a: IsAsk(a) /\ IsAwaited(a) => IsAwaited(a)'
    <3>1. \A a: IsAsk(a) => a.id # fresh
      BY <2>2 DEF IsAsk, FreshOK
    <3> QED
      BY <1>1, <2>1, <3>1 DEF IsAsked, IsAwaited
  <2>5. /\ Len(asks) \in Nat /\ DOMAIN asks = 1..Len(asks) /\ DOMAIN asks' = 1..(Len(asks) + 1)
        /\ (\A i \in DOMAIN asks: asks'[i] = asks[i]) /\ asks'[Len(asks) + 1] = m
    BY <2>1, SeqAppend DEF Types, QueuesOK, AsksOK
  <2>6. \A i \in DOMAIN asks': (i \in DOMAIN asks /\ asks'[i] = asks[i]) \/ asks'[i] = m
    BY <2>5
  <2>7. \A a: (\E i \in DOMAIN asks': asks'[i] = a) => IsAwaited(a)'
    BY <2>2, <2>3, <2>4, <2>6 DEF AskedFor, AsksOK
  <2>8. \A a: dsh'.pc # "idle" /\ dsh'.ask = a => IsAwaited(a)'
    BY <2>1, <2>2, <2>4 DEF AskedFor, DshOK
  <2> QED
    BY <2>7, <2>8, AwaitedNext
<1>9. CASE HubGetsAnswer
  <2>1. hub.pc = "wait" /\ Answer(hub.ask) # {} /\ UNCHANGED <<asks, dsh>> /\ hub.ask \in 1..(fresh - 1) /\ hub'.pc # "wait"
    BY <1>9, HubGetsAnswerEffect, HubAtDevice
  <2>2. ~Holds(asks, hub.ask) /\ ~DshId(hub.ask)
    BY <2>1 DEF Ids, OnePlace
  <2> DEFINE Abandoned == log.refused \cap log.late
  <2>3. (\A i \in DOMAIN asks: asks[i].dev \in Abandoned) /\ (dsh.pc # "idle" => dsh.ask.dev \in Abandoned)
    BY <2>2 DEF AskedFor, IsAwaited, IsAsked, Holds, DshId
  <2>4. \A a: a.dev \in Abandoned => IsAwaited(a)'
    BY <1>1, <2>1 DEF IsAwaited, IsAsked
  <2>5. \A a: (\E i \in DOMAIN asks': asks'[i] = a) => a.dev \in Abandoned
    BY <2>1, <2>3
  <2>6. \A a: dsh'.pc # "idle" /\ dsh'.ask = a => a.dev \in Abandoned
    BY <2>1, <2>3
  <2> QED
    BY <2>4, <2>5, <2>6, AwaitedNext
<1>10. CASE HubTimesOut
  <2>1. hub.dev \in log'.refused /\ hub.dev \in log'.late /\ asks' = asks /\ dsh' = dsh /\ hub'.pc # "wait"
    BY <1>10, HubTimesOutEffect DEF Idle
  <2>2. \A a: IsAwaited(a) => IsAwaited(a)'
    BY <1>1, <2>1 DEF IsAsked, IsAwaited
  <2> QED
    BY <2>1, <2>2, AskedKept
<1>11. CASE HubStore
  <2>1. hub.pc = "ask" /\ asks' = asks /\ dsh' = dsh /\ (HubSkips \/ HubFails \/ \E e: HubWrites(e))
    BY <1>11, HubStoreEffect
  <2>2. hub'.pc # "wait"
    <3>1. CASE HubSkips
      BY <2>1, <3>1 DEF HubSkips
    <3>2. CASE HubFails
      BY <2>1, <3>2 DEF HubFails, Idle
    <3>3. CASE \E e: HubWrites(e)
      BY <2>1, <3>3 DEF HubWrites
    <3> QED
      BY <2>1, <3>1, <3>2, <3>3
  <2> QED
    BY <1>3, <2>1, <2>2
<1>12. CASE HubDone
  BY <1>3, <1>12, HubDoneEffect DEF Idle
<1>13. CASE DsReceive
  <2>1. /\ dsh.pc = "idle" /\ asks # <<>> /\ asks' = Tail(asks) /\ hub' = hub /\ IsSeq(asks)
        /\ DshTakes(Head(asks)) \/ DshRefuses(Head(asks))
    BY <1>13, DsReceiveEffect DEF Types, QueuesOK, AsksOK
  <2>2. /\ Head(asks) = asks[1] /\ 1 \in DOMAIN asks
        /\ \A i \in DOMAIN asks': asks'[i] = asks[i + 1] /\ i + 1 \in DOMAIN asks
    BY <2>1, SeqTail
  <2>3. \A a: IsAwaited(a) => IsAwaited(a)'
    BY <1>1, <2>1 DEF IsAsked, IsAwaited
  <2>4. \A a: (\E i \in DOMAIN asks': asks'[i] = a) => IsAwaited(a)'
    BY <2>2, <2>3 DEF AskedFor
  <2>5. dsh'.pc # "idle" => dsh'.ask = Head(asks)
    <3>1. CASE DshTakes(Head(asks))
      BY <3>1 DEF DshTakes
    <3>2. CASE DshRefuses(Head(asks))
      BY <2>1, <3>2 DEF DshRefuses
    <3> QED
      BY <2>1, <3>1, <3>2
  <2>6. \A a: dsh'.pc # "idle" /\ dsh'.ask = a => IsAwaited(a)'
    BY <2>2, <2>3, <2>5 DEF AskedFor
  <2> QED
    BY <2>4, <2>6, AwaitedNext
<1>14. CASE DsUpdate
  <2> DEFINE d == dsh.ask.dev
             u == dsh.ask.u
  <2>1. /\ dsh.pc = "update" /\ asks' = asks /\ hub' = hub
        /\ \/ NoneThere(d) \/ ConfRefused(d, u) \/ ConfSet(d, u) \/ Disabled(d, u) \/ Enabled(d, u)
           \/ NotConnected(d, u) \/ CannotReconnect(d, u)
    BY <1>14, DsUpdateEffect DEF DsHub
  <2> HIDE DEF d, u
  <2>2. CASE NotConnected(d, u)
    <3>1. dsh'.ask = dsh.ask
      BY <2>2 DEF NotConnected
    <3> QED
      BY <1>2, <2>1, <3>1
  <2>3. CASE ~NotConnected(d, u)
    <3>1. \E accepted: DsFinishes(accepted)
      BY <2>1, <2>3 DEF NoneThere, ConfRefused, ConfSet, Disabled, Enabled, CannotReconnect
    <3>2. dsh' = Idle
      BY <3>1 DEF DsFinishes
    <3> QED
      BY <1>2, <2>1, <3>2
  <2> QED
    BY <2>2, <2>3
<1>15. CASE DsGivesUp
  BY <1>2, <1>15, DsGivesUpEffect
<1>16. CASE DsLoad
  BY <1>2, <1>16, DsLoadEffect
<1>17. CASE DsDisabled
  BY <1>2, <1>17, DsDisabledEffect
<1>18. CASE ClientLoads
  BY <1>2, <1>18, ClientLoadsEffect
<1>19. ASSUME NEW s \in Services, Manager(s) PROVE AskedFor'
  <2>1. CASE ParseUpdate(s)
    BY <1>2, <2>1, ParseUpdateEffect
  <2>2. CASE ParseReload(s)
    <3>1. /\ asks' = asks /\ dsh' = dsh
          /\ hub' = hub \/ (hub'.pc = hub.pc /\ hub'.ask = hub.ask /\ hub'.dev = hub.dev /\ hub'.u = hub.u)
      BY <2>2, ParseReloadEffect DEF RequestKept
    <3> QED
      BY <1>2, <3>1
  <2>3. CASE GetConfig(s)
    BY <1>2, <2>3, GetConfigEffect
  <2> QED
    BY <1>19, <2>1, <2>2, <2>3 DEF Manager
<1> QED
  BY <1>4, <1>5, <1>6, <1>7, <1>8, <1>9, <1>10, <1>11, <1>12, <1>13, <1>14, <1>15, <1>16, <1>17, <1>18, <1>19
  DEF Next, Hub, DsHandler, Done
LEMMA AskedInit == Init => AskedFor /\ Carried
<1> SUFFICES ASSUME Init PROVE AskedFor /\ Carried
  OBVIOUS
<1>1. asks = <<>> /\ hub.pc = "idle" /\ dsh.pc = "idle"
  BY DEF Init, Idle
<1>2. DOMAIN asks = {}
  BY <1>1, EmptySequence
<1> QED
  BY <1>1, <1>2 DEF AskedFor, Carried

\* The handler's request and the entry that it holds stay as they are.
LEMMA CarriedKept ==
  ASSUME Carried, G \subseteq G', redis'.config = redis.config,
         \/ hub' = hub
         \/ /\ hub'.pc = hub.pc /\ hub'.req = hub.req /\ hub'.left = hub.left /\ hub'.stored = hub.stored /\ hub'.dev = hub.dev
            /\ hub'.u = hub.u /\ hub'.updated = hub.updated,
         hub.pc \in {"ask", "wait"} => Entry' = Entry \/ hub.dev \in G'
  PROVE  Carried'
<1>1. hub'.pc = hub.pc
  OBVIOUS
<1>2. ASSUME hub.pc # "idle" PROVE Placed' /\ Stored'
  <2>1. Placed /\ Stored /\ hub'.req = hub.req /\ hub'.left = hub.left /\ hub'.stored = hub.stored /\ hub'.dev = hub.dev
    BY <1>2 DEF Carried
  <2> QED
    BY <1>1, <2>1 DEF Placed, Stored, Keys
<1>3. ASSUME hub.pc \in {"ask", "wait"} PROVE Applied'
  <2>1. Applied /\ hub'.req = hub.req /\ hub'.dev = hub.dev /\ hub'.u = hub.u /\ hub'.updated = hub.updated
    BY <1>3 DEF Carried
  <2>2. CASE hub.dev \in G'
    BY <2>1, <2>2 DEF Applied
  <2>3. CASE Entry' = Entry
    BY <2>1, <2>3 DEF Applied, Keys
  <2> QED
    BY <1>3, <2>2, <2>3
<1> QED
  BY <1>1, <1>2, <1>3 DEF Carried

LEMMA IdleCarries ==
  ASSUME hub'.pc = "idle"
  PROVE  Carried'
  BY DEF Carried

LEMMA EntrySame ==
  ASSUME mgr'["hub"] = mgr["hub"], hub' = hub
  PROVE  Entry' = Entry
  BY DEF Entry, Attached, Devs

LEMMA HubReceiveCarries ==
  ASSUME Types, HubReceive
  PROVE  Carried'
<1> DEFINE r == Head(requests)
<1>1. hub.pc = "idle" /\ requests # <<>> /\ (HubRefuses(r) \/ HubTakes(r) \/ HubReloads(r) \/ HubSets(r))
  BY HubReceiveEffect
<1>2. CASE HubTakes(r)
  <2>1. hub'.pc = "next" /\ hub'.req = r /\ hub'.left = SetToSeq(DOMAIN r.us) /\ hub'.stored = {} /\ r.action = "update"
    BY <1>2 DEF HubTakes
  <2>2. DOMAIN r.us \subseteq Devices
    BY <1>1, <2>1, SeqTail DEF Types, QueuesOK, RequestsOK, IsSent, IsUpdates
  <2> HIDE DEF r
  <2>3. ToSet(SetToSeq(DOMAIN r.us)) = DOMAIN r.us
    BY <2>2, SetToSeqFacts
  <2>4. Placed' /\ Stored'
    BY <2>1, <2>3 DEF Placed, Stored
  <2> QED
    BY <2>1, <2>4 DEF Carried
<1>3. CASE ~HubTakes(r)
  <2>1. hub' = Idle \/ hub' = hub
    BY <1>1, <1>3 DEF HubRefuses, HubReloads, HubSets
  <2> QED
    BY <1>1, <2>1, IdleCarries DEF Idle
<1> QED
  BY <1>2, <1>3

LEMMA HubDeviceCarries ==
  ASSUME Types, Carried, HubDevice
  PROVE  Carried'
<1> DEFINE d == Head(hub.left)
<1>1. hub.pc = "next" /\ hub.left # <<>> /\ redis' = redis /\ (HubStarts(d) \/ HubMisses)
  BY HubDeviceEffect
<1>2. CASE HubStarts(d)
  <2>1. Placed /\ Stored
    BY <1>1 DEF Carried
  <2>2. ToSet(Tail(hub.left)) = ToSet(hub.left) \ {d}
    BY <1>1, HubBusy, TailOfLeft DEF Types
  <2>3. /\ hub'.pc = "ask" /\ hub'.req = hub.req /\ hub'.left = Tail(hub.left)
        /\ hub'.dev = d /\ hub'.u = hub.req.us[d] /\ hub'.stored = hub.stored /\ log' = log
    BY <1>2 DEF HubStarts
  <2> HIDE DEF d
  <2>4. Placed'
    BY <1>1, <2>1, <2>2, <2>3 DEF Placed, G, Keys
  <2>5. Stored'
    BY <1>1, <2>1, <2>3 DEF Stored, G, Keys
  <2>6. Applied'
    BY <2>3 DEF Applied, Keys
  <2> QED
    BY <2>3, <2>4, <2>5, <2>6 DEF Carried
<1>3. CASE HubMisses
  BY <1>3, IdleCarries DEF HubMisses, Idle
<1> QED
  BY <1>1, <1>2, <1>3

LEMMA HubAskCarries ==
  ASSUME Types, Carried, HubAsk
  PROVE  Carried'
<1>1. /\ hub.pc = "ask" /\ redis' = redis /\ log' = log /\ RequestKept /\ hub'.pc = "wait" /\ hub'.updated = hub.updated
      /\ hub'.stored = hub.stored /\ hub'.u = hub.u
  BY HubAskEffect
<1>2. PICK e: HubHolds(e) /\ \A k \in Fields: e[k] = Entry[k] \/ (k \in Keys(hub.u) /\ e[k] = hub.u[k])
  BY HubAskEffect
<1>3. Placed /\ Stored /\ Applied /\ G' = G
  BY <1>1 DEF Carried, G
<1>4. Placed' /\ Stored'
  BY <1>1, <1>3 DEF Placed, Stored, RequestKept, Keys
<1>5. \A k \in Fields \ Keys(hub.u): Entry'[k] = Entry[k]
  BY <1>2 DEF HubHolds
<1>6. Applied'
  BY <1>1, <1>3, <1>5 DEF Applied, RequestKept, Keys
<1> QED
  BY <1>1, <1>4, <1>6 DEF Carried

LEMMA HubGetsAnswerCarries ==
  ASSUME Types, Carried, Grows, HubGetsAnswer
  PROVE  Carried'
<1>1. /\ hub.pc = "wait" /\ redis' = redis /\ RequestKept /\ hub'.pc = "ask" /\ hub'.stored = hub.stored
      /\ hub'.updated = (Answer(hub.ask) = {TRUE})
      /\ IF hub'.updated THEN log' = log ELSE LogKeeps({"refused"}) /\ log'.refused = log.refused \cup {hub.dev}
  BY HubGetsAnswerEffect
<1>2. PICK e: \E k \in {"conf", "enabled"}: /\ HubHolds(e) /\ k \in Keys(hub.u) /\ hub'.u = Without(hub.u, k)
                                             /\ \A x \in Fields: e[x] = IF x = k THEN hub.u[x] ELSE Entry[x]
  BY HubGetsAnswerEffect
<1>3. PICK k \in {"conf", "enabled"}: /\ HubHolds(e) /\ k \in Keys(hub.u) /\ hub'.u = Without(hub.u, k)
                                      /\ \A x \in Fields: e[x] = IF x = k THEN hub.u[x] ELSE Entry[x]
  BY <1>2
<1>4. Placed /\ Stored /\ Applied /\ G \subseteq G'
  BY <1>1 DEF Carried, G, Grows, LogFields
<1>5. Placed' /\ Stored'
  BY <1>1, <1>4 DEF Placed, Stored, RequestKept, Keys
<1>6. Keys(hub'.u) = Keys(hub.u) \ {k} /\ hub.u[k] = hub.req.us[hub.dev][k]
  <2>1. IsUpdate(hub.u) /\ \A x \in Keys(hub.u): hub.u[x] = hub.req.us[hub.dev][x]
    BY <1>1, HubAtDevice
  <2> QED
    BY <1>3, <2>1, WithoutUpdate
<1>7. hub.dev \notin G' => hub'.updated
  BY <1>1 DEF G
<1>8. \A x \in Fields: Entry'[x] = IF x = k THEN hub.u[x] ELSE Entry[x]
  BY <1>3 DEF HubHolds
<1>9. Applied'
  <2>1. hub'.req = hub.req /\ hub'.dev = hub.dev
    BY <1>1 DEF RequestKept
  <2>2. ASSUME hub.dev \notin G', NEW x \in (Keys(hub.req.us[hub.dev]) \ (Keys(hub.u) \ {k})) \cap Fields
        PROVE  Entry'[x] = hub.req.us[hub.dev][x]
    BY <1>4, <1>6, <1>8, <2>2 DEF Applied
  <2> QED
    BY <1>6, <1>7, <2>1, <2>2 DEF Applied, Keys
<1> QED
  BY <1>1, <1>5, <1>9 DEF Carried

LEMMA HubStoreCarries ==
  ASSUME Types, Carried, Grows, HubStore
  PROVE  Carried'
<1> DEFINE e == Apply(Entry, hub.u)
<1>1. /\ hub.pc = "ask" /\ (HubSkips \/ HubFails \/ HubWrites(e))
      /\ \A k \in Fields: e[k] = IF k \in Keys(hub.u) THEN hub.u[k] ELSE Entry[k]
  BY HubStoreEffect
<1> HIDE DEF e
<1>2. /\ Placed /\ Stored /\ Applied /\ G \subseteq G' /\ hub.dev \in DOMAIN hub.req.us \ (ToSet(hub.left) \cup hub.stored)
      /\ \A k \in Keys(hub.u): hub.u[k] = hub.req.us[hub.dev][k]
  BY <1>1, HubAtDevice DEF Carried, G, Grows, LogFields
<1>3. CASE HubSkips
  <2>1. /\ ~hub.updated /\ Keys(hub.u) = {} /\ RequestKept /\ hub'.pc = "next" /\ hub'.stored = hub.stored
        /\ redis' = redis
    BY <1>3 DEF HubSkips
  <2>2. hub.dev \in G \/ Keys(hub.req.us[hub.dev]) = {}
    BY <1>2, <2>1 DEF Applied
  <2>3. Placed'
    BY <1>2, <2>1, <2>2 DEF Placed, RequestKept, Keys
  <2>4. Stored'
    BY <1>2, <2>1 DEF Stored, RequestKept, Keys
  <2> QED
    BY <2>1, <2>3, <2>4 DEF Carried
<1>4. CASE HubWrites(e)
  <2>1. /\ Stores(e) /\ RequestKept /\ hub'.pc = "next" /\ hub'.stored = hub.stored \cup {hub.dev}
    BY <1>4 DEF HubWrites
  <2>2. hub'.req = hub.req /\ hub'.left = hub.left
    BY <2>1 DEF RequestKept
  <2>3. Placed'
    BY <1>2, <2>1, <2>2 DEF Placed, Keys
  <2>4. ASSUME NEW d \in hub'.stored \ G'
        PROVE  d \in DOMAIN redis'.config /\ \A k \in Keys(hub.req.us[d]) \cap Fields: redis'.config[d][k] = hub.req.us[d][k]
    <3>1. CASE d = hub.dev
      BY <1>1, <1>2, <2>1, <3>1 DEF Stores, Applied
    <3>2. CASE d # hub.dev
      BY <1>2, <2>1, <2>4, <3>2 DEF Stores, Stored
    <3> QED
      BY <3>1, <3>2
  <2>5. Stored'
    BY <2>2, <2>4 DEF Stored, Keys
  <2> QED
    BY <2>1, <2>3, <2>5 DEF Carried
<1>5. CASE HubFails
  BY <1>5, IdleCarries DEF HubFails, Idle
<1> QED
  BY <1>1, <1>3, <1>4, <1>5

\* SciHub's handler, if it does a step, stays where it is.
HubThere ==
  hub'.pc = hub.pc /\ hub'.req = hub.req /\ hub'.left = hub.left /\ hub'.dev = hub.dev /\ hub'.u = hub.u
    /\ hub'.ask = hub.ask /\ hub'.stored = hub.stored /\ hub'.updated = hub.updated

\* A broadcast that changes the entry that the handler holds makes it stale.
LEMMA ManagerEntry ==
  ASSUME Types, NEW s \in Services, Manager(s)
  PROVE  /\ redis' = redis /\ HubThere
         /\ hub.pc \in {"ask", "wait"} => Entry' = Entry \/ hub.dev \in log'.stale
<1>1. s # "hub" /\ "hub" \in Services /\ Only(s) => mgr'["hub"] = mgr["hub"]
  BY DEF Only
<1>2. CASE ParseUpdate(s)
  <2> DEFINE us == Head(inbox[s]).us
  <2>1. hub' = hub /\ redis' = redis /\ Only(s) /\ mgr'[s].gen = mgr[s].gen
    BY <1>2, ParseUpdateEffect
  <2>2. /\ mgr'[s].devs = ApplyTo(mgr[s].devs, us) \/ mgr'[s].devs = mgr[s].devs
        /\ s = "hub" /\ Changed(us) => log'.stale = log.stale \cup {hub.dev}
    BY <1>2, ParseUpdateEffect
  <2> HIDE DEF us
  <2>3. ASSUME hub.pc \in {"ask", "wait"} PROVE Entry' = Entry \/ hub.dev \in log'.stale
    <3>1. CASE s # "hub"
      BY <1>1, <2>1, <3>1, EntrySame DEF Services
    <3>2. CASE s = "hub" /\ Changed(us)
      BY <2>2, <3>2
    <3>3. CASE s = "hub" /\ ~Changed(us)
      <4>1. ~Attached \/ ApplyTo(Devs("hub"), us)[hub.dev] = Entry
        BY <2>3, <3>3 DEF Changed
      <4>2. (Attached' <=> Attached) /\ hub'.entry = hub.entry /\ hub'.dev = hub.dev
        BY <2>1, <3>3 DEF Attached
      <4> QED
        BY <2>2, <3>3, <4>1, <4>2 DEF Entry, Devs
    <3> QED
      BY <3>1, <3>2, <3>3
  <2> QED
    BY <2>1, <2>3 DEF HubThere
<1>3. CASE ParseReload(s)
  <2>1. /\ redis' = redis /\ Only(s) /\ mgr'[s].gen = mgr[s].gen + 1
        /\ \/ hub' = hub /\ (s # "hub" \/ hub.pc \notin {"ask", "wait"})
           \/ HubThere /\ hub'.gen = hub.gen /\ hub'.entry = Entry /\ s = "hub"
    BY <1>3, ParseReloadEffect DEF RequestKept, HubThere
  <2>2. ASSUME hub.pc \in {"ask", "wait"} PROVE Entry' = Entry
    <3>1. CASE s # "hub"
      BY <1>1, <2>1, <3>1, EntrySame DEF Services
    <3>2. CASE s = "hub"
      <4>1. hub'.gen = hub.gen /\ hub'.entry = Entry
        BY <2>1, <2>2, <3>2
      <4>2. hub.gen \in 0..mgr["hub"].gen /\ mgr["hub"].gen \in Nat /\ hub.gen \in Nat
        BY <2>2, HubAtDevice
      <4>3. hub.gen # mgr["hub"].gen + 1
        BY <4>2
      <4>4. ~Attached'
        BY <2>1, <3>2, <4>1, <4>3 DEF Attached
      <4> QED
        BY <4>1, <4>4 DEF Entry
    <3> QED
      BY <3>1, <3>2
  <2> QED
    BY <2>1, <2>2 DEF HubThere
<1>4. CASE GetConfig(s)
  <2>1. hub' = hub /\ redis' = redis /\ Only(s) /\ mgr[s].load = "flushed" /\ mgr'[s].gen = mgr[s].gen
    BY <1>4, GetConfigEffect
  <2>2. ASSUME hub.pc \in {"ask", "wait"} PROVE Entry' = Entry
    <3>1. CASE s # "hub"
      BY <1>1, <2>1, <3>1, EntrySame DEF Services
    <3>2. CASE s = "hub"
      <4>1. DOMAIN mgr["hub"].devs = {}
        BY <2>1, <3>2 DEF Types, ManagersOK
      <4>2. ~Attached
        BY <2>2, <4>1, HubAtDevice DEF Attached
      <4>3. ~Attached'
        BY <2>1, <3>2, <4>2 DEF Attached
      <4> QED
        BY <2>1, <4>2, <4>3 DEF Entry
    <3> QED
      BY <3>1, <3>2
  <2> QED
    BY <2>1, <2>2 DEF HubThere
<1> QED
  BY <1>2, <1>3, <1>4 DEF Manager

LEMMA ManagerCarries ==
  ASSUME Types, Carried, Grows, NEW s \in Services, Manager(s)
  PROVE  Carried'
<1>1. /\ G \subseteq G' /\ log'.stale \subseteq G' /\ redis' = redis /\ HubThere
      /\ hub.pc \in {"ask", "wait"} => Entry' = Entry \/ hub.dev \in log'.stale
  BY ManagerEntry DEF G, Grows, LogFields
<1> QED
  BY <1>1, CarriedKept DEF HubThere

LEMMA CarriedStep ==
  ASSUME Types, Carried, [Next]_vars
  PROVE  Carried'
<1>1. Grows /\ G \subseteq G'
  BY LogGrows DEF Grows, LogFields, G
<1>2. CASE hub' = hub /\ redis'.config = redis.config /\ mgr'["hub"] = mgr["hub"]
  BY <1>1, <1>2, CarriedKept, EntrySame
<1>3. CASE hub' = hub /\ redis'.config = redis.config /\ (Only("ds") \/ Only("client"))
  BY <1>2, <1>3 DEF Only, Services
<1>4. CASE UNCHANGED vars
  BY <1>2, <1>4 DEF vars
<1>5. CASE Client
  <2>1. CASE SendRequest
    <3>1. UNCHANGED <<hub, redis>> /\ (Only("client") \/ mgr' = mgr)
      BY <2>1, SendRequestEffect
    <3> QED
      BY <1>2, <1>3, <3>1
  <2> QED
    BY <1>2, <1>5, <2>1 DEF Client, NoSuchDevice, GetReply, ReplyTimesOut
<1>6. CASE HubReceive
  BY <1>6, HubReceiveCarries
<1>7. CASE HubDevice
  BY <1>7, HubDeviceCarries
<1>8. CASE HubAsk
  BY <1>8, HubAskCarries
<1>9. CASE HubGetsAnswer
  BY <1>1, <1>9, HubGetsAnswerCarries
<1>10. CASE HubTimesOut
  BY <1>10, HubTimesOutEffect, IdleCarries DEF Idle
<1>11. CASE HubStore
  BY <1>1, <1>11, HubStoreCarries
<1>12. CASE HubDone
  BY <1>12, HubDoneEffect, IdleCarries DEF Idle
<1>13. CASE DsReceive \/ DsGivesUp
  BY <1>2, <1>13, DsReceiveEffect, DsGivesUpEffect
<1>14. CASE DsUpdate
  BY <1>3, <1>14, DsUpdateEffect, DsUpdateTypes DEF DsHub
<1>15. CASE DsLoad
  <2>1. /\ hub' = hub
        /\ LoadEnds \/ \E d \in Devices: LET e == mgr["ds"].session[d] IN LoadRefuses(d) \/ LoadFails(d, e) \/ LoadAdds(d, e)
    BY <1>15, DsLoadEffect
  <2>2. CASE LoadEnds
    BY <1>3, <2>1, <2>2 DEF LoadEnds
  <2>3. ASSUME NEW d \in Devices, NEW e, LoadRefuses(d) \/ LoadFails(d, e) \/ LoadAdds(d, e)
        PROVE  redis'.config = redis.config /\ Only("ds")
    <3>1. Takes(d) /\ (redis' = redis \/ Informs(d))
      BY <2>3 DEF LoadRefuses, LoadFails, LoadAdds
    <3> QED
      BY <3>1 DEF Takes, Informs
  <2> QED
    BY <1>3, <2>1, <2>2, <2>3
<1>16. CASE DsDisabled
  BY <1>3, <1>16, DsDisabledEffect
<1>17. CASE ClientLoads
  BY <1>3, <1>17, ClientLoadsEffect
<1>18. ASSUME NEW s \in Services, Manager(s) PROVE Carried'
  BY <1>1, <1>18, ManagerCarries
<1> QED
  BY <1>4, <1>5, <1>6, <1>7, <1>8, <1>9, <1>10, <1>11, <1>12, <1>13, <1>14, <1>15, <1>16, <1>17, <1>18
  DEF Next, Hub, DsHandler, Done

LEMMA CarriedIsStored == Types /\ Carried => AcceptedIsStored
<1> SUFFICES ASSUME Types, Carried, hub.pc = "next", hub.left = <<>>, hub.updated,
                    NEW d \in DOMAIN hub.req.us \ (log.refused \cup log.stale), Keys(hub.req.us[d]) # {}
             PROVE  d \in DOMAIN redis.config /\ Apply(redis.config[d], hub.req.us[d]) = redis.config[d]
  BY DEF AcceptedIsStored
<1>1. ToSet(hub.left) = {}
  BY EmptySequence
<1>2. d \in hub.stored /\ d \notin G /\ Stored
  BY <1>1 DEF Carried, Placed, G
<1>3. d \in DOMAIN redis.config /\ \A k \in Keys(hub.req.us[d]) \cap Fields: redis.config[d][k] = hub.req.us[d][k]
  BY <1>2 DEF Stored
<1> DEFINE e == redis.config[d]
           u == hub.req.us[d]
<1>4. IsEntry(e) /\ IsUpdate(u)
  BY <1>3, HubBusy DEF Types, RedisOK, IsConfig
<1>5. IsEntry(Apply(e, u)) /\ \A k \in Fields: Apply(e, u)[k] = IF k \in Keys(u) THEN u[k] ELSE e[k]
  BY <1>4, ApplyEntry
<1>6. \A k \in Fields: Apply(e, u)[k] = e[k]
  BY <1>3, <1>5
<1> QED
  BY <1>3, <1>4, <1>5, <1>6, EntryEquals

Requested == Accounts /\ AskedFor /\ Carried
LEMMA RequestedHolds == Spec => []Requested
<1>1. Init => AskedFor /\ Carried
  BY AskedInit
<1>2. Accounts /\ AskedFor /\ Carried /\ [Next]_vars => AskedFor' /\ Carried'
  BY AskedStep, CarriedStep DEF Accounts
<1> QED
  BY <1>1, <1>2, AccountsHold, PTL DEF Spec, Requested

\* While SciHub and the device server live, no request is lost: when nothing is on its way
\* any more, each one was answered, but for an update of which the last device was not
\* updated. An update that is accepted has been stored for each of its devices, but for those
\* that the device server refused and those that changed under the handler's hands.
THEOREM EachRequestIsAnswered == Spec => []EachIsAnswered
<1>1. Requested => EachIsAnswered
  BY AccountedAreAnswered, CarriedIsStored DEF Requested, Accounts, EachIsAnswered
<1> QED
  BY <1>1, RequestedHolds, PTL

-----------------------------------------------------------------------------
(* The latest message about a key has the value that is stored.            *)

LEMMA MessagesInit == Init => Messages
  <1>1. ASSUME Init, NEW s \in Services PROVE DOMAIN inbox[s] = {}
    <2>1. inbox[s] = <<>>
      BY <1>1 DEF Init
    <2> QED
      BY <2>1, EmptySequence
  <1> QED
    BY <1>1 DEF Messages

LEMMA MessagesKept ==
  ASSUME Messages, inbox' = inbox, F \subseteq F', \A s \in Services: mgr'[s].alive => mgr[s].alive,
         \A d \in Devices \ F': \A k \in Fields:
           /\ Pending(d, k) => Pending(d, k)'
           /\ \/ Pending(d, k)'
              \/ d \in DOMAIN redis.config => d \in DOMAIN redis'.config /\ redis'.config[d][k] = redis.config[d][k]
  PROVE  Messages'
<1> SUFFICES ASSUME NEW s \in Services, mgr'[s].alive, NEW i \in DOMAIN inbox[s], NEW d \in Devices \ F', NEW k \in Fields
             PROVE  MessageOK(s, i, d, k)'
  BY DEF Messages
<1>1. MessageOK(s, i, d, k)
  BY DEF Messages
<1>2. Superseded(s, i, d, k) => Superseded(s, i, d, k)'
  BY DEF Superseded
<1>3. Matches(s, i, d, k) => Pending(d, k)' \/ Matches(s, i, d, k)'
  BY DEF Matches
<1> QED
  BY <1>1, <1>2, <1>3 DEF MessageOK

LEMMA MessagesHandled ==
  ASSUME Types, Messages, NEW s \in Services, Handles(s), F \subseteq F', \A t \in Services: mgr'[t].alive => mgr[t].alive,
         redis' = redis, \A d, k: Pending(d, k) => Pending(d, k)'
  PROVE  Messages'
<1> SUFFICES ASSUME NEW t \in Services, mgr'[t].alive, NEW i \in DOMAIN inbox'[t], NEW d \in Devices \ F', NEW k \in Fields
             PROVE  MessageOK(t, i, d, k)'
  BY DEF Messages
<1>1. mgr[t].alive /\ d \in Devices \ F
  OBVIOUS
<1>2. CASE t # s
  <2>1. inbox'[t] = inbox[t]
    BY <1>2 DEF Handles
  <2>2. MessageOK(t, i, d, k)
    BY <1>1, <2>1 DEF Messages
  <2>3. (Superseded(t, i, d, k) => Superseded(t, i, d, k)') /\ (Matches(t, i, d, k) => Matches(t, i, d, k)')
    BY <2>1 DEF Superseded, Matches
  <2> QED
    BY <2>1, <2>2, <2>3 DEF MessageOK
<1>3. CASE t = s
  <2> DEFINE q == inbox[s]
  <2>1. IsSeq(q) /\ q # <<>> /\ inbox'[s] = Tail(q)
    BY DEF Handles, Types, InboxOK
  <2>2. /\ Len(q) \in Nat \ {0} /\ DOMAIN q = 1..Len(q) /\ DOMAIN Tail(q) = 1..(Len(q) - 1)
        /\ \A j \in DOMAIN Tail(q): Tail(q)[j] = q[j + 1] /\ j + 1 \in DOMAIN q
        /\ \A j \in DOMAIN q: j # 1 => j - 1 \in DOMAIN Tail(q) /\ Tail(q)[j - 1] = q[j]
    BY <2>1, SeqTail
  <2>3. i + 1 \in DOMAIN inbox[s] /\ inbox'[s][i] = inbox[s][i + 1] /\ i \in Nat
    BY <1>3, <2>1, <2>2
  <2>4. MessageOK(s, i + 1, d, k)
    BY <1>1, <1>3, <2>3 DEF Messages
  <2>5. ASSUME Superseded(s, i + 1, d, k) PROVE Superseded(s, i, d, k)'
    <3>1. PICK j \in DOMAIN q: j > i + 1 /\ (q[j].action = "reload" \/ Mentions(q[j], d, k))
      BY <2>5 DEF Superseded
    <3>2. j - 1 \in DOMAIN inbox'[s] /\ inbox'[s][j - 1] = q[j] /\ j - 1 > i
      BY <2>1, <2>2, <2>3, <3>1
    <3> QED
      BY <3>1, <3>2 DEF Superseded, Mentions, Keys
  <2>6. Matches(s, i + 1, d, k) => Matches(s, i, d, k)'
    BY <2>3 DEF Matches
  <2>7. Mentions(inbox[s][i], d, k)' => Mentions(inbox[s][i + 1], d, k)
    BY <2>3 DEF Mentions, Keys
  <2> QED
    BY <1>3, <2>4, <2>5, <2>6, <2>7 DEF MessageOK
<1> QED
  BY <1>2, <1>3

LEMMA BroadcastEffect ==
  ASSUME Types, NEW m, Broadcast(m), NEW s \in Services, mgr[s].alive
  PROVE  LET n == Len(inbox[s]) IN
         /\ n \in Nat /\ DOMAIN inbox[s] = 1..n /\ DOMAIN inbox'[s] = 1..(n + 1) /\ inbox'[s][n + 1] = m
         /\ n + 1 \in DOMAIN inbox'[s] /\ \A i \in DOMAIN inbox[s]: i \in DOMAIN inbox'[s] /\ inbox'[s][i] = inbox[s][i] /\ n + 1 > i
<1>1. inbox'[s] = Append(inbox[s], m) /\ IsSeq(inbox[s])
  BY DEF Broadcast, Types, InboxOK
<1> DEFINE n == Len(inbox[s])
<1>2. /\ n \in Nat /\ DOMAIN inbox[s] = 1..n /\ DOMAIN inbox'[s] = 1..(n + 1) /\ inbox'[s][n + 1] = m
      /\ \A i \in DOMAIN inbox[s]: inbox'[s][i] = inbox[s][i]
  BY <1>1, SeqAppend
<1> HIDE DEF n
<1>3. n + 1 \in DOMAIN inbox'[s] /\ \A i \in DOMAIN inbox[s]: i \in DOMAIN inbox'[s] /\ n + 1 > i
  BY <1>2
<1> QED
  BY <1>2, <1>3 DEF n

\* A reload makes the earlier messages void.
LEMMA MessagesReload ==
  ASSUME Types, Broadcast([action |-> "reload"]), \A s \in Services: mgr'[s].alive => mgr[s].alive
  PROVE  Messages' /\ \A s \in Services: mgr'[s].alive => Reloads(s)'
<1> DEFINE m == [action |-> "reload"]
<1>1. m.action = "reload" /\ Broadcast(m)
  OBVIOUS
<1> HIDE DEF m
<1>2. ASSUME NEW s \in Services, mgr[s].alive
      PROVE  /\ Reloads(s)'
             /\ \A i \in DOMAIN inbox'[s], d \in Devices, k \in Fields: MessageOK(s, i, d, k)'
  <2> DEFINE n == Len(inbox[s])
  <2>1. /\ n \in Nat /\ DOMAIN inbox[s] = 1..n /\ DOMAIN inbox'[s] = 1..(n + 1) /\ inbox'[s][n + 1] = m
        /\ n + 1 \in DOMAIN inbox'[s]
    BY <1>1, <1>2, BroadcastEffect
  <2> HIDE DEF n
  <2>2. Reloads(s)'
    BY <1>1, <2>1 DEF Reloads
  <2>3. ASSUME NEW i \in DOMAIN inbox'[s], NEW d \in Devices, NEW k \in Fields PROVE MessageOK(s, i, d, k)'
    <3>1. CASE i = n + 1
      BY <1>1, <2>1, <3>1 DEF MessageOK, Mentions
    <3>2. CASE i # n + 1
      <4>1. n + 1 > i
        BY <2>1, <3>2
      <4> QED
        BY <1>1, <2>1, <4>1 DEF MessageOK, Superseded
    <3> QED
      BY <3>1, <3>2
  <2> QED
    BY <2>2, <2>3
<1> QED
  BY <1>2 DEF Messages

LEMMA HubDoneMessages ==
  ASSUME Types, Carried, Messages, HubDone, F \subseteq F'
  PROVE  Messages'
<1>1. /\ hub.pc = "next" /\ hub.left = <<>> /\ hub' = Idle /\ UNCHANGED <<mgr, redis>> /\ (HubTells \/ HubIsSilent)
  BY HubDoneEffect
<1>2. CASE HubIsSilent
  <2>1. inbox' = inbox /\ log'.torn = log.torn \cup hub.stored
    BY <1>2 DEF HubIsSilent
  <2>2. \A d \in Devices \ F': \A k \in Fields: ~Pending(d, k)
    BY <2>1 DEF Pending, F
  <2> QED
    BY <1>1, <2>1, <2>2, MessagesKept
<1>3. CASE HubTells
  <2> DEFINE m == [action |-> "update", us |-> hub.req.us]
  <2>1. Broadcast(m) /\ m.action = "update" /\ m.us = hub.req.us
    BY <1>3 DEF HubTells
  <2> HIDE DEF m
  <2>2. ASSUME NEW d \in DOMAIN hub.req.us \ F, NEW k \in Keys(hub.req.us[d]) \cap Fields
        PROVE  d \in DOMAIN redis.config /\ redis.config[d][k] = hub.req.us[d][k]
    <3>1. Placed /\ Stored /\ ToSet(hub.left) = {} /\ d \notin G
      BY <1>1, EmptySequence DEF Carried, F, G
    <3>2. d \in hub.stored
      BY <1>1, <3>1 DEF Placed
    <3> QED
      BY <3>1, <3>2 DEF Stored
  <2> SUFFICES ASSUME NEW s \in Services, mgr[s].alive, NEW i \in DOMAIN inbox'[s], NEW d \in Devices \ F', NEW k \in Fields
               PROVE  MessageOK(s, i, d, k)'
    BY <1>1 DEF Messages
  <2> DEFINE n == Len(inbox[s])
  <2>3. /\ n \in Nat /\ DOMAIN inbox[s] = 1..n /\ DOMAIN inbox'[s] = 1..(n + 1) /\ inbox'[s][n + 1] = m
        /\ n + 1 \in DOMAIN inbox'[s] /\ \A j \in DOMAIN inbox[s]: j \in DOMAIN inbox'[s] /\ inbox'[s][j] = inbox[s][j] /\ n + 1 > j
    BY <2>1, BroadcastEffect
  <2> HIDE DEF n
  <2>4. CASE i = n + 1
    <3>1. inbox'[s][i] = m
      BY <2>3, <2>4
    <3>2. Mentions(inbox[s][i], d, k)' => d \in DOMAIN hub.req.us /\ k \in Keys(hub.req.us[d])
      BY <2>1, <3>1 DEF Mentions, Keys
    <3>3. Mentions(inbox[s][i], d, k)' => Matches(s, i, d, k)'
      BY <1>1, <2>1, <2>2, <3>1, <3>2 DEF Matches
    <3> QED
      BY <3>3 DEF MessageOK
  <2>5. CASE i # n + 1
    <3>1. i \in DOMAIN inbox[s] /\ inbox'[s][i] = inbox[s][i]
      BY <2>3, <2>5
    <3>2. MessageOK(s, i, d, k)
      BY <3>1 DEF Messages
    <3>3. Superseded(s, i, d, k) => Superseded(s, i, d, k)'
      BY <2>3, <3>1 DEF Superseded, Mentions, Keys
    <3>4. Pending(d, k) => Superseded(s, i, d, k)'
      <4>1. ASSUME Pending(d, k) PROVE d \in DOMAIN m.us /\ k \in Keys(m.us[d])
        BY <1>1, <2>1, <4>1, HubBusy DEF Pending, Types
      <4> QED
        BY <2>1, <2>3, <3>1, <4>1 DEF Superseded, Mentions, Keys
    <3>5. Matches(s, i, d, k) => Matches(s, i, d, k)'
      BY <1>1, <3>1 DEF Matches
    <3>6. Mentions(inbox[s][i], d, k)' => Mentions(inbox[s][i], d, k)
      BY <3>1 DEF Mentions, Keys
    <3> QED
      BY <3>2, <3>3, <3>4, <3>5, <3>6 DEF MessageOK
  <2> QED
    BY <2>4, <2>5
<1> QED
  BY <1>1, <1>2, <1>3
LEMMA PendingKept ==
  ASSUME hub.pc = "idle" \/ (hub'.pc # "idle" /\ hub'.req = hub.req /\ hub.stored \subseteq hub'.stored)
  PROVE  \A d, k: Pending(d, k) => Pending(d, k)'
  BY DEF Pending, Keys

LEMMA PendingTorn ==
  ASSUME hub.stored \subseteq log'.torn
  PROVE  \A d \in Devices \ F': \A k: ~Pending(d, k)
  BY DEF Pending, F

\* What is stored over another key than those of the request is what was there.
LEMMA HubWritesEffect ==
  ASSUME Types, HubStore, NEW e, HubWrites(e), NEW d \in Devices \ F', NEW k \in Fields
  PROVE  /\ d \in DOMAIN redis.config => d \in DOMAIN redis'.config
         /\ d # hub.dev /\ d \in DOMAIN redis.config => redis'.config[d] = redis.config[d]
         /\ d = hub.dev => /\ ~Overwritten(e) /\ redis'.config[d] = e /\ d \in DOMAIN redis.config
                           /\ k \notin Keys(hub.req.us[d]) => e[k] = redis.config[d][k]
                           /\ k \in Keys(hub.req.us[d]) => Pending(d, k)'
<1>1. Stores(e) /\ RequestKept /\ hub'.pc = "next" /\ hub'.stored = hub.stored \cup {hub.dev}
  BY DEF HubWrites
<1>2. ASSUME d = hub.dev PROVE ~Overwritten(e)
  <2>1. log'.stale \subseteq F'
    BY DEF F
  <2> QED
    BY <1>2, <2>1 DEF HubWrites
<1>3. DOMAIN e = Fields
  BY <1>1 DEF Stores, IsEntry, Fields
<1>4. d = hub.dev /\ k \notin Keys(hub.req.us[d]) => e[k] = redis.config[d][k]
  BY <1>2, <1>3 DEF Overwritten
<1>5. d = hub.dev /\ k \in Keys(hub.req.us[d]) => Pending(d, k)'
  BY <1>1 DEF Pending, RequestKept, Keys
<1> QED
  BY <1>1, <1>2, <1>4, <1>5 DEF Stores

LEMMA HubMessages ==
  ASSUME Types, Carried, Messages, Hub, F \subseteq F'
  PROVE  Messages'
<1>1. CASE HubReceive
  <2> DEFINE r == Head(requests)
  <2>1. hub.pc = "idle" /\ mgr' = mgr /\ (HubRefuses(r) \/ HubTakes(r) \/ HubReloads(r) \/ HubSets(r))
    BY <1>1, HubReceiveEffect
  <2> HIDE DEF r
  <2>2. CASE HubRefuses(r) \/ HubTakes(r)
    <3>1. UNCHANGED <<inbox, redis>>
      BY <2>2 DEF HubRefuses, HubTakes
    <3> QED
      BY <2>1, <3>1, PendingKept, MessagesKept
  <2>3. CASE HubReloads(r) \/ HubSets(r)
    BY <2>1, <2>3, MessagesReload DEF HubReloads, HubSets
  <2> QED
    BY <2>1, <2>2, <2>3
<1>2. CASE HubDevice
  <2>1. hub.pc = "next" /\ UNCHANGED <<inbox, mgr, redis>> /\ (HubStarts(Head(hub.left)) \/ HubMisses)
    BY <1>2, HubDeviceEffect
  <2>2. CASE HubStarts(Head(hub.left))
    <3>1. hub'.pc = "ask" /\ hub'.req = hub.req /\ hub'.stored = hub.stored
      BY <2>2 DEF HubStarts
    <3> QED
      BY <2>1, <3>1, PendingKept, MessagesKept
  <2>3. CASE HubMisses
    BY <2>1, <2>3, PendingTorn, MessagesKept DEF HubMisses
  <2> QED
    BY <2>1, <2>2, <2>3
<1>3. CASE HubAsk
  <2>1. /\ UNCHANGED <<inbox, redis>> /\ RequestKept /\ hub'.pc = "wait" /\ hub'.stored = hub.stored
    BY <1>3, HubAskEffect
  <2>2. \E e: EntryBecomes(e)
    BY <1>3, HubAskEffect
  <2>3. \A s \in Services: mgr'[s].alive => mgr[s].alive
    BY <2>2 DEF EntryBecomes
  <2> QED
    BY <2>1, <2>3, PendingKept, MessagesKept DEF RequestKept
<1>4. CASE HubGetsAnswer
  <2>1. /\ UNCHANGED <<inbox, redis>> /\ RequestKept /\ hub'.pc = "ask" /\ hub'.stored = hub.stored
    BY <1>4, HubGetsAnswerEffect
  <2>2. \E e: EntryBecomes(e)
    BY <1>4, HubGetsAnswerEffect
  <2>3. \A s \in Services: mgr'[s].alive => mgr[s].alive
    BY <2>2 DEF EntryBecomes
  <2> QED
    BY <2>1, <2>3, PendingKept, MessagesKept DEF RequestKept
<1>5. CASE HubTimesOut
  BY <1>5, HubTimesOutEffect, PendingTorn, MessagesKept
<1>6. CASE HubStore
  <2> DEFINE e == Apply(Entry, hub.u)
  <2>1. hub.pc = "ask" /\ inbox' = inbox /\ (HubSkips \/ (EntryBecomes(e) /\ (HubFails \/ HubWrites(e))))
    BY <1>6, HubStoreEffect DEF HubSkips, HubFails, HubWrites
  <2> HIDE DEF e
  <2>2. \A s \in Services: mgr'[s].alive => mgr[s].alive
    BY <2>1 DEF EntryBecomes, HubSkips
  <2>3. CASE HubSkips
    <3>1. redis' = redis /\ hub'.pc = "next" /\ hub'.req = hub.req /\ hub'.stored = hub.stored
      BY <2>3 DEF HubSkips, RequestKept
    <3> QED
      BY <2>1, <2>2, <3>1, PendingKept, MessagesKept
  <2>4. CASE HubFails
    <3>1. redis' = redis /\ hub.stored \subseteq log'.torn
      BY <2>4 DEF HubFails
    <3> QED
      BY <2>1, <2>2, <3>1, PendingTorn, MessagesKept
  <2>5. CASE HubWrites(e)
    <3>1. hub'.pc = "next" /\ hub'.req = hub.req /\ hub'.stored = hub.stored \cup {hub.dev}
      BY <2>5 DEF HubWrites, RequestKept
    <3>2. \A d, k: Pending(d, k) => Pending(d, k)'
      BY <3>1, PendingKept
    <3>3. \A d \in Devices \ F': \A k \in Fields:
             \/ Pending(d, k)'
             \/ d \in DOMAIN redis.config => d \in DOMAIN redis'.config /\ redis'.config[d][k] = redis.config[d][k]
      BY <1>6, <2>5, HubWritesEffect
    <3> QED
      BY <2>1, <2>2, <3>2, <3>3, MessagesKept
  <2> QED
    BY <2>1, <2>3, <2>4, <2>5
<1>7. CASE HubDone
  BY <1>7, HubDoneMessages
<1> QED
  BY <1>1, <1>2, <1>3, <1>4, <1>5, <1>6, <1>7 DEF Hub

LEMMA MessagesStep ==
  ASSUME Types, Carried, Messages, [Next]_vars
  PROVE  Messages'
<1>1. F \subseteq F'
  BY LogGrows DEF F, Grows, LogFields
<1>2. CASE hub' = hub /\ inbox' = inbox /\ redis'.config = redis.config /\ \A s \in Services: mgr'[s].alive => mgr[s].alive
  BY <1>1, <1>2, PendingKept, MessagesKept
<1>3. CASE UNCHANGED vars
  BY <1>2, <1>3 DEF vars
<1>4. CASE Client
  <2>1. CASE SendRequest
    <3>1. UNCHANGED <<hub, redis, inbox>> /\ (mgr' = mgr \/ (Only("client") /\ MgrSame("client")))
      BY <2>1, SendRequestEffect
    <3> QED
      BY <1>2, <3>1 DEF Only, MgrSame
  <2> QED
    BY <1>2, <1>4, <2>1 DEF Client, NoSuchDevice, GetReply, ReplyTimesOut
<1>5. CASE Hub
  BY <1>1, <1>5, HubMessages
<1>6. CASE DsReceive \/ DsGivesUp
  BY <1>2, <1>6, DsReceiveEffect, DsGivesUpEffect
<1>7. CASE DsUpdate
  <2>1. Only("ds") /\ mgr["ds"].alive /\ UNCHANGED <<hub, inbox, redis>>
    BY <1>7, DsUpdateEffect, DsUpdateTypes DEF DsHub
  <2> QED
    BY <1>2, <2>1 DEF Only
<1>8. CASE DsLoad
  <2>1. /\ UNCHANGED <<hub, inbox>> /\ mgr["ds"].alive
        /\ LoadEnds \/ \E d \in Devices: LET e == mgr["ds"].session[d] IN LoadRefuses(d) \/ LoadFails(d, e) \/ LoadAdds(d, e)
    BY <1>8, DsLoadEffect
  <2>2. redis'.config = redis.config /\ Only("ds")
    <3>1. CASE LoadEnds
      BY <3>1 DEF LoadEnds
    <3>2. ASSUME NEW d \in Devices, NEW e, LoadRefuses(d) \/ LoadFails(d, e) \/ LoadAdds(d, e)
          PROVE  redis'.config = redis.config /\ Only("ds")
      <4>1. Takes(d) /\ (redis' = redis \/ Informs(d))
        BY <3>2 DEF LoadRefuses, LoadFails, LoadAdds
      <4> QED
        BY <4>1 DEF Takes, Informs
    <3> QED
      BY <2>1, <3>1, <3>2
  <2> QED
    BY <1>2, <2>1, <2>2 DEF Only
<1>9. CASE DsDisabled \/ ClientLoads
  BY <1>2, <1>9, DsDisabledEffect, ClientLoadsEffect DEF Only
<1>10. ASSUME NEW s \in Services, Manager(s) PROVE Messages'
  <2>1. CASE ParseUpdate(s)
    <3>1. Handles(s) /\ Only(s) /\ hub' = hub /\ redis' = redis
      BY <2>1, ParseUpdateEffect
    <3>2. \A t \in Services: mgr'[t].alive => mgr[t].alive
      BY <3>1 DEF Only, Handles
    <3> QED
      BY <1>1, <3>1, <3>2, PendingKept, MessagesHandled
  <2>2. CASE ParseReload(s)
    <3>1. Handles(s) /\ Only(s) /\ redis' = redis /\ (hub' = hub \/ (hub'.pc = hub.pc /\ hub'.req = hub.req /\ hub'.stored = hub.stored))
      BY <2>2, ParseReloadEffect DEF RequestKept
    <3>2. \A t \in Services: mgr'[t].alive => mgr[t].alive
      BY <3>1 DEF Only, Handles
    <3> QED
      BY <1>1, <3>1, <3>2, PendingKept, MessagesHandled
  <2>3. CASE GetConfig(s)
    BY <1>2, <2>3, GetConfigEffect DEF Only
  <2> QED
    BY <1>10, <2>1, <2>2, <2>3 DEF Manager
<1> QED
  BY <1>3, <1>4, <1>5, <1>6, <1>7, <1>8, <1>9, <1>10 DEF Next, DsHandler, Done

-----------------------------------------------------------------------------
(* A copy differs from what is stored only where a change is on its way.   *)

LEMMA ViewsInit == Init => Views
<1> SUFFICES ASSUME Init, NEW s \in Services, NEW d \in Devices PROVE ViewOK(s, d)
  BY DEF Views
<1>1. PICK p \in DOMAIN Programs: InitiallyWith(Programs[p].config)
  BY DEF Init
<1> DEFINE config == Programs[p].config
<1>2. mgr[s].devs = config /\ mgr[s].session = <<>> /\ redis.config = config
  BY <1>1 DEF InitiallyWith
<1>3. DOMAIN mgr[s].session = {}
  BY <1>2, EmptySequence
<1> QED
  BY <1>2, <1>3 DEF ViewOK, InView, View, Devs

LEMMA ViewKept ==
  ASSUME NEW s, NEW d, ViewOK(s, d), InView(s, d)' <=> InView(s, d), d \in DOMAIN redis'.config <=> d \in DOMAIN redis.config,
         \A k \in Fields: Unsettled(s, d, k) => Unsettled(s, d, k)',
         \A k \in Fields: InView(s, d) /\ d \in DOMAIN redis.config =>
            Unsettled(s, d, k)' \/ View(s, d)'[k] = redis'.config[d][k]
               \/ (View(s, d)'[k] = View(s, d)[k] /\ redis'.config[d][k] = redis.config[d][k])
  PROVE  ViewOK(s, d)'
<1>1. ViewOK(s, d)' <=> /\ InView(s, d)' <=> d \in DOMAIN redis'.config
                        /\ InView(s, d)' => \A k \in Fields: Unsettled(s, d, k)' \/ View(s, d)'[k] = redis'.config[d][k]
  BY DEF ViewOK
<1>2. ASSUME InView(s, d), NEW k \in Fields
      PROVE  Unsettled(s, d, k)' \/ View(s, d)'[k] = redis'.config[d][k]
  <2>1. d \in DOMAIN redis.config /\ (Unsettled(s, d, k) \/ View(s, d)[k] = redis.config[d][k])
    BY <1>2 DEF ViewOK
  <2> QED
    BY <1>2, <2>1
<1>3. InView(s, d) <=> d \in DOMAIN redis.config
  BY DEF ViewOK
<1> QED
  BY <1>1, <1>2, <1>3

\* The copy of one service as it was.
SameView(s, d) ==
  /\ mgr'[s].session = mgr[s].session /\ DOMAIN mgr'[s].devs = DOMAIN mgr[s].devs
  /\ d \in DOMAIN mgr[s].devs => mgr'[s].devs[d] = mgr[s].devs[d]
LEMMA SameViewEffect ==
  ASSUME NEW s, NEW d, SameView(s, d)
  PROVE  (InView(s, d)' <=> InView(s, d)) /\ (InView(s, d) => View(s, d)' = View(s, d))
  BY DEF SameView, InView, View, Devs

LEMMA ViewsSame ==
  ASSUME NEW s, NEW d, ViewOK(s, d), SameView(s, d), redis'.config = redis.config,
         \A k \in Fields: Unsettled(s, d, k) => Unsettled(s, d, k)'
  PROVE  ViewOK(s, d)'
<1>1. (InView(s, d)' <=> InView(s, d)) /\ (InView(s, d) => View(s, d)' = View(s, d))
  BY SameViewEffect
<1> QED
  BY <1>1, ViewKept

\* What the other steps leave unsettled remains so.
StaysUnsettled ==
  \A s \in Services: Current(s)' => \A d \in Devices \ F': \A k \in Fields: Unsettled(s, d, k) => Unsettled(s, d, k)'
StaysCurrent == \A s \in Services: Current(s)' => Current(s)
LEMMA UnsettledStays ==
  ASSUME hub.pc # "idle" => hub'.pc # "idle" /\ hub'.req = hub.req /\ hub.stored \subseteq hub'.stored,
         hub.pc \in {"ask", "wait"} => hub'.pc \in {"ask", "wait"} /\ hub'.dev = hub.dev,
         inbox' = inbox, \A i \in DOMAIN requests: i \in DOMAIN requests' /\ requests'[i] = requests[i]
  PROVE  StaysUnsettled
<1>1. \A s, d, k: Mentioned(s, d, k) => Mentioned(s, d, k)'
  BY DEF Mentioned, Mentions, Keys
<1>2. \A d, k: Pending(d, k) => Pending(d, k)'
  BY DEF Pending, Keys
<1>3. \A s, d, k: Early(s, d, k) => Early(s, d, k)'
  BY DEF Early, Single, Keys
<1> QED
  BY <1>1, <1>2, <1>3 DEF StaysUnsettled, Unsettled

LEMMA ViewsKept ==
  ASSUME Views, F \subseteq F', StaysUnsettled, StaysCurrent, redis'.config = redis.config,
         \A s \in Services: \A d \in Devices \ F': Current(s)' => SameView(s, d)
  PROVE  Views'
<1> SUFFICES ASSUME NEW s \in Services, Current(s)', NEW d \in Devices \ F' PROVE ViewOK(s, d)'
  BY DEF Views
<1>1. ViewOK(s, d) /\ SameView(s, d)
  BY DEF Views, StaysCurrent
<1>2. \A k \in Fields: Unsettled(s, d, k) => Unsettled(s, d, k)'
  BY DEF StaysUnsettled
<1> QED
  BY <1>1, <1>2, ViewsSame

LEMMA CurrentStays ==
  ASSUME inbox' = inbox, \A s \in Services: mgr'[s].alive = mgr[s].alive /\ mgr'[s].load = mgr[s].load
  PROVE  StaysCurrent
  BY DEF StaysCurrent, Current, Reloads
LEMMA HubReceiveViews ==
  ASSUME Types, Views, HubReceive, F \subseteq F'
  PROVE  Views'
<1> DEFINE r == Head(requests)
<1>1. /\ hub.pc = "idle" /\ requests # <<>> /\ requests' = Tail(requests) /\ mgr' = mgr
      /\ HubRefuses(r) \/ HubTakes(r) \/ HubReloads(r) \/ HubSets(r)
  BY HubReceiveEffect
<1>2. IsSeq(requests)
  BY DEF Types, QueuesOK, RequestsOK
<1>3. r = requests[1] /\ \A i \in DOMAIN requests: i # 1 => i - 1 \in DOMAIN requests' /\ requests'[i - 1] = requests[i]
  BY <1>1, <1>2, SeqTail
<1> HIDE DEF r
<1>4. CASE HubReloads(r) \/ HubSets(r)
  BY <1>1, <1>4, MessagesReload DEF HubReloads, HubSets, Views, Current
<1>5. CASE HubRefuses(r) \/ HubTakes(r)
  <2>1. UNCHANGED <<inbox, redis>>
    BY <1>5 DEF HubRefuses, HubTakes
  <2>2. StaysCurrent
    BY <1>1, <2>1, CurrentStays
  <2>3. StaysUnsettled
    <3> SUFFICES ASSUME NEW s \in Services, NEW d \in Devices \ F', NEW k \in Fields, Unsettled(s, d, k)
                 PROVE  Unsettled(s, d, k)'
      BY DEF StaysUnsettled
    <3>1. CASE Mentioned(s, d, k)
      BY <2>1, <3>1 DEF Unsettled, Mentioned, Mentions, Keys
    <3>2. CASE Early(s, d, k)
      <4>1. s = "client"
        BY <1>1, <3>2 DEF Early
      <4>2. PICK i \in DOMAIN requests: Single(requests[i], d, k)
        BY <1>1, <3>2, <4>1 DEF Early
      <4>3. CASE i # 1
        BY <1>3, <4>1, <4>2, <4>3 DEF Early, Unsettled, Single, Keys
      <4>4. CASE i = 1
        <5>1. d \in DOMAIN r.us /\ Single(r, d, k)
          BY <1>3, <4>2, <4>4 DEF Single
        <5>2. ~HubRefuses(r)
          BY <5>1 DEF HubRefuses, F
        <5>3. hub'.pc = "next" /\ hub'.req = r
          BY <1>5, <5>2 DEF HubTakes
        <5> QED
          BY <4>1, <5>1, <5>3 DEF Early, Unsettled, Single, Keys
      <4> QED
        BY <4>3, <4>4
    <3> QED
      BY <1>1, <3>1, <3>2 DEF Unsettled, Pending
  <2> QED
    BY <1>1, <2>1, <2>2, <2>3, ViewsKept DEF SameView
<1> QED
  BY <1>1, <1>4, <1>5

\* SciHub ends a request; what it had changed and does not tell is torn.
LEMMA HubEnds ==
  ASSUME hub' = Idle, UNCHANGED <<requests, inbox>>, hub.stored \subseteq log'.torn,
         hub.pc \in {"ask", "wait"} => hub.dev \in F', \A d, k: Single(hub.req, d, k) /\ hub.pc # "idle" => d \in F'
  PROVE  StaysUnsettled
<1> SUFFICES ASSUME NEW s \in Services, NEW d \in Devices \ F', NEW k \in Fields, Unsettled(s, d, k)
             PROVE  Unsettled(s, d, k)'
  BY DEF StaysUnsettled
<1>1. ~Pending(d, k)
  BY PendingTorn
<1>2. Mentioned(s, d, k) => Mentioned(s, d, k)'
  BY DEF Mentioned, Mentions, Keys
<1>3. Early(s, d, k) => Early(s, d, k)'
  BY DEF Early, Single, Keys
<1> QED
  BY <1>1, <1>2, <1>3 DEF Unsettled

LEMMA HubDeviceViews ==
  ASSUME Types, Views, HubDevice, F \subseteq F'
  PROVE  Views'
<1>1. hub.pc = "next" /\ UNCHANGED <<requests, inbox, mgr, redis>> /\ (HubStarts(Head(hub.left)) \/ HubMisses)
  BY HubDeviceEffect
<1>2. StaysCurrent
  BY <1>1, CurrentStays
<1>3. StaysUnsettled
  <2>1. CASE HubStarts(Head(hub.left))
    <3>1. hub'.pc = "ask" /\ hub'.req = hub.req /\ hub'.stored = hub.stored
      BY <2>1 DEF HubStarts
    <3> QED
      BY <1>1, <3>1, UnsettledStays
  <2>2. CASE HubMisses
    <3>1. hub' = Idle /\ hub.stored \subseteq log'.torn /\ DOMAIN hub.req.us \subseteq F'
      BY <2>2 DEF HubMisses, F
    <3>2. \A d, k: Single(hub.req, d, k) => d \in F'
      BY <3>1 DEF Single
    <3> QED
      BY <1>1, <3>1, <3>2, HubEnds
  <2> QED
    BY <1>1, <2>1, <2>2
<1> QED
  BY <1>1, <1>2, <1>3, ViewsKept DEF SameView

\* The handler changes the entry that it holds.
LEMMA EntryViews ==
  ASSUME Types, hub.pc \in {"ask", "wait"}, NEW e, EntryBecomes(e), inbox' = inbox
  PROVE  /\ StaysCurrent
         /\ \A s \in Services: \A d:
              /\ InView(s, d)' <=> InView(s, d)
              /\ InView(s, d) => \/ View(s, d)' = View(s, d)
                                 \/ s = "hub" /\ d = hub.dev /\ Attached /\ View(s, d)' = e /\ View(s, d) = Entry
<1>1. "hub" \in Services /\ IsManager(mgr["hub"]) /\ IsPlaced("hub", mgr["hub"])
  BY ManagerIs DEF Types, Services
<1>2. DOMAIN mgr["hub"].session = {}
  BY <1>1 DEF IsPlaced, IsManager
<1>3. StaysCurrent
  <2>1. \A s \in Services: mgr'[s].alive = mgr[s].alive /\ mgr'[s].load = mgr[s].load
    BY DEF EntryBecomes
  <2> QED
    BY <2>1, CurrentStays
<1>4. ASSUME NEW s \in Services, NEW d
      PROVE  /\ InView(s, d)' <=> InView(s, d)
             /\ InView(s, d) => \/ View(s, d)' = View(s, d)
                                \/ s = "hub" /\ d = hub.dev /\ Attached /\ View(s, d)' = e /\ View(s, d) = Entry
  <2>1. CASE s # "hub"
    <3>1. mgr'[s] = mgr[s]
      BY <2>1 DEF EntryBecomes
    <3> QED
      BY <3>1 DEF InView, View, Devs
  <2>2. CASE s = "hub"
    BY <1>2, <2>2 DEF EntryBecomes, InView, View, Devs, Entry
  <2> QED
    BY <2>1, <2>2
<1> QED
  BY <1>3, <1>4

LEMMA EntryChanges ==
  ASSUME Types, Views, F \subseteq F', hub.pc \in {"ask", "wait"}, NEW e, EntryBecomes(e), UNCHANGED <<inbox, requests>>,
         redis'.config = redis.config, RequestKept, hub'.pc \in {"ask", "wait"}, hub'.stored = hub.stored,
         \A k \in Fields: e[k] = Entry[k] \/ k \in Keys(hub.u)
  PROVE  Views'
<1>1. hub'.req = hub.req /\ hub'.dev = hub.dev /\ Keys(hub.u) \subseteq Keys(hub.req.us[hub.dev])
  BY HubAtDevice DEF RequestKept
<1>2. StaysUnsettled
  BY <1>1, UnsettledStays
<1> SUFFICES ASSUME NEW s \in Services, Current(s)', NEW d \in Devices \ F' PROVE ViewOK(s, d)'
  BY DEF Views
<1>3. /\ Current(s) /\ (InView(s, d)' <=> InView(s, d))
      /\ InView(s, d) => \/ View(s, d)' = View(s, d)
                         \/ s = "hub" /\ d = hub.dev /\ Attached /\ View(s, d)' = e /\ View(s, d) = Entry
  BY EntryViews DEF StaysCurrent
<1>4. ASSUME NEW k \in Keys(hub.u), s = "hub", d = hub.dev PROVE Unsettled(s, d, k)'
  BY <1>1, <1>4 DEF Unsettled, Early, Keys
<1>5. ViewOK(s, d) /\ \A k \in Fields: Unsettled(s, d, k) => Unsettled(s, d, k)'
  BY <1>2, <1>3 DEF Views, StaysUnsettled
<1>6. ASSUME NEW k \in Fields, InView(s, d)
      PROVE  Unsettled(s, d, k)' \/ View(s, d)'[k] = View(s, d)[k]
  BY <1>3, <1>4, <1>6
<1> QED
  BY <1>3, <1>5, <1>6, ViewKept

LEMMA HubAskViews ==
  ASSUME Types, Views, HubAsk, F \subseteq F'
  PROVE  Views'
<1>1. /\ hub.pc = "ask" /\ UNCHANGED <<inbox, requests, redis>> /\ RequestKept /\ hub'.pc = "wait" /\ hub'.stored = hub.stored
  BY HubAskEffect
<1>2. PICK e: EntryBecomes(e) /\ \A k \in Fields: e[k] = Entry[k] \/ (k \in Keys(hub.u) /\ e[k] = hub.u[k])
  BY HubAskEffect
<1> QED
  BY <1>1, <1>2, EntryChanges

LEMMA HubGetsAnswerViews ==
  ASSUME Types, Views, HubGetsAnswer, F \subseteq F'
  PROVE  Views'
<1>1. /\ hub.pc = "wait" /\ UNCHANGED <<inbox, requests, redis>> /\ RequestKept /\ hub'.pc = "ask" /\ hub'.stored = hub.stored
  BY HubGetsAnswerEffect
<1>2. PICK e: \E k \in {"conf", "enabled"}: /\ EntryBecomes(e) /\ k \in Keys(hub.u)
                                             /\ \A x \in Fields: e[x] = IF x = k THEN hub.u[x] ELSE Entry[x]
  BY HubGetsAnswerEffect
<1>3. EntryBecomes(e) /\ \A x \in Fields: e[x] = Entry[x] \/ x \in Keys(hub.u)
  BY <1>2
<1> QED
  BY <1>1, <1>3, EntryChanges

LEMMA HubTimesOutViews ==
  ASSUME Types, Views, HubTimesOut, F \subseteq F'
  PROVE  Views'
<1>1. /\ hub.pc = "wait" /\ hub' = Idle /\ UNCHANGED <<requests, inbox, mgr, redis>>
      /\ hub.dev \in F' /\ hub.stored \subseteq log'.torn
  BY HubTimesOutEffect DEF F
<1>2. \A d, k: Single(hub.req, d, k) => d \in F'
  BY <1>1, HubAtDevice DEF Single
<1>3. StaysUnsettled /\ StaysCurrent
  BY <1>1, <1>2, HubEnds, CurrentStays
<1> QED
  BY <1>1, <1>3, ViewsKept DEF SameView
LEMMA HubSkipsViews ==
  ASSUME Types, Carried, Views, F \subseteq F', hub.pc = "ask", HubSkips, requests' = requests
  PROVE  Views'
<1>1. /\ ~hub.updated /\ Keys(hub.u) = {} /\ hub'.req = hub.req /\ hub'.pc = "next" /\ hub'.stored = hub.stored
      /\ UNCHANGED <<inbox, mgr, redis>>
  BY DEF HubSkips, RequestKept
<1>2. hub.dev \in F' \/ Keys(hub.req.us[hub.dev]) = {}
  BY <1>1 DEF Carried, Applied, G, F
<1>3. StaysUnsettled
  <2> SUFFICES ASSUME NEW s \in Services, NEW d \in Devices \ F', NEW k \in Fields, Unsettled(s, d, k)
               PROVE  Unsettled(s, d, k)'
    BY DEF StaysUnsettled
  <2>1. Mentioned(s, d, k) => Mentioned(s, d, k)'
    BY <1>1 DEF Mentioned, Mentions, Keys
  <2>2. Pending(d, k) => Pending(d, k)'
    BY <1>1 DEF Pending, Keys
  <2>3. Early(s, d, k) => Early(s, d, k)'
    BY <1>1, <1>2 DEF Early, Single, Keys
  <2> QED
    BY <2>1, <2>2, <2>3 DEF Unsettled
<1> QED
  BY <1>1, <1>3, CurrentStays, ViewsKept DEF SameView

LEMMA HubStoreViews ==
  ASSUME Types, Carried, Views, HubStore, F \subseteq F'
  PROVE  Views'
<1> DEFINE e == Apply(Entry, hub.u)
<1>1. /\ hub.pc = "ask" /\ requests' = requests /\ (HubSkips \/ (EntryBecomes(e) /\ (HubFails \/ HubWrites(e))))
      /\ \A k \in Fields: e[k] = IF k \in Keys(hub.u) THEN hub.u[k] ELSE Entry[k]
  BY HubStoreEffect
<1> HIDE DEF e
<1>2. CASE HubSkips
  BY <1>1, <1>2, HubSkipsViews
<1>3. CASE EntryBecomes(e) /\ HubFails
  <2>1. /\ hub' = Idle /\ UNCHANGED <<inbox, redis>> /\ hub.dev \in F' /\ hub.stored \subseteq log'.torn
    BY <1>3 DEF HubFails, F
  <2>2. \A d, k: Single(hub.req, d, k) => d \in F'
    BY <1>1, <2>1, HubAtDevice DEF Single
  <2>3. StaysUnsettled
    BY <1>1, <2>1, <2>2, HubEnds
  <2> SUFFICES ASSUME NEW s \in Services, Current(s)', NEW d \in Devices \ F' PROVE ViewOK(s, d)'
    BY DEF Views
  <2>4. Current(s) /\ (InView(s, d)' <=> InView(s, d)) /\ (InView(s, d) => View(s, d)' = View(s, d))
    BY <1>1, <1>3, <2>1, EntryViews DEF StaysCurrent
  <2> QED
    BY <2>1, <2>3, <2>4, ViewKept DEF Views, StaysUnsettled
<1>4. CASE EntryBecomes(e) /\ HubWrites(e)
  <2>1. /\ inbox' = inbox /\ hub'.pc = "next" /\ hub'.req = hub.req /\ hub'.stored = hub.stored \cup {hub.dev}
        /\ DOMAIN redis'.config = DOMAIN redis.config /\ hub.dev \in DOMAIN redis.config
        /\ \A d \in DOMAIN redis.config: redis'.config[d] = IF d = hub.dev THEN e ELSE redis.config[d]
    BY <1>4 DEF HubWrites, Stores, RequestKept
  <2>2. ASSUME NEW s \in Services, NEW d \in Devices \ F', NEW k \in Fields, Unsettled(s, d, k)
        PROVE  Unsettled(s, d, k)'
    <3>1. Mentioned(s, d, k) => Mentioned(s, d, k)'
      BY <2>1 DEF Mentioned, Mentions, Keys
    <3>2. Pending(d, k) => Pending(d, k)'
      BY <1>1, <2>1 DEF Pending, Keys
    <3>3. Early(s, d, k) => Early(s, d, k)' \/ Pending(d, k)'
      BY <1>1, <2>1 DEF Early, Single, Keys, Pending
    <3> QED
      BY <2>2, <3>1, <3>2, <3>3 DEF Unsettled
  <2> SUFFICES ASSUME NEW s \in Services, Current(s)', NEW d \in Devices \ F' PROVE ViewOK(s, d)'
    BY DEF Views
  <2>3. /\ Current(s) /\ (InView(s, d)' <=> InView(s, d))
        /\ InView(s, d) => \/ View(s, d)' = View(s, d)
                           \/ s = "hub" /\ d = hub.dev /\ Attached /\ View(s, d)' = e /\ View(s, d) = Entry
    BY <1>1, <1>4, <2>1, EntryViews DEF StaysCurrent
  <2>4. ASSUME NEW k \in Fields, InView(s, d), d \in DOMAIN redis.config
        PROVE  \/ Unsettled(s, d, k)' \/ View(s, d)'[k] = redis'.config[d][k]
               \/ (View(s, d)'[k] = View(s, d)[k] /\ redis'.config[d][k] = redis.config[d][k])
    <3>1. CASE d # hub.dev
      BY <2>1, <2>3, <2>4, <3>1
    <3>2. CASE d = hub.dev /\ k \in Keys(hub.req.us[d])
      BY <2>1, <3>2 DEF Unsettled, Pending, Keys
    <3>3. CASE d = hub.dev /\ k \notin Keys(hub.req.us[d])
      <4>1. redis'.config[d] = e /\ e[k] = redis.config[d][k]
        BY <1>4, <3>3, HubWritesEffect
      <4> QED
        BY <2>3, <2>4, <4>1
    <3> QED
      BY <3>1, <3>2, <3>3
  <2>5. ViewOK(s, d) /\ \A k \in Fields: Unsettled(s, d, k) => Unsettled(s, d, k)'
    BY <2>2, <2>3 DEF Views
  <2>6. d \in DOMAIN redis'.config <=> d \in DOMAIN redis.config
    BY <2>1
  <2> QED
    BY <2>3, <2>4, <2>5, <2>6, ViewKept
<1> QED
  BY <1>1, <1>2, <1>3, <1>4

LEMMA HubDoneViews ==
  ASSUME Types, Carried, Views, HubDone, F \subseteq F'
  PROVE  Views'
<1>1. /\ hub.pc = "next" /\ hub.left = <<>> /\ hub' = Idle /\ UNCHANGED <<requests, mgr, redis>> /\ (HubTells \/ HubIsSilent)
  BY HubDoneEffect
<1>2. CASE HubIsSilent
  <2>1. inbox' = inbox /\ hub.stored \subseteq log'.torn /\ log.refused \subseteq log'.refused /\ log.stale \subseteq log'.stale
    BY <1>2 DEF HubIsSilent, LogKeeps, LogFields
  <2>2. ASSUME NEW d, NEW k, Single(hub.req, d, k) PROVE d \in F'
    <3>1. Placed /\ ToSet(hub.left) = {} /\ d \in DOMAIN hub.req.us /\ Keys(hub.req.us[d]) # {}
      BY <1>1, <2>2, EmptySequence DEF Carried, Single
    <3>2. d \in G \/ d \in hub.stored
      BY <1>1, <3>1 DEF Placed
    <3> QED
      BY <2>1, <3>2 DEF F, G
  <2>3. StaysUnsettled
    BY <1>1, <2>1, <2>2, HubEnds
  <2> QED
    BY <1>1, <2>1, <2>3, CurrentStays, ViewsKept DEF SameView
<1>3. CASE HubTells
  <2> DEFINE m == [action |-> "update", us |-> hub.req.us]
  <2>1. Broadcast(m) /\ m.action = "update" /\ m.us = hub.req.us
    BY <1>3 DEF HubTells
  <2> HIDE DEF m
  <2>2. ASSUME NEW s \in Services, mgr[s].alive
        PROVE  /\ Reloads(s) => Reloads(s)'
               /\ \A d \in Devices: \A k \in Fields: Unsettled(s, d, k) => Unsettled(s, d, k)'
    <3> DEFINE n == Len(inbox[s])
    <3>1. /\ inbox'[s][n + 1] = m /\ n + 1 \in DOMAIN inbox'[s]
          /\ \A j \in DOMAIN inbox[s]: j \in DOMAIN inbox'[s] /\ inbox'[s][j] = inbox[s][j]
      BY <2>1, <2>2, BroadcastEffect
    <3> HIDE DEF n
    <3>2. Reloads(s) => Reloads(s)'
      BY <3>1 DEF Reloads
    <3>3. ASSUME NEW d \in Devices, NEW k \in Fields, Unsettled(s, d, k)
          PROVE  Unsettled(s, d, k)'
      <4>1. CASE Mentioned(s, d, k)
        BY <3>1, <4>1 DEF Unsettled, Mentioned, Mentions, Keys
      <4>2. CASE d \in DOMAIN hub.req.us /\ k \in Keys(hub.req.us[d])
        BY <2>1, <3>1, <4>2 DEF Unsettled, Mentioned, Mentions, Keys
      <4>3. CASE \E i \in DOMAIN requests: s = "client" /\ Single(requests[i], d, k)
        BY <1>1, <4>3 DEF Unsettled, Early, Single, Keys
      <4>4. hub.stored \subseteq DOMAIN hub.req.us
        BY <1>1, HubBusy DEF Types
      <4> QED
        BY <1>1, <3>3, <4>1, <4>2, <4>3, <4>4 DEF Unsettled, Pending, Early, Single
    <3> QED
      BY <3>2, <3>3
  <2>3. StaysCurrent
    BY <1>1, <2>2 DEF StaysCurrent, Current
  <2>4. StaysUnsettled
    BY <1>1, <2>2 DEF StaysUnsettled, Current
  <2> QED
    BY <1>1, <2>3, <2>4, ViewsKept DEF SameView
<1> QED
  BY <1>1, <1>2, <1>3
LEMMA SendRequestViews ==
  ASSUME Types, Views, SendRequest, F \subseteq F'
  PROVE  Views'
<1> DEFINE r == Head(todo)
           m == [id |-> fresh, action |-> r.action, us |-> r.us]
<1>1. /\ IsRequest(r) /\ requests' = Append(requests, m) /\ m.action = r.action /\ m.us = r.us
      /\ UNCHANGED <<hub, inbox, redis>> /\ (r.action = "update" => DOMAIN r.us \subseteq DOMAIN Devs("client"))
  BY SendRequestEffect
<1>2. IF r.locally
      THEN /\ Only("client") /\ MgrSame("client") /\ mgr'["client"].load = mgr["client"].load
           /\ mgr'["client"].devs = ApplyTo(mgr["client"].devs, r.us)
      ELSE mgr' = mgr
  BY SendRequestEffect
<1> HIDE DEF r, m
<1> DEFINE n == Len(requests)
<1>3. n + 1 \in DOMAIN requests' /\ requests'[n + 1] = m /\ \A i \in DOMAIN requests: i \in DOMAIN requests' /\ requests'[i] = requests[i]
  <2>1. IsSeq(requests)
    BY DEF Types, QueuesOK, RequestsOK
  <2>2. /\ n \in Nat /\ DOMAIN requests = 1..n /\ DOMAIN requests' = 1..(n + 1)
        /\ (\A i \in DOMAIN requests: requests'[i] = requests[i]) /\ requests'[n + 1] = m
    BY <1>1, <2>1, SeqAppend
  <2> HIDE DEF n
  <2> QED
    BY <2>2
<1> HIDE DEF n
<1>4. StaysUnsettled
  BY <1>1, <1>3, UnsettledStays
<1>5. StaysCurrent
  BY <1>1, <1>2, CurrentStays DEF Only, MgrSame
<1>6. CASE ~r.locally
  BY <1>1, <1>2, <1>4, <1>5, <1>6, ViewsKept DEF SameView
<1>7. CASE r.locally
  <2>1. PICK x \in Devices: DOMAIN r.us = {x}
    BY <1>1, <1>7 DEF IsRequest
  <2>2. r.action = "update" /\ IsUpdates(r.us) /\ DOMAIN r.us \subseteq DOMAIN Devs("client")
    BY <1>1, <1>7 DEF IsRequest, IsUpdates
  <2>3. IsConfig(mgr["client"].devs)
    BY ManagerIs DEF Types, Services
  <2> SUFFICES ASSUME NEW s \in Services, Current(s)', NEW d \in Devices \ F' PROVE ViewOK(s, d)'
    BY DEF Views
  <2>4. ViewOK(s, d) /\ \A k \in Fields: Unsettled(s, d, k) => Unsettled(s, d, k)'
    BY <1>4, <1>5 DEF Views, StaysCurrent, StaysUnsettled
  <2>5. CASE s # "client" \/ d # x
    <3>1. SameView(s, d)
      <4>1. CASE s # "client"
        BY <1>2, <1>7, <4>1 DEF SameView, Only
      <4>2. CASE s = "client" /\ d # x
        BY <1>2, <1>7, <2>1, <2>2, <2>3, <4>2, ApplyToConfig DEF SameView, MgrSame
      <4> QED
        BY <2>5, <4>1, <4>2
    <3> QED
      BY <1>1, <2>4, <3>1, ViewsSame
  <2>6. CASE s = "client" /\ d = x
    <3>1. /\ d \in DOMAIN mgr["client"].devs /\ DOMAIN mgr'["client"].devs = DOMAIN mgr["client"].devs
          /\ mgr'["client"].devs[d] = Apply(mgr["client"].devs[d], r.us[d]) /\ mgr'["client"].session = mgr["client"].session
      BY <1>2, <1>7, <2>1, <2>2, <2>3, <2>6, ApplyToConfig DEF MgrSame, Devs
    <3>2. IsEntry(mgr["client"].devs[d]) /\ IsUpdate(r.us[d])
      BY <2>1, <2>2, <2>3, <2>6, <3>1 DEF IsConfig, IsUpdates
    <3>3. ASSUME NEW k \in Fields PROVE Unsettled(s, d, k)' \/ View(s, d)'[k] = View(s, d)[k]
      <4>1. CASE k \in Keys(r.us[d])
        <5>1. Single(m, d, k)
          BY <1>1, <2>1, <2>2, <2>6, <4>1 DEF Single, Keys
        <5>2. Early(s, d, k)'
          BY <1>3, <2>6, <5>1 DEF Early, Single, Keys
        <5> QED
          BY <5>2 DEF Unsettled
      <4>2. CASE k \notin Keys(r.us[d])
        <5>1. mgr'["client"].devs[d][k] = mgr["client"].devs[d][k]
          BY <3>1, <3>2, <4>2, ApplyEntry
        <5> QED
          BY <2>6, <3>1, <5>1 DEF View, Devs
      <4> QED
        BY <4>1, <4>2
    <3>4. InView(s, d)' <=> InView(s, d)
      BY <2>6, <3>1 DEF InView, Devs
    <3> QED
      BY <1>1, <2>4, <3>3, <3>4, ViewKept
  <2> QED
    BY <2>5, <2>6
<1> QED
  BY <1>6, <1>7

RequestsStay == \A i \in DOMAIN requests: i \in DOMAIN requests' /\ requests'[i] = requests[i]

\* The steps of one service's manager leave the copies of the others as they are.
LEMMA OthersViews ==
  ASSUME Views, F \subseteq F', NEW s \in Services, Only(s), \A t \in Services: t # s => inbox'[t] = inbox[t],
         hub' = hub \/ (hub'.pc = hub.pc /\ hub'.req = hub.req /\ hub'.stored = hub.stored /\ hub'.dev = hub.dev),
         RequestsStay, redis'.config = redis.config,
         Current(s)' => \A d \in Devices \ F': ViewOK(s, d)'
  PROVE  Views'
<1> SUFFICES ASSUME NEW t \in Services, t # s, Current(t)', NEW d \in Devices \ F' PROVE ViewOK(t, d)'
  BY DEF Views
<1>1. inbox'[t] = inbox[t] /\ mgr'[t] = mgr[t]
  BY DEF Only
<1>2. ViewOK(t, d)
  BY <1>1 DEF Views, Current, Reloads
<1>3. ASSUME NEW k \in Fields, Unsettled(t, d, k) PROVE Unsettled(t, d, k)'
  <2>1. Mentioned(t, d, k) => Mentioned(t, d, k)'
    BY <1>1 DEF Mentioned, Mentions, Keys
  <2>2. (Pending(d, k) => Pending(d, k)') /\ (Early(t, d, k) => Early(t, d, k)')
    BY DEF Pending, Early, Single, Keys, RequestsStay
  <2> QED
    BY <1>3, <2>1, <2>2 DEF Unsettled
<1> QED
  BY <1>1, <1>2, <1>3, ViewsSame DEF SameView

LEMMA ParseUpdateViews ==
  ASSUME Types, Messages, Views, F \subseteq F', NEW s \in Services, ParseUpdate(s)
  PROVE  Views'
<1> DEFINE q == inbox[s]
           us == Head(q).us
<1>1. /\ Handles(s) /\ Head(q).action = "update" /\ Only(s) /\ UNCHANGED <<hub, requests, redis>>
      /\ mgr'[s].session = mgr[s].session /\ mgr'[s].load = mgr[s].load
  BY ParseUpdateEffect
<1>2. mgr'[s].alive => DOMAIN us \subseteq DOMAIN Devs(s) /\ mgr'[s].devs = ApplyTo(mgr[s].devs, us)
  BY ParseUpdateEffect
<1>3. IsSeq(q) /\ q # <<>> /\ inbox'[s] = Tail(q) /\ mgr[s].alive /\ mgr[s].load = "idle"
  BY <1>1 DEF Handles, Types, InboxOK
<1>4. /\ 1 \in DOMAIN q /\ Head(q) = q[1]
      /\ \A j \in DOMAIN q: j # 1 => j - 1 \in DOMAIN inbox'[s] /\ inbox'[s][j - 1] = q[j]
  BY <1>3, SeqTail
<1>5. IsUpdates(us) /\ IsConfig(mgr[s].devs) /\ DOMAIN mgr[s].session = {}
  <2>1. IsPlaced(s, mgr[s]) /\ IsConfig(mgr[s].devs)
    BY ManagerIs DEF Types
  <2>2. IsMessage(Head(q))
    BY <1>1, InboxTail DEF Types
  <2> QED
    BY <1>1, <1>3, <2>1, <2>2 DEF IsPlaced, IsMessage
<1> HIDE DEF q, us
<1>6. ASSUME Current(s)', NEW d \in Devices \ F' PROVE ViewOK(s, d)'
  <2>1. ~Reloads(s) /\ mgr'[s].alive
    <3>1. ASSUME NEW j \in DOMAIN q PROVE q[j].action # "reload"
      BY <1>1, <1>4, <1>6 DEF Current, Reloads
    <3> QED
      BY <1>6, <3>1 DEF Current, Reloads, q
  <2>2. ViewOK(s, d)
    BY <1>3, <1>6, <2>1 DEF Views, Current
  <2>3. DOMAIN mgr'[s].devs = DOMAIN mgr[s].devs
    BY <1>2, <1>5, <2>1, ApplyToConfig
  <2>4. InView(s, d)' <=> InView(s, d)
    BY <1>1, <2>3 DEF InView, Devs
  <2>5. \A k \in Fields: (Pending(d, k) => Pending(d, k)') /\ (Early(s, d, k) => Early(s, d, k)')
    BY <1>1 DEF Pending, Early, Single, Keys
  <2>6. ASSUME NEW k \in Fields, NEW j \in DOMAIN q, j # 1, Mentions(q[j], d, k) PROVE Mentioned(s, d, k)'
    BY <1>4, <2>6 DEF Mentioned, Mentions, Keys
  <2>7. ASSUME NEW k \in Fields, InView(s, d), d \in DOMAIN us, k \in Keys(us[d])
        PROVE  Unsettled(s, d, k)' \/ View(s, d)'[k] = redis'.config[d][k]
    <3>1. Mentions(q[1], d, k)
      BY <1>1, <1>4, <2>7 DEF Mentions, us, q
    <3>2. Superseded(s, 1, d, k) \/ Pending(d, k) \/ Matches(s, 1, d, k)
      BY <1>3, <1>4, <1>6, <3>1 DEF Messages, MessageOK, q
    <3>3. CASE Superseded(s, 1, d, k)
      <4>1. PICK j \in DOMAIN q: j > 1 /\ (q[j].action = "reload" \/ Mentions(q[j], d, k))
        BY <3>3 DEF Superseded, q
      <4>2. j # 1 /\ Mentions(q[j], d, k)
        BY <2>1, <4>1 DEF Reloads, q
      <4> QED
        BY <2>6, <4>2 DEF Unsettled
    <3>4. CASE Matches(s, 1, d, k)
      <4>1. redis.config[d][k] = us[d][k]
        BY <1>4, <3>4 DEF Matches, q, us
      <4>2. d \in DOMAIN mgr[s].devs
        BY <1>5, <2>7 DEF InView, Devs
      <4>3. mgr'[s].devs[d] = Apply(mgr[s].devs[d], us[d]) /\ IsEntry(mgr[s].devs[d]) /\ IsUpdate(us[d])
        BY <1>2, <1>5, <2>1, <2>7, <4>2, ApplyToConfig DEF IsConfig, IsUpdates
      <4>4. mgr'[s].devs[d][k] = us[d][k]
        BY <2>7, <4>3, ApplyEntry
      <4> QED
        BY <1>1, <1>5, <4>1, <4>4 DEF View, Devs
    <3> QED
      BY <2>5, <3>2, <3>3, <3>4 DEF Unsettled
  <2>8. ASSUME NEW k \in Fields, InView(s, d), ~(d \in DOMAIN us /\ k \in Keys(us[d]))
        PROVE  View(s, d)'[k] = View(s, d)[k] /\ (Unsettled(s, d, k) => Unsettled(s, d, k)')
    <3>1. d \in DOMAIN mgr[s].devs
      BY <1>5, <2>8 DEF InView, Devs
    <3>2. mgr'[s].devs[d] = IF d \in DOMAIN us THEN Apply(mgr[s].devs[d], us[d]) ELSE mgr[s].devs[d]
      BY <1>2, <1>5, <2>1, <3>1, ApplyToConfig
    <3>3. d \in DOMAIN us => IsEntry(mgr[s].devs[d]) /\ IsUpdate(us[d])
      BY <1>5, <3>1 DEF IsConfig, IsUpdates
    <3>4. mgr'[s].devs[d][k] = mgr[s].devs[d][k]
      BY <2>8, <3>2, <3>3, ApplyEntry
    <3>5. ~Mentions(q[1], d, k)
      BY <1>4, <2>8 DEF Mentions, us, q
    <3>6. Mentioned(s, d, k) => Mentioned(s, d, k)'
      BY <2>6, <3>5 DEF Mentioned, q
    <3> QED
      BY <1>1, <1>5, <2>5, <3>4, <3>6 DEF View, Devs, Unsettled
  <2>9. ASSUME NEW k \in Fields, InView(s, d)
        PROVE  Unsettled(s, d, k)' \/ View(s, d)'[k] = redis'.config[d][k]
    <3>1. CASE d \in DOMAIN us /\ k \in Keys(us[d])
      BY <2>7, <2>9, <3>1
    <3>2. CASE ~(d \in DOMAIN us /\ k \in Keys(us[d]))
      BY <1>1, <2>2, <2>8, <2>9, <3>2 DEF ViewOK
    <3> QED
      BY <3>1, <3>2
  <2>10. InView(s, d)' <=> d \in DOMAIN redis'.config
    BY <1>1, <2>2, <2>4 DEF ViewOK
  <2> QED
    BY <2>4, <2>9, <2>10 DEF ViewOK
<1> QED
  BY <1>1, <1>6, OthersViews DEF Handles, RequestsStay

LEMMA ParseReloadViews ==
  ASSUME Types, Views, F \subseteq F', NEW s \in Services, ParseReload(s)
  PROVE  Views'
<1>1. /\ Handles(s) /\ Only(s) /\ UNCHANGED <<requests, redis>> /\ mgr'[s].load = "flushed"
      /\ hub' = hub \/ (hub'.pc = hub.pc /\ hub'.req = hub.req /\ hub'.stored = hub.stored /\ hub'.dev = hub.dev)
  BY ParseReloadEffect DEF RequestKept
<1>2. ~Current(s)'
  BY <1>1 DEF Current
<1> QED
  BY <1>1, <1>2, OthersViews DEF Handles, RequestsStay

LEMMA GetConfigViews ==
  ASSUME Types, Views, F \subseteq F', NEW s \in Services, GetConfig(s)
  PROVE  Views'
<1>1. /\ Only(s) /\ UNCHANGED <<requests, inbox, hub, redis>> /\ mgr[s].load = "flushed"
      /\ IF s \in {"client", "ds"}
         THEN mgr'[s].load = "loading" /\ mgr'[s].session = redis.config /\ mgr'[s].devs = mgr[s].devs
         ELSE mgr'[s].load = "idle" /\ mgr'[s].session = mgr[s].session /\ mgr'[s].devs = redis.config
  BY GetConfigEffect
<1>2. DOMAIN mgr[s].session = {} /\ DOMAIN mgr[s].devs = {}
  BY <1>1 DEF Types, ManagersOK
<1>3. \A d: (InView(s, d)' <=> d \in DOMAIN redis.config) /\ (InView(s, d)' => View(s, d)' = redis.config[d])
  BY <1>1, <1>2 DEF InView, View, Devs
<1>4. \A d: ViewOK(s, d)'
  BY <1>1, <1>3 DEF ViewOK
<1> QED
  BY <1>1, <1>4, OthersViews DEF RequestsStay

LEMMA ClientLoadsViews ==
  ASSUME Types, Views, F \subseteq F', ClientLoads
  PROVE  Views'
<1> DEFINE m == mgr["client"]
           S == DOMAIN m.session \cap redis.info
<1>1. /\ Only("client") /\ UNCHANGED <<requests, inbox, hub, redis>> /\ m.alive /\ m.load = "loading"
      /\ mgr'["client"].session = <<>> /\ mgr'["client"].devs = Restrict(m.session, S)
      /\ log'.unloaded = log.unloaded \cup (DOMAIN m.session \ redis.info)
  BY ClientLoadsEffect
<1>2. DOMAIN m.devs = {} /\ "client" \in Services
  BY <1>1 DEF Types, ManagersOK, Services
<1> HIDE DEF m
<1>3. ASSUME Current("client")', NEW d \in Devices \ F' PROVE ViewOK("client", d)'
  <2>1. ViewOK("client", d)
    BY <1>1, <1>3 DEF Views, Current, Reloads, Services, m
  <2>2. d \notin DOMAIN m.session \ redis.info
    BY <1>1, <1>3 DEF F
  <2>3. DOMAIN mgr'["client"].session = {}
    BY <1>1, EmptySequence
  <2>4. DOMAIN mgr'["client"].devs = S /\ (d \in S => mgr'["client"].devs[d] = m.session[d])
    BY <1>1 DEF Restrict
  <2>5. InView("client", d)' <=> InView("client", d)
    BY <1>2, <2>2, <2>3, <2>4 DEF InView, Devs, m
  <2>6. InView("client", d) => View("client", d)' = View("client", d)
    BY <1>2, <2>2, <2>3, <2>4 DEF InView, View, Devs, m
  <2>7. \A k \in Fields: Unsettled("client", d, k) => Unsettled("client", d, k)'
    BY <1>1 DEF Unsettled, Mentioned, Mentions, Pending, Early, Single, Keys
  <2> QED
    BY <1>1, <2>1, <2>5, <2>6, <2>7, ViewKept
<1> QED
  BY <1>1, <1>2, <1>3, OthersViews DEF RequestsStay
LEMMA AsksStay ==
  ASSUME Types, NEW d, Asks(d)
  PROVE  RequestsStay
<1> DEFINE m == [id |-> fresh, action |-> "update", us |-> [x \in {d} |-> [enabled |-> FALSE]]]
<1>1. requests' = Append(requests, m) /\ IsSeq(requests)
  BY DEF Asks, DisableRequest, Types, QueuesOK, RequestsOK
<1> HIDE DEF m
<1>2. /\ Len(requests) \in Nat /\ DOMAIN requests = 1..Len(requests) /\ DOMAIN requests' = 1..(Len(requests) + 1)
      /\ \A i \in DOMAIN requests: requests'[i] = requests[i]
  BY <1>1, SeqAppend
<1> QED
  BY <1>2 DEF RequestsStay

\* The device server changes one entry of its own copy at most.
LEMMA DsViews ==
  ASSUME Views, F \subseteq F', Only("ds"), UNCHANGED <<hub, inbox>>, RequestsStay, redis'.config = redis.config,
         Current("ds")' => Current("ds"),
         Current("ds")' => \A d \in Devices \ F':
            /\ InView("ds", d)' <=> InView("ds", d)
            /\ InView("ds", d) => \A k \in Fields: Early("ds", d, k)' \/ View("ds", d)'[k] = View("ds", d)[k]
  PROVE  Views'
<1>1. "ds" \in Services
  BY DEF Services
<1>2. ASSUME Current("ds")', NEW d \in Devices \ F' PROVE ViewOK("ds", d)'
  <2>1. ViewOK("ds", d)
    BY <1>1, <1>2 DEF Views
  <2>2. \A k \in Fields: Unsettled("ds", d, k) => Unsettled("ds", d, k)'
    BY DEF Unsettled, Mentioned, Mentions, Pending, Early, Single, Keys, RequestsStay
  <2>3. \A k \in Fields: Early("ds", d, k)' => Unsettled("ds", d, k)'
    BY DEF Unsettled
  <2> QED
    BY <1>2, <2>1, <2>2, <2>3, ViewKept
<1> QED
  BY <1>1, <1>2, OthersViews

LEMMA DsLoadViews ==
  ASSUME Types, Views, F \subseteq F', DsLoad
  PROVE  Views'
<1>1. /\ mgr["ds"].alive /\ mgr["ds"].load = "loading" /\ UNCHANGED <<hub, inbox>>
      /\ LoadEnds \/ \E d \in Devices: LET e == mgr["ds"].session[d] IN LoadRefuses(d) \/ LoadFails(d, e) \/ LoadAdds(d, e)
  BY DsLoadEffect
<1>2. Current("ds")' => Current("ds")
  BY <1>1 DEF Current, Reloads
<1>3. CASE LoadEnds
  <2>1. Only("ds") /\ RequestsStay /\ redis'.config = redis.config
    BY <1>3 DEF LoadEnds, RequestsStay
  <2>2. \A d: (InView("ds", d)' <=> InView("ds", d)) /\ View("ds", d)' = View("ds", d)
    BY <1>3 DEF LoadEnds, InView, View, Devs
  <2> QED
    BY <1>1, <1>2, <2>1, <2>2, DsViews
<1>4. ASSUME NEW d \in Devices, NEW e, e = mgr["ds"].session[d], LoadRefuses(d) \/ LoadFails(d, e) \/ LoadAdds(d, e)
      PROVE  Views'
  <2>1. Takes(d) /\ redis'.config = redis.config /\ RequestsStay
    BY <1>4, AsksStay DEF LoadRefuses, LoadFails, LoadAdds, Informs, RequestsStay
  <2>2. (d \in F' /\ \A x \in DOMAIN mgr["ds"].devs: x # d => x \in DOMAIN mgr'["ds"].devs /\ mgr'["ds"].devs[x] = mgr["ds"].devs[x])
        \/ Adds(d, e)
    BY <1>4 DEF LoadRefuses, LoadFails, LoadAdds, Adds, F
  <2>3. \A x: x # d => (x \in DOMAIN mgr'["ds"].devs <=> x \in DOMAIN mgr["ds"].devs)
    BY <1>4 DEF LoadRefuses, LoadFails, LoadAdds, Adds
  <2>4. ASSUME NEW x \in Devices \ F'
        PROVE  (InView("ds", x)' <=> InView("ds", x)) /\ (InView("ds", x) => View("ds", x)' = View("ds", x))
    <3>1. CASE x = d
      BY <1>4, <2>1, <2>2, <2>4, <3>1 DEF Takes, Adds, InView, View, Devs
    <3>2. CASE x # d
      <4>1. x \in DOMAIN mgr["ds"].devs => mgr'["ds"].devs[x] = mgr["ds"].devs[x]
        BY <2>2, <3>2 DEF Adds
      <4>2. /\ x \in DOMAIN mgr'["ds"].session <=> x \in DOMAIN mgr["ds"].session
            /\ x \in DOMAIN mgr["ds"].session => mgr'["ds"].session[x] = mgr["ds"].session[x]
        BY <2>1, <3>2 DEF Takes
      <4> QED
        BY <2>3, <3>2, <4>1, <4>2 DEF InView, View, Devs
    <3> QED
      BY <3>1, <3>2
  <2>5. Only("ds")
    BY <2>1 DEF Takes
  <2> QED
    BY <1>1, <1>2, <2>1, <2>4, <2>5, DsViews
<1> QED
  BY <1>1, <1>3, <1>4

LEMMA DsUpdateViews ==
  ASSUME Types, AskedFor, Views, F \subseteq F', DsUpdate
  PROVE  Views'
<1> DEFINE d == dsh.ask.dev
           u == dsh.ask.u
<1>1. /\ mgr["ds"].alive /\ dsh.pc = "update" /\ UNCHANGED <<hub, inbox>> /\ redis' = redis
      /\ NoneThere(d) \/ ConfRefused(d, u) \/ ConfSet(d, u) \/ Disabled(d, u) \/ Enabled(d, u)
           \/ NotConnected(d, u) \/ CannotReconnect(d, u)
  BY DsUpdateEffect DEF DsHub
<1>2. d \in Devices /\ IsUpdate(u) /\ IsAwaited(dsh.ask)
  BY <1>1 DEF Types, DshOK, IsAsk, AskedFor
<1>3. d \in log.refused \/ (hub.pc = "wait" /\ d = hub.dev /\ Keys(u) \subseteq Keys(hub.req.us[d]))
  BY <1>2, HubAtDevice DEF IsAwaited, IsAsked
<1> HIDE DEF d, u
<1>4. log.refused \subseteq F'
  BY DEF F
<1>5. CASE DsDies
  <2>1. ~Current("ds")' /\ Only("ds")
    BY <1>5 DEF DsDies, Current
  <2>2. RequestsStay
    BY <1>1, <1>5 DEF NoneThere, ConfRefused, ConfSet, Disabled, Enabled, NotConnected, CannotReconnect, DsFinishes,
                      RequestsStay, DsDies, DsEntry, MgrSame
  <2> QED
    BY <1>1, <2>1, <2>2, DsViews
<1>6. CASE mgr' = mgr
  <2>1. RequestsStay
    BY <1>1, <1>2, <1>6, AsksStay DEF NoneThere, ConfRefused, ConfSet, Disabled, Enabled, NotConnected, CannotReconnect,
                      DsFinishes, RequestsStay
  <2>2. Only("ds")
    <3>1. DOMAIN mgr = Services /\ DOMAIN mgr["ds"] = MgrFields
      BY DEF Types, ManagersOK, IsManager, Services
    <3> QED
      BY <1>6, <3>1 DEF Only
  <2>3. (Current("ds")' => Current("ds")) /\ \A x: (InView("ds", x)' <=> InView("ds", x)) /\ View("ds", x)' = View("ds", x)
    BY <1>1, <1>6 DEF Current, Reloads, InView, View, Devs
  <2> QED
    BY <1>1, <2>1, <2>2, <2>3, DsViews
<1>7. ASSUME NEW b, DsEntry(d, b), "enabled" \in Keys(u), RequestsStay
      PROVE  Views'
  <2>1. Only("ds") /\ (Current("ds")' => Current("ds"))
    BY <1>1, <1>7 DEF DsEntry, MgrSame, Current, Reloads
  <2>2. ASSUME NEW x \in Devices \ F'
        PROVE  /\ InView("ds", x)' <=> InView("ds", x)
               /\ InView("ds", x) => \A k \in Fields: Early("ds", x, k)' \/ View("ds", x)'[k] = View("ds", x)[k]
    <3>1. InView("ds", x)' <=> InView("ds", x)
      BY <1>7 DEF DsEntry, MgrSame, InView, Devs
    <3>2. CASE x # d \/ x \in DOMAIN mgr["ds"].session
      <4>1. InView("ds", x) => View("ds", x)' = View("ds", x)
        BY <1>7, <3>2 DEF DsEntry, MgrSame, InView, View, Devs
      <4> QED
        BY <3>1, <4>1
    <3>3. CASE x = d /\ x \notin DOMAIN mgr["ds"].session
      <4>1. Early("ds", x, "enabled")'
        BY <1>1, <1>3, <1>4, <1>7, <2>2, <3>3 DEF Early, Keys
      <4>2. \A k \in {"conf", "param"}: View("ds", x)'[k] = View("ds", x)[k]
        <5>1. View("ds", x)' = mgr'["ds"].devs[x] /\ View("ds", x) = mgr["ds"].devs[x]
          BY <1>7, <3>3 DEF View, Devs, DsEntry, MgrSame
        <5>2. mgr'["ds"].devs[d].conf = mgr["ds"].devs[d].conf /\ mgr'["ds"].devs[d].param = mgr["ds"].devs[d].param
          BY <1>7 DEF DsEntry
        <5> QED
          BY <3>3, <5>1, <5>2
      <4> QED
        BY <3>1, <4>1, <4>2 DEF Fields
    <3> QED
      BY <3>2, <3>3
  <2> QED
    BY <1>1, <1>7, <2>1, <2>2, DsViews
<1>8. CASE Disabled(d, u) \/ Enabled(d, u) \/ NotConnected(d, u)
  <2>1. "enabled" \in Keys(u) /\ RequestsStay /\ \E b \in BOOLEAN: DsEntry(d, b)
    BY <1>8, AsksStay DEF Disabled, Enabled, NotConnected, Asked, DsFinishes, RequestsStay
  <2> QED
    BY <1>7, <2>1
<1> QED
  BY <1>1, <1>5, <1>6, <1>8 DEF NoneThere, ConfRefused, ConfSet, CannotReconnect
LEMMA ViewsStep ==
  ASSUME Types, AskedFor, Carried, Messages, Views, [Next]_vars
  PROVE  Views'
<1>1. F \subseteq F'
  BY LogGrows DEF F, Grows, LogFields
<1>2. CASE UNCHANGED <<hub, inbox, mgr, redis, requests>>
  <2>1. RequestsStay /\ StaysCurrent /\ \A s \in Services: \A d: SameView(s, d)
    BY <1>2 DEF RequestsStay, StaysCurrent, Current, Reloads, SameView
  <2>2. StaysUnsettled
    BY <1>2, UnsettledStays
  <2> QED
    BY <1>1, <1>2, <2>1, <2>2, ViewsKept
<1>3. CASE UNCHANGED vars
  BY <1>2, <1>3 DEF vars
<1>4. CASE Client
  <2>1. CASE SendRequest
    BY <1>1, <2>1, SendRequestViews
  <2>2. CASE NoSuchDevice \/ GetReply \/ ReplyTimesOut
    BY <1>2, <2>2 DEF NoSuchDevice, GetReply, ReplyTimesOut
  <2> QED
    BY <1>4, <2>1, <2>2 DEF Client
<1>5. CASE Hub
  BY <1>1, <1>5, HubReceiveViews, HubDeviceViews, HubAskViews, HubGetsAnswerViews, HubTimesOutViews, HubStoreViews, HubDoneViews DEF Hub
<1>6. CASE DsReceive \/ DsGivesUp
  BY <1>2, <1>6, DsReceiveEffect, DsGivesUpEffect
<1>7. CASE DsUpdate
  BY <1>1, <1>7, DsUpdateViews
<1>8. CASE DsLoad
  BY <1>1, <1>8, DsLoadViews
<1>9. CASE DsDisabled
  <2>1. /\ mgr["ds"].load = "disabling" /\ mgr["ds"].alive /\ Only("ds") /\ UNCHANGED <<requests, hub, inbox, redis>>
        /\ mgr'["ds"].session = mgr["ds"].session /\ mgr'["ds"].devs = mgr["ds"].devs
    BY <1>9, DsDisabledEffect
  <2>2. RequestsStay /\ (Current("ds")' => Current("ds"))
    BY <2>1 DEF RequestsStay, Current, Reloads
  <2>3. \A d: (InView("ds", d)' <=> InView("ds", d)) /\ View("ds", d)' = View("ds", d)
    BY <2>1 DEF InView, View, Devs
  <2> QED
    BY <1>1, <2>1, <2>2, <2>3, DsViews
<1>10. CASE ClientLoads
  BY <1>1, <1>10, ClientLoadsViews
<1>11. ASSUME NEW s \in Services, Manager(s) PROVE Views'
  BY <1>1, <1>11, ParseUpdateViews, ParseReloadViews, GetConfigViews DEF Manager
<1> QED
  BY <1>3, <1>4, <1>5, <1>6, <1>7, <1>8, <1>9, <1>10, <1>11 DEF Next, DsHandler, Done

\* When nothing is on its way, no copy can differ but where the exceptions say so.
LEMMA ViewsAgree ==
  ASSUME Types, Messages, Views
  PROVE  InAgreement
<1> SUFFICES ASSUME Quiet, NEW s \in Services, NEW d \in Devices, mgr[s].alive, d \notin F,
                    ~(s = "client" /\ \E i \in DOMAIN requests: d \in DOMAIN requests[i].us)
             PROVE  Same(s, d)
  BY DEF InAgreement, F
<1>1. inbox[s] = <<>> /\ mgr[s].load = "idle" /\ hub.pc = "idle"
  BY DEF Quiet
<1>2. DOMAIN inbox[s] = {}
  BY <1>1, EmptySequence
<1>3. ViewOK(s, d)
  BY <1>1, <1>2 DEF Views, Current, Reloads
<1>4. ManagersOK /\ RedisOK
  BY DEF Types
<1>5. DOMAIN mgr[s].session = {} /\ IsConfig(mgr[s].devs)
  <2>1. IsPlaced(s, mgr[s]) /\ IsManager(mgr[s])
    BY <1>4, ManagerIs
  <2> QED
    BY <1>1, <2>1 DEF IsPlaced, IsManager
<1>6. \A k: ~Unsettled(s, d, k)
  BY <1>1, <1>2 DEF Unsettled, Mentioned, Pending, Early, Single
<1>7. (d \in DOMAIN Devs(s) <=> d \in DOMAIN redis.config)
      /\ (d \in DOMAIN Devs(s) => \A k \in Fields: Devs(s)[d][k] = redis.config[d][k])
  BY <1>3, <1>5, <1>6 DEF ViewOK, InView, View
<1>8. d \in DOMAIN Devs(s) => IsEntry(Devs(s)[d]) /\ IsEntry(redis.config[d])
  BY <1>4, <1>5, <1>7 DEF IsConfig, Devs, RedisOK
<1> QED
  BY <1>7, <1>8, EntryEquals DEF Same

Agreed == Messages /\ Views
LEMMA AgreedHolds == Spec => [](Requested /\ Agreed)
<1>1. Init => Messages /\ Views
  BY MessagesInit, ViewsInit
<1>2. Requested /\ Agreed /\ [Next]_vars => Agreed'
  BY MessagesStep, ViewsStep DEF Requested, Accounts, Agreed
<1> QED
  BY <1>1, <1>2, RequestedHolds, PTL DEF Spec, Agreed

\* When no request, broadcast or load is under way, every device manager that is alive has
\* each device as redis has it, but for the devices that the log names and what the client
\* has changed in its own copy while SciHub was gone. The argument is about the steps before:
\* a copy may differ in a key only while an update of this key is in the service's queue or
\* will be broadcast by the request that SciHub is at, and the last such update brings the
\* value that redis has (Messages), or while the one who asks has changed its copy early.
THEOREM ServicesAgree == Spec => []InAgreement
<1>1. Requested /\ Agreed => InAgreement
  BY ViewsAgree DEF Requested, Accounts, Agreed
<1> QED
  BY <1>1, AgreedHolds, PTL

-----------------------------------------------------------------------------
(* Which services the requests end.                                        *)

LEMMA SurvivesInit == Init => Survives
<1> SUFFICES ASSUME Init PROVE Survives
  OBVIOUS
<1>1. PICK p \in DOMAIN Programs: InitiallyWith(Programs[p].config)
  BY DEF Init
<1> DEFINE config == Programs[p].config
<1>2. \A s \in Services: /\ mgr[s].alive = TRUE /\ mgr[s].gen = 1 /\ mgr[s].load = "idle" /\ mgr[s].devs = config
                         /\ mgr[s].session = <<>> /\ DOMAIN inbox[s] = {}
  BY <1>1, EmptySequence DEF InitiallyWith, Init
<1>3. redis.config = config /\ hub.pc = "idle" /\ dsh.pc = "idle"
  BY <1>1 DEF InitiallyWith, Init, Idle
<1>4. "hub" \in Services /\ "ds" \in Services /\ "client" \in Services /\ "server" \in Services
  BY DEF Services
<1> HIDE DEF config
<1>5. \A s \in Services: DOMAIN mgr[s].session = {}
  BY <1>2, EmptySequence
<1>6. \A s \in Services: Covers(s)
  BY <1>2, <1>3, <1>5 DEF Covers, InView, Devs
<1>7. Unreloaded
  BY <1>2, <1>3, <1>4 DEF Unreloaded, Devs, Reloads
<1>8. Told
  BY <1>2 DEF Told
<1> QED
  BY <1>2, <1>4, <1>6, <1>7, <1>8 DEF Survives, ServicesSurvive

DomainsSame(s) ==
  /\ mgr'[s].alive = mgr[s].alive /\ mgr'[s].gen = mgr[s].gen /\ mgr'[s].load = mgr[s].load
  /\ DOMAIN mgr'[s].devs = DOMAIN mgr[s].devs /\ DOMAIN mgr'[s].session = DOMAIN mgr[s].session
StoredSame == DOMAIN redis'.config = DOMAIN redis.config
Exceptions == log.gone \subseteq log'.gone /\ log.unloaded \subseteq log'.unloaded

LEMMA ToldKept ==
  ASSUME Told, Exceptions, StoredSame, \A s \in Services: \A i \in DOMAIN inbox'[s]: \E j \in DOMAIN inbox[s]: inbox'[s][i] = inbox[s][j]
  PROVE  Told'
<1> SUFFICES ASSUME log'.gone = {}, NEW s \in Services, NEW i \in DOMAIN inbox'[s], inbox'[s][i].action = "update"
             PROVE  DOMAIN inbox'[s][i].us \subseteq DOMAIN redis'.config
  BY DEF Told
<1>1. PICK j \in DOMAIN inbox[s]: inbox'[s][i] = inbox[s][j]
  OBVIOUS
<1> QED
  BY <1>1 DEF Told, Exceptions, StoredSame

LEMMA CoversKept ==
  ASSUME NEW s, Covers(s), Exceptions, StoredSame, inbox'[s] = inbox[s],
         Full(s)' => Full(s) /\ \A d: InView(s, d)' <=> InView(s, d)
  PROVE  Covers(s)'
<1> SUFFICES ASSUME Full(s)'
             PROVE  /\ ~Reloads(s)' => \A d \in Devices: InView(s, d)' <=> d \in DOMAIN redis'.config
                    /\ log'.gone = {} => \A i \in DOMAIN inbox'[s]: First(s, i)' => \A d \in DOMAIN inbox'[s][i].us: InView(s, d)'
  BY DEF Covers
<1>1. Full(s) /\ \A d: InView(s, d)' <=> InView(s, d)
  OBVIOUS
<1>2. Reloads(s)' <=> Reloads(s)
  BY DEF Reloads
<1>3. \A i: First(s, i)' <=> First(s, i)
  BY DEF First
<1> QED
  BY <1>1, <1>2, <1>3 DEF Covers, Exceptions, StoredSame

LEMMA FullSame ==
  ASSUME NEW s, DomainsSame(s), Exceptions
  PROVE  Full(s)' => Full(s) /\ \A d: InView(s, d)' <=> InView(s, d)
  BY DEF DomainsSame, Full, Exceptions, InView, Devs

HubStays ==
  hub'.pc # "idle" => (hub.pc # "idle" /\ hub'.req = hub.req) \/ DOMAIN hub'.req.us \subseteq DOMAIN Devs("hub")
DshStays ==
  dsh'.pc = "update" => (dsh.pc = "update" /\ dsh'.ask = dsh.ask) \/ dsh'.ask.dev \in DOMAIN Devs("ds")
LEMMA UnreloadedKept ==
  ASSUME Unreloaded, StoredSame, UNCHANGED inbox, DomainsSame("hub"), DomainsSame("ds"), HubStays, DshStays
  PROVE  Unreloaded'
<1> SUFFICES ASSUME mgr'["ds"].alive, mgr'["ds"].gen = 1
             PROVE  /\ mgr'["ds"].load = "idle"
                    /\ dsh'.pc = "update" => dsh'.ask.dev \in DOMAIN Devs("ds")'
                    /\ \A i \in DOMAIN inbox'["ds"]: First("ds", i)' => DOMAIN inbox'["ds"][i].us \subseteq DOMAIN Devs("ds")'
                    /\ ~Reloads("ds")' =>
                         /\ DOMAIN Devs("hub")' = DOMAIN redis'.config /\ DOMAIN Devs("ds")' = DOMAIN redis'.config
                         /\ mgr'["hub"].load = "idle" /\ ~Reloads("hub")'
                         /\ hub'.pc # "idle" => DOMAIN hub'.req.us \subseteq DOMAIN redis'.config
  BY DEF Unreloaded
<1>1. mgr["ds"].alive /\ mgr["ds"].gen = 1
  BY DEF DomainsSame
<1>2. (Reloads("ds")' <=> Reloads("ds")) /\ (Reloads("hub")' <=> Reloads("hub"))
  BY DEF Reloads
<1>3. \A i: First("ds", i)' <=> First("ds", i)
  BY DEF First
<1>4. DOMAIN Devs("ds")' = DOMAIN Devs("ds") /\ DOMAIN Devs("hub")' = DOMAIN Devs("hub")
  BY DEF DomainsSame, Devs
<1>5. mgr'["ds"].load = "idle" /\ (mgr["hub"].load = "idle" => mgr'["hub"].load = "idle")
  BY <1>1 DEF DomainsSame, Unreloaded
<1>6. dsh'.pc = "update" => dsh'.ask.dev \in DOMAIN Devs("ds")'
  BY <1>1, <1>4 DEF Unreloaded, DshStays
<1>7. \A i \in DOMAIN inbox'["ds"]: First("ds", i)' => DOMAIN inbox'["ds"][i].us \subseteq DOMAIN Devs("ds")'
  BY <1>1, <1>3, <1>4 DEF Unreloaded
<1>8. ASSUME ~Reloads("ds")'
      PROVE  /\ DOMAIN Devs("hub")' = DOMAIN redis'.config /\ DOMAIN Devs("ds")' = DOMAIN redis'.config
             /\ mgr'["hub"].load = "idle" /\ ~Reloads("hub")'
             /\ hub'.pc # "idle" => DOMAIN hub'.req.us \subseteq DOMAIN redis'.config
  BY <1>1, <1>2, <1>4, <1>5, <1>8 DEF Unreloaded, HubStays, StoredSame
<1> QED
  BY <1>5, <1>6, <1>7, <1>8

\* The steps by which no service gets or loses a device or a message.
LEMMA SurvivesKept ==
  ASSUME Survives, Exceptions, StoredSame, UNCHANGED inbox, \A s \in Services: DomainsSame(s),
         HubStays, DshStays, mgr["ds"].alive \/ obj' = obj
  PROVE  Survives'
<1>1. Told'
  BY ToldKept DEF Survives
<1>2. \A s \in Services \ {"ds"}: Covers(s)'
  BY CoversKept, FullSame DEF Survives
<1>3. "hub" \in Services /\ "ds" \in Services /\ "client" \in Services /\ "server" \in Services
  BY DEF Services
<1>4. Unreloaded'
  BY <1>3, UnreloadedKept DEF Survives
<1>5. \A s \in Services: mgr'[s].alive = mgr[s].alive /\ mgr'[s].gen = mgr[s].gen
  BY DEF DomainsSame
<1>6. ServicesSurvive'
  BY <1>3, <1>5 DEF Survives, ServicesSurvive, Exceptions
<1> QED
  BY <1>1, <1>2, <1>3, <1>4, <1>5, <1>6 DEF Survives
LEMMA FirstBroadcast ==
  ASSUME Types, NEW m, Broadcast(m), NEW s \in Services, mgr[s].alive, NEW i \in DOMAIN inbox'[s], First(s, i)'
  PROVE  \/ i \in DOMAIN inbox[s] /\ inbox'[s][i] = inbox[s][i] /\ First(s, i)
         \/ inbox'[s][i] = m /\ m.action = "update" /\ ~Reloads(s)
<1> DEFINE n == Len(inbox[s])
<1>1. /\ n \in Nat /\ DOMAIN inbox[s] = 1..n /\ DOMAIN inbox'[s] = 1..(n + 1) /\ inbox'[s][n + 1] = m
      /\ \A j \in DOMAIN inbox[s]: j \in DOMAIN inbox'[s] /\ inbox'[s][j] = inbox[s][j] /\ n + 1 > j
  BY BroadcastEffect
<1> HIDE DEF n
<1>2. CASE i = n + 1
  <2>1. \A j \in DOMAIN inbox[s]: j <= i
    BY <1>1, <1>2
  <2> QED
    BY <1>1, <1>2, <2>1 DEF First, Reloads
<1>3. CASE i # n + 1
  <2>1. i \in DOMAIN inbox[s]
    BY <1>1, <1>3
  <2> QED
    BY <1>1, <2>1 DEF First
<1> QED
  BY <1>2, <1>3

LEMMA BroadcastFrom ==
  ASSUME Types, NEW m, Broadcast(m), NEW s \in Services, NEW i \in DOMAIN inbox'[s]
  PROVE  inbox'[s][i] = m \/ (i \in DOMAIN inbox[s] /\ inbox'[s][i] = inbox[s][i])
<1>1. CASE mgr[s].alive
  <2> DEFINE n == Len(inbox[s])
  <2>1. /\ n \in Nat /\ DOMAIN inbox[s] = 1..n /\ DOMAIN inbox'[s] = 1..(n + 1) /\ inbox'[s][n + 1] = m
        /\ \A j \in DOMAIN inbox[s]: inbox'[s][j] = inbox[s][j]
    BY <1>1, BroadcastEffect
  <2> HIDE DEF n
  <2>2. i = n + 1 \/ i \in DOMAIN inbox[s]
    BY <2>1
  <2> QED
    BY <2>1, <2>2
<1>2. CASE ~mgr[s].alive
  BY <1>2 DEF Broadcast
<1> QED
  BY <1>1, <1>2

\* After a reload has been broadcast no service that is alive is held to what redis has.
LEMMA ReloadSurvives ==
  ASSUME Types, Survives, Exceptions, Broadcast([action |-> "reload"]), UNCHANGED <<mgr, hub, dsh, obj>>, Told'
  PROVE  Survives'
<1> DEFINE m == [action |-> "reload"]
<1>1. Broadcast(m) /\ m.action = "reload"
  OBVIOUS
<1>2. \A s \in Services: mgr[s].alive => Reloads(s)'
  BY MessagesReload
<1> HIDE DEF m
<1>3. ASSUME NEW s \in Services, mgr[s].alive, NEW i \in DOMAIN inbox'[s], First(s, i)'
      PROVE  i \in DOMAIN inbox[s] /\ inbox'[s][i] = inbox[s][i] /\ First(s, i)
  BY <1>1, <1>3, FirstBroadcast
<1>4. ASSUME NEW s \in Services \ {"ds"} PROVE Covers(s)'
  <2>1. (Full(s)' => Full(s) /\ mgr[s].alive) /\ \A d: InView(s, d)' <=> InView(s, d)
    BY DEF Full, InView, Devs, Exceptions
  <2>2. ASSUME Full(s)', log'.gone = {}, NEW i \in DOMAIN inbox'[s], First(s, i)'
        PROVE  \A d \in DOMAIN inbox'[s][i].us: InView(s, d)'
    BY <1>3, <2>1, <2>2 DEF Survives, Covers, Exceptions
  <2> QED
    BY <1>2, <2>1, <2>2 DEF Covers
<1>5. Unreloaded'
  <2>1. "ds" \in Services /\ (mgr["ds"].alive => Reloads("ds")')
    BY <1>2 DEF Services
  <2>2. Unreloaded
    BY DEF Survives
  <2> SUFFICES ASSUME mgr["ds"].alive, mgr["ds"].gen = 1
               PROVE  \A i \in DOMAIN inbox'["ds"]: First("ds", i)' => DOMAIN inbox'["ds"][i].us \subseteq DOMAIN Devs("ds")
    BY <2>1, <2>2 DEF Unreloaded, Devs
  <2> QED
    BY <1>3, <2>1, <2>2 DEF Unreloaded
<1>6. ServicesSurvive'
  BY DEF Survives, ServicesSurvive, Exceptions
<1> QED
  BY <1>4, <1>5, <1>6 DEF Survives

LEMMA HubReceiveSurvives ==
  ASSUME Types, Survives, HubReceive, Exceptions
  PROVE  Survives'
<1> DEFINE r == Head(requests)
<1>1. /\ hub.pc = "idle" /\ UNCHANGED <<mgr, dsh, obj>> /\ IsSent(r)
      /\ HubRefuses(r) \/ HubTakes(r) \/ HubReloads(r) \/ HubSets(r)
  <2>1. requests # <<>> /\ IsSeq(requests) /\ \A i \in DOMAIN requests: IsSent(requests[i])
    BY HubReceiveEffect DEF Types, QueuesOK, RequestsOK
  <2> QED
    BY <2>1, HubReceiveEffect, SeqTail
<1> HIDE DEF r
<1>2. Told /\ DshStays
  BY <1>1 DEF Survives, DshStays
<1>3. CASE HubRefuses(r) \/ HubTakes(r)
  <2>1. HubStays
    <3>1. CASE HubRefuses(r)
      BY <3>1 DEF HubRefuses, Idle, HubStays
    <3>2. CASE HubTakes(r)
      <4>1. hub'.req = r /\ DOMAIN r.us \subseteq DOMAIN Devs("hub")
        BY <3>2 DEF HubTakes, Valid
      <4> QED
        BY <4>1 DEF HubStays
    <3> QED
      BY <1>3, <3>1, <3>2
  <2>2. StoredSame /\ inbox' = inbox /\ \A s \in Services: DomainsSame(s)
    BY <1>1, <1>3 DEF HubRefuses, HubTakes, StoredSame, DomainsSame
  <2> QED
    BY <1>1, <1>2, <2>1, <2>2, SurvivesKept
<1>4. CASE HubReloads(r) \/ HubSets(r)
  <2> DEFINE m == [action |-> "reload"]
  <2>1. Broadcast(m) /\ m.action = "reload" /\ hub' = hub
    BY <1>4 DEF HubReloads, HubSets
  <2> HIDE DEF m
  <2>2. ASSUME log'.gone = {}, NEW s \in Services, NEW i \in DOMAIN inbox'[s], inbox'[s][i].action = "update"
        PROVE  DOMAIN inbox'[s][i].us \subseteq DOMAIN redis'.config
    <3>1. i \in DOMAIN inbox[s] /\ inbox'[s][i] = inbox[s][i]
      BY <2>1, <2>2, BroadcastFrom
    <3>2. CASE HubReloads(r)
      BY <1>2, <2>2, <3>1, <3>2 DEF HubReloads, Told, Exceptions
    <3>3. CASE HubSets(r)
      <4>1. Broadcasted \subseteq DOMAIN r.us /\ redis'.config = r.us
        BY <2>2, <3>3 DEF HubSets
      <4>2. inbox[s][i] \in Range(inbox[s])
        BY <3>1 DEF Range
      <4>3. DOMAIN inbox[s][i].us \subseteq Broadcasted
        BY <2>2, <3>1, <4>2 DEF Broadcasted
      <4> QED
        BY <3>1, <4>1, <4>3
    <3> QED
      BY <1>4, <3>2, <3>3
  <2>3. Told'
    BY <2>2 DEF Told
  <2> QED
    BY <1>1, <2>1, <2>3, ReloadSurvives DEF m
<1> QED
  BY <1>1, <1>3, <1>4

LEMMA HubDoneSurvives ==
  ASSUME Types, Survives, HubDone, Exceptions
  PROVE  Survives'
<1>1. hub.pc = "next" /\ hub' = Idle /\ UNCHANGED <<mgr, dsh, obj, redis>> /\ (HubTells \/ HubIsSilent)
  BY HubDoneEffect
<1>2. hub'.pc = "idle"
  BY <1>1 DEF Idle
<1>3. CASE HubIsSilent
  <2>1. HubStays /\ DshStays /\ StoredSame /\ inbox' = inbox /\ \A s \in Services: DomainsSame(s)
    BY <1>1, <1>2, <1>3 DEF HubStays, DshStays, StoredSame, DomainsSame, HubIsSilent
  <2> QED
    BY <1>1, <2>1, SurvivesKept
<1>4. CASE HubTells
  <2> DEFINE us == hub.req.us
             m == [action |-> "update", us |-> us]
  <2>1. Broadcast(m) /\ m.action = "update" /\ m.us = us /\ (log'.gone = {} => DOMAIN us \subseteq DOMAIN redis.config)
    BY <1>4 DEF HubTells
  <2>2. DOMAIN us \subseteq Devices
    <3>1. HubOK
      BY DEF Types
    <3> QED
      BY <1>1, <3>1, HubBusy
  <2> HIDE DEF m, us
  <2>3. Told'
    <3> SUFFICES ASSUME log'.gone = {}, NEW s \in Services, NEW i \in DOMAIN inbox'[s], inbox'[s][i].action = "update"
                 PROVE  DOMAIN inbox'[s][i].us \subseteq DOMAIN redis'.config
      BY DEF Told
    <3> QED
      BY <1>1, <2>1, BroadcastFrom DEF Survives, Told, Exceptions
  <2>4. \A s \in Services: mgr[s].alive => (Reloads(s) => Reloads(s)')
    <3> SUFFICES ASSUME NEW s \in Services, mgr[s].alive, NEW i \in DOMAIN inbox[s], inbox[s][i].action = "reload" PROVE Reloads(s)'
      BY DEF Reloads
    <3>1. i \in DOMAIN inbox'[s] /\ inbox'[s][i] = inbox[s][i]
      BY <2>1, BroadcastEffect
    <3> QED
      BY <3>1 DEF Reloads
  <2>5. ASSUME NEW s \in Services \ {"ds"} PROVE Covers(s)'
    <3>1. (Full(s)' => Full(s) /\ mgr[s].alive) /\ Covers(s) /\ \A d: InView(s, d)' <=> InView(s, d)
      BY <1>1 DEF Full, InView, Devs, Exceptions, Survives
    <3>2. ASSUME Full(s)', log'.gone = {}, NEW i \in DOMAIN inbox'[s], First(s, i)', NEW d \in DOMAIN inbox'[s][i].us
          PROVE  InView(s, d)'
      <4>1. log.gone = {}
        BY <3>2 DEF Exceptions
      <4>2. CASE i \in DOMAIN inbox[s] /\ inbox'[s][i] = inbox[s][i] /\ First(s, i)
        BY <3>1, <3>2, <4>1, <4>2 DEF Covers
      <4>3. CASE inbox'[s][i] = m /\ ~Reloads(s)
        <5>1. d \in Devices /\ d \in DOMAIN redis.config
          BY <2>1, <2>2, <3>2, <4>3
        <5> QED
          BY <3>1, <3>2, <4>3, <5>1 DEF Covers
      <4> QED
        BY <2>1, <3>1, <3>2, <4>2, <4>3, FirstBroadcast
    <3> QED
      BY <1>1, <2>4, <3>1, <3>2 DEF Covers
  <2>6. Unreloaded'
    <3>1. "ds" \in Services /\ Unreloaded
      BY DEF Survives, Services
    <3> SUFFICES ASSUME mgr["ds"].alive, mgr["ds"].gen = 1
                 PROVE  /\ \A i \in DOMAIN inbox'["ds"]: First("ds", i)' => DOMAIN inbox'["ds"][i].us \subseteq DOMAIN Devs("ds")
                        /\ ~Reloads("ds")' => ~Reloads("ds") /\ ~Reloads("hub")'
      BY <1>1, <1>2, <3>1 DEF Unreloaded, Devs
    <3>2. ~Reloads("ds") => DOMAIN us \subseteq DOMAIN Devs("ds")
      BY <1>1, <3>1 DEF Unreloaded, us
    <3>3. ASSUME NEW i \in DOMAIN inbox'["ds"], First("ds", i)'
          PROVE  DOMAIN inbox'["ds"][i].us \subseteq DOMAIN Devs("ds")
      BY <2>1, <3>1, <3>2, <3>3, FirstBroadcast DEF Unreloaded
    <3>4. ~Reloads("hub") => ~Reloads("hub")'
      <4> SUFFICES ASSUME NEW i \in DOMAIN inbox'["hub"], inbox'["hub"][i].action = "reload" PROVE Reloads("hub")
        BY DEF Reloads
      <4>1. "hub" \in Services
        BY DEF Services
      <4> QED
        BY <2>1, <4>1, BroadcastFrom DEF Reloads
    <3> QED
      BY <2>4, <3>1, <3>3, <3>4 DEF Unreloaded
  <2>7. ServicesSurvive'
    BY <1>1 DEF Survives, ServicesSurvive, Exceptions
  <2> QED
    BY <1>1, <2>3, <2>5, <2>6, <2>7 DEF Survives
<1> QED
  BY <1>1, <1>3, <1>4
LEMMA HubSurvives ==
  ASSUME Types, Survives, Hub, Exceptions
  PROVE  Survives'
<1>1. CASE HubReceive
  BY <1>1, HubReceiveSurvives
<1>2. CASE HubDone
  BY <1>2, HubDoneSurvives
<1>3. CASE HubDevice
  <2>1. hub.pc = "next" /\ UNCHANGED <<dsh, obj, inbox, mgr, redis>> /\ (HubStarts(Head(hub.left)) \/ HubMisses)
    BY <1>3, HubDeviceEffect
  <2>2. HubStays
    <3>1. CASE HubStarts(Head(hub.left))
      BY <2>1, <3>1 DEF HubStays, HubStarts
    <3>2. CASE HubMisses
      BY <3>2 DEF HubStays, HubMisses, Idle
    <3> QED
      BY <2>1, <3>1, <3>2
  <2> QED
    BY <2>1, <2>2, SurvivesKept DEF DshStays, StoredSame, DomainsSame
<1>4. CASE HubAsk \/ HubGetsAnswer
  <2>1. hub.pc \in {"ask", "wait"} /\ UNCHANGED <<inbox, dsh, obj, redis>> /\ RequestKept /\ \E e: EntryBecomes(e)
    BY <1>4, HubAskEffect, HubGetsAnswerEffect
  <2>2. \A s \in Services: DomainsSame(s)
    BY <2>1 DEF EntryBecomes, DomainsSame
  <2> QED
    BY <2>1, <2>2, SurvivesKept DEF HubStays, DshStays, StoredSame, RequestKept
<1>5. CASE HubTimesOut
  <2>1. hub' = Idle /\ UNCHANGED <<inbox, mgr, dsh, obj, redis>>
    BY <1>5, HubTimesOutEffect
  <2> QED
    BY <2>1, SurvivesKept DEF HubStays, Idle, DshStays, StoredSame, DomainsSame
<1>6. CASE HubStore
  <2> DEFINE e == Apply(Entry, hub.u)
  <2>1. hub.pc = "ask" /\ UNCHANGED <<dsh, obj>> /\ (HubSkips \/ (EntryBecomes(e) /\ (HubFails \/ HubWrites(e))))
    BY <1>6, HubStoreEffect
  <2> HIDE DEF e
  <2>2. inbox' = inbox /\ StoredSame
    BY <2>1 DEF HubSkips, HubFails, HubWrites, Stores, StoredSame
  <2>3. \A s \in Services: DomainsSame(s)
    BY <2>1 DEF HubSkips, EntryBecomes, DomainsSame
  <2>4. HubStays
    <3>1. CASE HubFails
      BY <3>1 DEF HubStays, HubFails, Idle
    <3>2. CASE RequestKept
      BY <2>1, <3>2 DEF HubStays, RequestKept
    <3> QED
      BY <2>1, <3>1, <3>2 DEF HubSkips, HubWrites
  <2> QED
    BY <2>1, <2>2, <2>3, <2>4, SurvivesKept DEF DshStays
<1> QED
  BY <1>1, <1>2, <1>3, <1>4, <1>5, <1>6 DEF Hub

\* The queue of a service after its first message.
LEMMA HandledFirst ==
  ASSUME Types, NEW s \in Services, Handles(s)
  PROVE  /\ 1 \in DOMAIN inbox[s] /\ Head(inbox[s]) = inbox[s][1]
         /\ \A i \in DOMAIN inbox'[s]: i + 1 \in DOMAIN inbox[s] /\ inbox'[s][i] = inbox[s][i + 1]
         /\ \A i \in DOMAIN inbox[s]: i # 1 => i - 1 \in DOMAIN inbox'[s] /\ inbox'[s][i - 1] = inbox[s][i]
         /\ Head(inbox[s]).action = "update" =>
              /\ First(s, 1) /\ (Reloads(s)' <=> Reloads(s))
              /\ \A i \in DOMAIN inbox'[s]: First(s, i)' => First(s, i + 1)
<1> DEFINE q == inbox[s]
<1>1. IsSeq(q) /\ q # <<>> /\ inbox'[s] = Tail(q)
  BY DEF Handles, Types, InboxOK
<1>2. /\ Len(q) \in Nat /\ DOMAIN q = 1..Len(q) /\ Head(q) = q[1] /\ 1 \in DOMAIN q
      /\ DOMAIN Tail(q) = 1..(Len(q) - 1)
      /\ \A i \in DOMAIN Tail(q): Tail(q)[i] = q[i + 1] /\ i + 1 \in DOMAIN q
      /\ \A i \in DOMAIN q: i # 1 => i - 1 \in DOMAIN Tail(q) /\ Tail(q)[i - 1] = q[i]
  BY <1>1, SeqTail
<1> DEFINE t == Tail(q)
<1>3. inbox'[s] = t
  BY <1>1
<1> HIDE DEF q, t
<1>4. ASSUME Head(q).action = "update"
      PROVE  /\ First(s, 1) /\ (Reloads(s)' <=> Reloads(s))
             /\ \A i \in DOMAIN inbox'[s]: First(s, i)' => First(s, i + 1)
  <2>1. q[1].action = "update" /\ q[1].action # "reload"
    BY <1>2, <1>4
  <2>2. First(s, 1)
    <3>1. \A j \in DOMAIN q: j <= 1 => j = 1
      BY <1>2
    <3> QED
      BY <2>1, <3>1 DEF First, q
  <2>3. Reloads(s)' <=> Reloads(s)
    BY <1>2, <1>3, <2>1 DEF Reloads, t, q
  <2>4. ASSUME NEW i \in DOMAIN t, First(s, i)' PROVE First(s, i + 1)
    <3>1. t[i].action = "update" /\ q[i + 1] = t[i] /\ \A j \in DOMAIN t: j <= i => t[j].action # "reload"
      BY <1>2, <1>3, <2>4 DEF First, t
    <3>2. ASSUME NEW j \in DOMAIN q, j <= i + 1 PROVE q[j].action # "reload"
      <4>1. CASE j = 1
        BY <2>1, <4>1
      <4>2. CASE j # 1
        <5>1. i \in 1..(Len(q) - 1) /\ j \in 1..Len(q) /\ Len(q) \in Nat
          BY <1>2, <2>4 DEF t
        <5>2. j - 1 <= i
          BY <3>2, <5>1
        <5>3. j - 1 \in DOMAIN t /\ t[j - 1] = q[j]
          BY <1>2, <4>2 DEF t
        <5> QED
          BY <3>1, <5>2, <5>3
      <4> QED
        BY <4>1, <4>2
    <3> QED
      BY <3>1, <3>2 DEF First, q
  <2> QED
    BY <1>3, <2>2, <2>3, <2>4
<1> QED
  BY <1>2, <1>3, <1>4 DEF q, t
LEMMA HandledTold ==
  ASSUME Types, Survives, Exceptions, NEW s \in Services, Handles(s), StoredSame
  PROVE  Told'
<1>1. \A t \in Services: \A i \in DOMAIN inbox'[t]: \E j \in DOMAIN inbox[t]: inbox'[t][i] = inbox[t][j]
  <2> SUFFICES ASSUME NEW t \in Services, NEW i \in DOMAIN inbox'[t]
               PROVE  \E j \in DOMAIN inbox[t]: inbox'[t][i] = inbox[t][j]
    OBVIOUS
  <2>1. CASE t = s
    BY <2>1, HandledFirst
  <2>2. CASE t # s
    BY <2>2 DEF Handles
  <2> QED
    BY <2>1, <2>2
<1> QED
  BY <1>1, ToldKept DEF Survives

LEMMA OthersCovered ==
  ASSUME Survives, Exceptions, NEW s, Only(s), StoredSame, NEW t \in Services \ {"ds"}, t # s, inbox'[t] = inbox[t]
  PROVE  Covers(t)'
<1>1. mgr'[t] = mgr[t]
  BY DEF Only
<1>2. DomainsSame(t) /\ Covers(t)
  BY <1>1 DEF DomainsSame, Survives
<1> QED
  BY <1>2, FullSame, CoversKept

LEMMA ParseUpdateSurvives ==
  ASSUME Types, Survives, Exceptions, NEW s \in Services, ParseUpdate(s)
  PROVE  Survives'
<1> DEFINE q == inbox[s]
           us == Head(q).us
<1>1. /\ Handles(s) /\ Head(q).action = "update" /\ Only(s) /\ UNCHANGED <<hub, dsh, obj, redis>>
      /\ mgr'[s].gen = mgr[s].gen /\ mgr'[s].session = mgr[s].session /\ mgr'[s].load = mgr[s].load
  BY ParseUpdateEffect
<1>2. IF DOMAIN us \subseteq DOMAIN Devs(s)
      THEN mgr'[s].devs = ApplyTo(mgr[s].devs, us) /\ mgr'[s].alive = mgr[s].alive
      ELSE mgr'[s].devs = mgr[s].devs /\ mgr'[s].alive = FALSE
  BY ParseUpdateEffect
<1>3. DOMAIN mgr'[s].devs = DOMAIN mgr[s].devs
  BY <1>2 DEF ApplyTo
<1>4. /\ First(s, 1) /\ 1 \in DOMAIN q /\ us = q[1].us /\ (Reloads(s)' <=> Reloads(s))
      /\ \A i \in DOMAIN inbox'[s]: First(s, i)' => First(s, i + 1) /\ i + 1 \in DOMAIN q /\ inbox'[s][i] = q[i + 1]
  BY <1>1, HandledFirst
<1>5. mgr[s].alive /\ mgr[s].load = "idle" /\ DOMAIN mgr[s].session = {} /\ mgr[s].gen \in Nat
  <2>1. IsPlaced(s, mgr[s]) /\ IsManager(mgr[s])
    BY ManagerIs DEF Types
  <2> QED
    BY <1>1, <2>1 DEF IsPlaced, IsManager, Handles
<1> HIDE DEF us
<1>6. StoredSame /\ Told'
  BY <1>1, HandledTold DEF StoredSame
<1>7. \A d: InView(s, d)' <=> InView(s, d)
  BY <1>1, <1>3 DEF InView, Devs
<1>8. ASSUME NEW t \in Services \ {"ds"} PROVE Covers(t)'
  <2>1. CASE t # s
    BY <1>1, <1>6, <2>1, OthersCovered DEF Handles
  <2>2. CASE t = s
    <3>1. Full(s)' => Full(s)
      BY <1>1, <1>5 DEF Full, Exceptions
    <3>2. Covers(s)
      BY <2>2 DEF Survives
    <3>3. ASSUME Full(s)', log'.gone = {}, NEW i \in DOMAIN inbox'[s], First(s, i)'
          PROVE  \A d \in DOMAIN inbox'[s][i].us: InView(s, d)'
      BY <1>4, <1>7, <3>1, <3>2, <3>3 DEF Covers, Exceptions
    <3> QED
      BY <1>4, <1>6, <1>7, <2>2, <3>1, <3>2, <3>3 DEF Covers, StoredSame
  <2> QED
    BY <2>1, <2>2
<1>9. Unreloaded'
  <2>1. "hub" \in Services /\ "ds" \in Services /\ Unreloaded
    BY DEF Services, Survives
  <2>2. \A t \in Services: DOMAIN Devs(t)' = DOMAIN Devs(t) /\ mgr'[t].load = mgr[t].load /\ mgr'[t].gen = mgr[t].gen
    BY <1>1, <1>3 DEF Only, Devs
  <2>3. mgr'["ds"].alive => mgr["ds"].alive
    BY <1>1, <1>5, <2>1 DEF Only
  <2>4. \A t \in Services: Reloads(t)' <=> Reloads(t)
    <3> SUFFICES ASSUME NEW t \in Services, t # s PROVE Reloads(t)' <=> Reloads(t)
      BY <1>4
    <3> QED
      BY <1>1 DEF Handles, Reloads
  <2>5. ASSUME mgr["ds"].alive, mgr["ds"].gen = 1, NEW i \in DOMAIN inbox'["ds"], First("ds", i)'
        PROVE  DOMAIN inbox'["ds"][i].us \subseteq DOMAIN Devs("ds")
    <3>1. CASE s = "ds"
      BY <1>4, <2>1, <2>5, <3>1 DEF Unreloaded
    <3>2. CASE s # "ds"
      <4>1. inbox'["ds"] = inbox["ds"]
        BY <1>1, <2>1, <3>2 DEF Handles
      <4>2. First("ds", i)
        BY <2>5, <4>1 DEF First
      <4> QED
        BY <2>1, <2>5, <4>1, <4>2 DEF Unreloaded
    <3> QED
      BY <3>1, <3>2
  <2> SUFFICES ASSUME mgr["ds"].alive, mgr["ds"].gen = 1
               PROVE  /\ mgr'["ds"].load = "idle"
                      /\ dsh.pc = "update" => dsh.ask.dev \in DOMAIN Devs("ds")'
                      /\ ~Reloads("ds")' =>
                           /\ DOMAIN Devs("hub")' = DOMAIN redis.config /\ DOMAIN Devs("ds")' = DOMAIN redis.config
                           /\ mgr'["hub"].load = "idle" /\ ~Reloads("hub")'
                           /\ hub.pc # "idle" => DOMAIN hub.req.us \subseteq DOMAIN redis.config
    BY <1>1, <2>1, <2>2, <2>3, <2>5 DEF Unreloaded
  <2> QED
    BY <2>1, <2>2, <2>4 DEF Unreloaded
<1>10. ServicesSurvive'
  <2>1. CASE DOMAIN us \subseteq DOMAIN Devs(s)
    <3>1. \A t \in Services: mgr'[t].alive = mgr[t].alive /\ mgr'[t].gen = mgr[t].gen
      BY <1>1, <1>2, <2>1 DEF Only
    <3> QED
      BY <1>1, <3>1 DEF Survives, ServicesSurvive, Services, Exceptions
  <2>2. CASE ~(DOMAIN us \subseteq DOMAIN Devs(s))
    <3>1. s = "ds" => mgr[s].gen > 1
      <4>1. s = "ds" => mgr[s].gen # 1 /\ mgr[s].gen # 0
        BY <1>4, <1>5, <2>2 DEF Survives, Unreloaded
      <4> QED
        BY <1>5, <4>1
    <3>2. s # "ds" /\ log.gone = {} => s = "client" /\ log.unloaded # {}
      <4> SUFFICES ASSUME s # "ds", log.gone = {}, Full(s) PROVE FALSE
        BY <1>5 DEF Full
      <4>1. \A d \in DOMAIN us: InView(s, d)
        BY <1>4 DEF Survives, Covers
      <4> QED
        BY <1>5, <2>2, <4>1 DEF InView
    <3>3. (\A t \in Services: t # s => mgr'[t].alive = mgr[t].alive /\ mgr'[t].gen = mgr[t].gen) /\ mgr'[s].gen = mgr[s].gen
      BY <1>1 DEF Only
    <3>4. CASE s = "ds"
      BY <1>1, <3>1, <3>3, <3>4 DEF Survives, ServicesSurvive, Services, Exceptions
    <3>5. CASE s # "ds"
      BY <1>1, <3>2, <3>3, <3>5 DEF Survives, ServicesSurvive, Services, Exceptions
    <3> QED
      BY <3>4, <3>5
  <2> QED
    BY <2>1, <2>2
<1>11. mgr'["ds"].gen # 0
  BY <1>1 DEF Only, Survives, Services
<1> QED
  BY <1>6, <1>8, <1>9, <1>10, <1>11 DEF Survives
\* No service is ended by these steps, and the device server has not reloaded before.
LEMMA AliveSame ==
  ASSUME Survives, Exceptions, \A t \in Services: mgr'[t].alive = mgr[t].alive, mgr["ds"].alive \/ obj' = obj,
         mgr'["ds"].gen = mgr["ds"].gen \/ (mgr["ds"].gen \in Nat /\ mgr'["ds"].gen = mgr["ds"].gen + 1)
  PROVE  ServicesSurvive' /\ mgr'["ds"].gen # 0
<1>1. mgr["ds"].gen # 0 /\ ServicesSurvive
  BY DEF Survives
<1>2. (mgr["ds"].gen > 1 => mgr'["ds"].gen > 1) /\ mgr'["ds"].gen # 0
  BY <1>1
<1> QED
  BY <1>1, <1>2 DEF ServicesSurvive, Services, Exceptions

LEMMA ParseReloadSurvives ==
  ASSUME Types, Survives, Exceptions, NEW s \in Services, ParseReload(s)
  PROVE  Survives'
<1>1. /\ Handles(s) /\ Head(inbox[s]).action = "reload" /\ Only(s) /\ UNCHANGED <<dsh, redis>> /\ mgr'[s].alive = mgr[s].alive
      /\ mgr'[s].gen = mgr[s].gen + 1 /\ mgr'[s].load = "flushed" /\ (s # "ds" => obj' = obj)
      /\ hub' = hub \/ (hub'.pc = hub.pc /\ hub'.req = hub.req)
  BY ParseReloadEffect DEF RequestKept
<1>2. StoredSame /\ Told'
  BY <1>1, HandledTold DEF StoredSame
<1>3. "ds" \in Services /\ "hub" \in Services /\ Unreloaded /\ mgr[s].gen \in Nat /\ mgr["ds"].gen # 0 /\ Reloads(s) /\ mgr[s].alive
  <2>1. IsManager(mgr[s])
    BY ManagerIs DEF Types
  <2>2. Reloads(s)
    BY <1>1, HandledFirst DEF Reloads
  <2> QED
    BY <1>1, <2>1, <2>2 DEF Services, Survives, IsManager, Handles
<1>4. ASSUME NEW t \in Services \ {"ds"} PROVE Covers(t)'
  <2>1. CASE t # s
    BY <1>1, <1>2, <2>1, OthersCovered DEF Handles
  <2>2. CASE t = s
    BY <1>1, <2>2 DEF Covers, Full
  <2> QED
    BY <2>1, <2>2
<1>5. Unreloaded'
  <2>1. CASE s = "ds"
    <3>1. mgr'["ds"].gen # 1
      BY <1>1, <1>3, <2>1
    <3> QED
      BY <3>1 DEF Unreloaded
  <2>2. CASE s # "ds"
    <3>1. mgr'["ds"] = mgr["ds"] /\ inbox'["ds"] = inbox["ds"]
      BY <1>1, <1>3, <2>2 DEF Only, Handles
    <3>2. (Reloads("ds")' <=> Reloads("ds")) /\ \A i: First("ds", i)' <=> First("ds", i)
      BY <3>1 DEF Reloads, First
    <3>3. CASE s = "hub"
      BY <1>1, <1>3, <3>1, <3>2, <3>3 DEF Unreloaded, Devs
    <3>4. CASE s # "hub"
      <4>1. mgr'["hub"] = mgr["hub"] /\ inbox'["hub"] = inbox["hub"]
        BY <1>1, <1>3, <3>4 DEF Only, Handles
      <4>2. Reloads("hub")' <=> Reloads("hub")
        BY <4>1 DEF Reloads
      <4> QED
        BY <1>1, <1>3, <3>1, <3>2, <4>1, <4>2 DEF Unreloaded, Devs
    <3> QED
      BY <3>3, <3>4
  <2> QED
    BY <2>1, <2>2
<1>6. \A t \in Services: mgr'[t].alive = mgr[t].alive
  BY <1>1 DEF Only
<1>7. mgr["ds"].alive \/ obj' = obj
  BY <1>1, <1>3
<1>8. mgr'["ds"].gen = mgr["ds"].gen \/ (mgr["ds"].gen \in Nat /\ mgr'["ds"].gen = mgr["ds"].gen + 1)
  BY <1>1, <1>3 DEF Only
<1> QED
  BY <1>2, <1>4, <1>5, <1>6, <1>7, <1>8, AliveSame DEF Survives

LEMMA GetConfigSurvives ==
  ASSUME Types, Survives, Exceptions, NEW s \in Services, GetConfig(s)
  PROVE  Survives'
<1>1. /\ mgr[s].alive /\ mgr[s].load = "flushed" /\ Only(s) /\ UNCHANGED <<inbox, hub, dsh, obj, redis, log>>
      /\ mgr'[s].alive = mgr[s].alive /\ mgr'[s].gen = mgr[s].gen
      /\ IF s \in {"client", "ds"}
         THEN mgr'[s].load = "loading" /\ mgr'[s].session = redis.config /\ mgr'[s].devs = mgr[s].devs
         ELSE mgr'[s].load = "idle" /\ mgr'[s].session = mgr[s].session /\ mgr'[s].devs = redis.config
  BY GetConfigEffect
<1>2. DOMAIN mgr[s].session = {} /\ DOMAIN mgr[s].devs = {} /\ IsConfig(redis.config)
  BY <1>1 DEF Types, ManagersOK, RedisOK
<1>3. \A d: InView(s, d)' <=> d \in DOMAIN redis.config
  BY <1>1, <1>2 DEF InView, Devs
<1>4. Told /\ Unreloaded /\ "ds" \in Services /\ "hub" \in Services
  BY DEF Survives, Services
<1>5. Told'
  BY <1>1, <1>4 DEF Told
<1>6. ASSUME NEW t \in Services \ {"ds"} PROVE Covers(t)'
  <2>1. CASE t # s
    BY <1>1, <2>1, OthersCovered DEF StoredSame
  <2>2. CASE t = s
    <3>1. \A i \in DOMAIN inbox[s]: log.gone = {} /\ First(s, i) => \A d \in DOMAIN inbox[s][i].us: InView(s, d)'
      BY <1>3, <1>4 DEF Told, First
    <3>2. \A i: First(s, i)' <=> First(s, i)
      BY <1>1 DEF First
    <3> QED
      BY <1>1, <1>3, <2>2, <3>1, <3>2 DEF Covers
  <2> QED
    BY <2>1, <2>2
<1>7. Unreloaded'
  <2>1. \A t: (Reloads(t)' <=> Reloads(t)) /\ \A i: First(t, i)' <=> First(t, i)
    BY <1>1 DEF Reloads, First
  <2>2. CASE s = "ds"
    <3>1. mgr["ds"].gen # 1 /\ mgr'["ds"].gen = mgr["ds"].gen
      BY <1>1, <1>4, <2>2 DEF Unreloaded
    <3> QED
      BY <3>1 DEF Unreloaded
  <2>3. CASE s # "ds"
    <3>1. mgr'["ds"] = mgr["ds"]
      BY <1>1, <1>4, <2>3 DEF Only
    <3>2. CASE s = "hub"
      BY <1>1, <1>4, <2>1, <3>1, <3>2 DEF Unreloaded, Devs
    <3>3. CASE s # "hub"
      <4>1. mgr'["hub"] = mgr["hub"]
        BY <1>1, <1>4, <3>3 DEF Only
      <4> QED
        BY <1>1, <1>4, <2>1, <3>1, <4>1 DEF Unreloaded, Devs
    <3> QED
      BY <3>2, <3>3
  <2> QED
    BY <2>2, <2>3
<1>8. \A t \in Services: mgr'[t].alive = mgr[t].alive /\ mgr'[t].gen = mgr[t].gen
  BY <1>1 DEF Only
<1> QED
  BY <1>1, <1>4, <1>5, <1>6, <1>7, <1>8, AliveSame DEF Survives

LEMMA ClientLoadsSurvives ==
  ASSUME Types, Survives, Exceptions, ClientLoads
  PROVE  Survives'
<1> DEFINE m == mgr["client"]
<1>1. /\ m.alive /\ m.load = "loading" /\ Only("client") /\ UNCHANGED <<inbox, hub, dsh, obj, redis>>
      /\ mgr'["client"].alive = m.alive /\ mgr'["client"].session = <<>>
      /\ mgr'["client"].devs = Restrict(m.session, DOMAIN m.session \cap redis.info)
      /\ log'.unloaded = log.unloaded \cup (DOMAIN m.session \ redis.info)
  BY ClientLoadsEffect
<1>2. DOMAIN m.devs = {} /\ "client" \in Services /\ "ds" \in Services /\ "hub" \in Services
  BY <1>1 DEF Types, ManagersOK, Services
<1>3. DOMAIN mgr'["client"].session = {} /\ DOMAIN mgr'["client"].devs = DOMAIN m.session \cap redis.info
  BY <1>1, EmptySequence DEF Restrict
<1>4. Full("client")' => Full("client") /\ \A d: InView("client", d)' <=> InView("client", d)
  <2> SUFFICES ASSUME Full("client")' PROVE Full("client") /\ \A d: InView("client", d)' <=> InView("client", d)
    OBVIOUS
  <2>1. log'.unloaded = {}
    BY DEF Full
  <2> QED
    BY <1>1, <1>2, <1>3, <2>1 DEF Full, InView, Devs
<1>5. \A t \in Services: t # "client" => mgr'[t] = mgr[t]
  BY <1>1 DEF Only
<1>6. ASSUME NEW t \in Services \ {"ds"} PROVE Covers(t)'
  <2>1. CASE t # "client"
    BY <1>1, <2>1, OthersCovered DEF StoredSame
  <2>2. CASE t = "client"
    BY <1>1, <1>2, <1>4, <2>2, CoversKept DEF StoredSame, Survives
  <2> QED
    BY <2>1, <2>2
<1>7. Told'
  BY <1>1, ToldKept DEF Survives, StoredSame
<1>8. Unreloaded'
  BY <1>1, <1>2, <1>5, UnreloadedKept DEF Survives, StoredSame, DomainsSame, HubStays, DshStays
<1> QED
  BY <1>1, <1>2, <1>5, <1>6, <1>7, <1>8, AliveSame DEF Survives

LEMMA DsLoadSurvives ==
  ASSUME Types, Survives, Exceptions, DsLoad \/ DsDisabled
  PROVE  Survives'
<1>1. mgr["ds"].alive /\ mgr["ds"].load # "idle" /\ UNCHANGED <<inbox, hub, dsh>> /\ Only("ds") /\ StoredSame
      /\ mgr'["ds"].alive = mgr["ds"].alive /\ mgr'["ds"].gen = mgr["ds"].gen
  <2>1. CASE DsDisabled
    BY <2>1, DsDisabledEffect DEF StoredSame
  <2>2. CASE DsLoad
    <3>1. /\ mgr["ds"].alive /\ mgr["ds"].load = "loading" /\ UNCHANGED <<inbox, hub, dsh>>
          /\ LoadEnds \/ \E d \in Devices: LET e == mgr["ds"].session[d] IN LoadRefuses(d) \/ LoadFails(d, e) \/ LoadAdds(d, e)
      BY <2>2, DsLoadEffect
    <3>2. CASE LoadEnds
      BY <3>1, <3>2 DEF LoadEnds, StoredSame
    <3>3. ASSUME NEW d, NEW e, LoadRefuses(d) \/ LoadFails(d, e) \/ LoadAdds(d, e)
          PROVE  Takes(d) /\ StoredSame
      BY <3>3 DEF LoadRefuses, LoadFails, LoadAdds, Informs, StoredSame
    <3> QED
      BY <3>1, <3>2, <3>3 DEF Takes
  <2> QED
    BY <2>1, <2>2
<1>2. \A t \in Services: mgr'[t].alive = mgr[t].alive
  BY <1>1 DEF Only
<1>3. \A t \in Services \ {"ds"}: Covers(t)'
  BY <1>1, OthersCovered
<1>4. Told'
  BY <1>1, ToldKept DEF Survives
<1>5. Unreloaded'
  BY <1>1 DEF Survives, Unreloaded
<1> QED
  BY <1>1, <1>2, <1>3, <1>4, <1>5, AliveSame DEF Survives

LEMMA DsHandlerSurvives ==
  ASSUME Types, Survives, Exceptions, DsHandler
  PROVE  Survives'
<1>1. CASE DsReceive
  <2>1. /\ mgr["ds"].alive /\ UNCHANGED <<hub, inbox, mgr, redis>> /\ (DshTakes(Head(asks)) \/ DshRefuses(Head(asks)))
    BY <1>1, DsReceiveEffect
  <2>2. DshStays
    <3> DEFINE a == Head(asks)
    <3>1. DshTakes(a) \/ DshRefuses(a)
      BY <2>1
    <3> HIDE DEF a
    <3>2. CASE DshTakes(a)
      <4>1. dsh'.ask = a
        BY <3>2 DEF DshTakes
      <4>2. a.dev \in DOMAIN Devs("ds")
        BY <3>2, Zenon DEF DshTakes
      <4> QED
        BY <4>1, <4>2 DEF DshStays
    <3>3. CASE DshRefuses(a)
      <4>1. dsh' = dsh
        BY <3>3 DEF DshRefuses
      <4> QED
        BY <4>1 DEF DshStays
    <3> QED
      BY <3>1, <3>2, <3>3
  <2> QED
    BY <2>1, <2>2, SurvivesKept DEF HubStays, StoredSame, DomainsSame
<1>2. CASE DsGivesUp
  <2>1. dsh' = Idle /\ UNCHANGED <<hub, inbox, mgr, obj, redis>>
    BY <1>2, DsGivesUpEffect
  <2>2. DshStays
    BY <2>1 DEF DshStays, Idle
  <2> QED
    BY <2>1, <2>2, SurvivesKept DEF HubStays, StoredSame, DomainsSame
<1>3. CASE DsUpdate
  <2> DEFINE d == dsh.ask.dev
             u == dsh.ask.u
  <2>1. /\ mgr["ds"].alive /\ dsh.pc = "update" /\ UNCHANGED <<hub, inbox, redis>>
        /\ NoneThere(d) \/ ConfRefused(d, u) \/ ConfSet(d, u) \/ Disabled(d, u) \/ Enabled(d, u)
             \/ NotConnected(d, u) \/ CannotReconnect(d, u)
    BY <1>3, DsUpdateEffect DEF DsHub
  <2>2. d \in Devices /\ ObjOK /\ "ds" \in Services /\ mgr["ds"].gen \in Nat
    <3>1. IsManager(mgr["ds"]) /\ "ds" \in Services
      BY ManagerIs DEF Types, Services
    <3> QED
      BY <2>1, <3>1 DEF Types, DshOK, IsAsk, IsManager
  <2>3. DshStays
    <3>1. dsh' = Idle \/ dsh'.pc = "disabling"
      <4>1. CASE NotConnected(d, u)
        BY <4>1 DEF NotConnected
      <4>2. CASE ~NotConnected(d, u)
        BY <2>1, <4>2, Zenon DEF NoneThere, ConfRefused, ConfSet, Disabled, Enabled, CannotReconnect, DsFinishes
      <4> QED
        BY <4>1, <4>2
    <3>2. dsh'.pc # "update"
      BY <3>1 DEF Idle
    <3> QED
      BY <3>2 DEF DshStays
  <2>4. HubStays /\ StoredSame
    BY <2>1 DEF HubStays, StoredSame
  <2> HIDE DEF u
  <2>5. CASE DsDies
    <3>1. Only("ds") /\ mgr'["ds"].alive = FALSE /\ mgr'["ds"].gen = mgr["ds"].gen
      BY <2>5 DEF DsDies
    <3>2. \A t \in Services \ {"ds"}: Covers(t)'
      BY <2>1, <2>4, <3>1, OthersCovered
    <3>3. Told' /\ Unreloaded'
      BY <2>1, <2>4, <3>1, ToldKept DEF Survives, Unreloaded
    <3>4. mgr["ds"].gen > 1 \/ (d \in Unreachable /\ obj'[d].up = "off")
      <4>1. CASE NoneThere(d)
        <5>1. mgr["ds"].gen # 1 /\ mgr["ds"].gen # 0
          BY <2>1, <4>1 DEF NoneThere, Survives, Unreloaded
        <5> QED
          BY <2>2, <5>1
      <4>2. CASE CannotReconnect(d, u)
        BY <4>2 DEF CannotReconnect
      <4>3. CASE ConfRefused(d, u) \/ ConfSet(d, u)
        BY <2>1, <3>1, <4>3 DEF ConfRefused, ConfSet
      <4>4. CASE Disabled(d, u) \/ Enabled(d, u) \/ NotConnected(d, u)
        <5>1. \E b: DsEntry(d, b)
          BY <4>4, Zenon DEF Disabled, Enabled, NotConnected
        <5> QED
          BY <2>1, <3>1, <5>1 DEF DsEntry, MgrSame
      <4> QED
        BY <2>1, <4>1, <4>2, <4>3, <4>4
    <3>5. \A t \in Services: t # "ds" => mgr'[t] = mgr[t]
      BY <3>1 DEF Only
    <3>6. ServicesSurvive' /\ mgr'["ds"].gen # 0
      BY <3>1, <3>4, <3>5 DEF Survives, ServicesSurvive, Services, Exceptions
    <3> QED
      BY <3>2, <3>3, <3>6 DEF Survives
  <2>6. CASE ~DsDies
    <3>1. mgr' = mgr \/ \E b: DsEntry(d, b)
      BY <2>1, <2>6 DEF NoneThere, ConfRefused, ConfSet, Disabled, Enabled, NotConnected, CannotReconnect
    <3>2. \A s \in Services: DomainsSame(s)
      BY <3>1 DEF DsEntry, Only, MgrSame, DomainsSame
    <3> QED
      BY <2>1, <2>3, <2>4, <3>2, SurvivesKept
  <2> QED
    BY <2>5, <2>6
<1> QED
  BY <1>1, <1>2, <1>3 DEF DsHandler

LEMMA SurvivesStep ==
  ASSUME Types, Survives, [Next]_vars
  PROVE  Survives'
<1>1. Exceptions
  BY LogGrows DEF Grows, Exceptions, LogFields
<1>2. CASE UNCHANGED <<hub, inbox, mgr, redis, dsh, obj>>
  BY <1>1, <1>2, SurvivesKept DEF HubStays, DshStays, StoredSame, DomainsSame
<1>3. CASE UNCHANGED vars
  BY <1>2, <1>3 DEF vars
<1>4. CASE Client
  <2>1. CASE SendRequest
    <3>1. UNCHANGED <<hub, dsh, inbox, obj, redis>>
      BY <2>1, SendRequestEffect
    <3>2. mgr' = mgr \/ /\ Only("client") /\ MgrSame("client") /\ mgr'["client"].load = mgr["client"].load
                        /\ DOMAIN mgr'["client"].devs = DOMAIN mgr["client"].devs
      BY <2>1, SendRequestEffect DEF ApplyTo
    <3>3. \A s \in Services: DomainsSame(s)
      BY <3>2 DEF DomainsSame, Only, MgrSame
    <3> QED
      BY <1>1, <3>1, <3>3, SurvivesKept DEF HubStays, DshStays, StoredSame
  <2>2. CASE NoSuchDevice \/ GetReply \/ ReplyTimesOut
    BY <1>2, <2>2 DEF NoSuchDevice, GetReply, ReplyTimesOut
  <2> QED
    BY <1>4, <2>1, <2>2 DEF Client
<1>5. CASE Hub
  BY <1>1, <1>5, HubSurvives
<1>6. CASE DsHandler
  BY <1>1, <1>6, DsHandlerSurvives
<1>7. CASE DsLoad \/ DsDisabled
  BY <1>1, <1>7, DsLoadSurvives
<1>8. CASE ClientLoads
  BY <1>1, <1>8, ClientLoadsSurvives
<1>9. ASSUME NEW s \in Services, Manager(s) PROVE Survives'
  BY <1>1, <1>9, ParseUpdateSurvives, ParseReloadSurvives, GetConfigSurvives DEF Manager
<1> QED
  BY <1>3, <1>4, <1>5, <1>6, <1>7, <1>8, <1>9 DEF Next, Done

\* An update ends no service but one that has lost a device of it: SciHub and the scan
\* server live unless a set took out a device of an update that was still on its way, the
\* device server until it reloads or cannot connect a device, the client until it leaves
\* out a device. It is the safety part of Settles.
THEOREM ServicesAreNotEnded == Spec => []ServicesSurvive
<1>1. Requested /\ Survives /\ [Next]_vars => Survives'
  BY SurvivesStep DEF Requested, Accounts
<1>2. Survives => ServicesSurvive
  BY DEF Survives
<1> QED
  BY <1>1, <1>2, SurvivesInit, RequestedHolds, PTL DEF Spec

-----------------------------------------------------------------------------
(* A device is connected if the stored configuration enables it.           *)

\* Power: in the device server, a device object is connected as the stored configuration says
\* (Stands), or as the request says that SciHub is working on (AsAsked); and it is as the
\* request says from the moment on at which SciHub has been, or will be, told so (Granted).
PowerUnsure == log.refused \cup log.stale \cup log.remade
Connected(d) == obj[d].up = "connected"
AtDevice == hub.pc \in {"ask", "wait"}
At(d, k) == AtDevice /\ d = hub.dev /\ k \in Keys(hub.req.us[d])
Replied(b) == \E r \in replies: r.id = hub.ask /\ r.accepted = b
Granted(k) == k \notin Keys(hub.u) \/ (hub.pc = "wait" /\ Replied(TRUE))
Stands(d) == Connected(d) <=> redis.config[d].enabled
AsAsked(d) == Connected(d) <=> hub.req.us[d].enabled
PowerOK(d) == (Stands(d) \/ (At(d, "enabled") /\ AsAsked(d))) /\ (At(d, "enabled") /\ Granted("enabled") => AsAsked(d))
Power ==
  /\ dsh.pc = "disabling" => dsh.ask.dev \in log.refused
  /\ Current("ds") =>
       /\ \A d \in Devices \ log.refused: InView("ds", d) <=> d \in DOMAIN redis.config
       /\ \A d \in (DOMAIN Devs("ds") \cap DOMAIN redis.config) \ PowerUnsure: PowerOK(d)

LEMMA ReplyIs ==
  ASSUME NEW id, NEW b, Reply(id, b)
  PROVE  (\A r \in replies: r \in replies') /\ \A r \in replies': r \in replies \/ (r.id = id /\ r.accepted = b)
  BY DEF Reply

LEMMA PowerInit == Init => Power
<1> SUFFICES ASSUME Init PROVE Power
  OBVIOUS
<1> USE ProgramsAssumption
<1>1. PICK p \in DOMAIN Programs: InitiallyWith(Programs[p].config)
  BY DEF Init
<1> DEFINE c == Programs[p].config
<1>2. /\ mgr["ds"] = [alive |-> TRUE, gen |-> 1, devs |-> c, load |-> "idle", session |-> <<>>, ask |-> 0]
      /\ redis.config = c /\ IsConfig(c) /\ hub.pc = "idle" /\ dsh.pc = "idle"
  BY <1>1 DEF Init, InitiallyWith, Idle, Services
<1>3. ASSUME NEW d \in DOMAIN c PROVE Stands(d)
  <2>1. d \in Devices
    BY <1>2, <1>3 DEF IsConfig
  <2>2. obj[d].up = IF c[d].enabled THEN "connected" ELSE "off"
    BY <1>1, <1>3, <2>1 DEF InitiallyWith
  <2> QED
    BY <1>2, <2>2 DEF Stands, Connected
<1>4. DOMAIN mgr["ds"].session = {} /\ Devs("ds") = c
  BY <1>2, EmptySequence DEF Devs
<1> QED
  BY <1>2, <1>3, <1>4 DEF Power, PowerOK, At, AtDevice, InView

LEMMA PowerNext ==
  ASSUME Power, Grows, dsh'.pc = "disabling" => dsh'.ask.dev \in log'.refused,
         DOMAIN redis'.config = DOMAIN redis.config, Current("ds")' => Current("ds"),
         Current("ds")' => \A d \in Devices \ log'.refused: InView("ds", d)' <=> InView("ds", d),
         Current("ds")' => \A d \in (DOMAIN mgr'["ds"].devs \cap DOMAIN redis.config) \ PowerUnsure':
                             (d \in DOMAIN mgr["ds"].devs => PowerOK(d)) => PowerOK(d)'
  PROVE  Power'
<1>1. log.refused \subseteq log'.refused /\ PowerUnsure \subseteq PowerUnsure'
  BY DEF Grows, LogFields, PowerUnsure
<1>3. ASSUME Current("ds")'
      PROVE  /\ \A d \in Devices \ log'.refused: InView("ds", d)' <=> d \in DOMAIN redis'.config
             /\ \A d \in (DOMAIN mgr'["ds"].devs \cap DOMAIN redis'.config) \ PowerUnsure': PowerOK(d)'
  BY <1>1, <1>3 DEF Power, Devs
<1> QED
  BY <1>3 DEF Power, Devs

\* A step of SciHub's handler changes neither the device server nor its objects.
LEMMA PowerHub ==
  ASSUME Types, Power, Grows, mgr'["ds"] = mgr["ds"], UNCHANGED <<obj, dsh>>, DOMAIN redis'.config = DOMAIN redis.config,
         Current("ds")' => Current("ds"),
         \A d \in DOMAIN redis.config \ PowerUnsure': PowerOK(d) => PowerOK(d)'
  PROVE  Power'
<1>1. PowerUnsure \subseteq PowerUnsure'
  BY DEF Grows, LogFields, PowerUnsure
<1>2. \A d: InView("ds", d)' <=> InView("ds", d)
  BY DEF InView, Devs
<1>3. \A d \in (DOMAIN mgr'["ds"].devs \cap DOMAIN redis.config) \ PowerUnsure': d \in DOMAIN mgr["ds"].devs
  OBVIOUS
<1>4. dsh'.pc = "disabling" => dsh'.ask.dev \in log'.refused
  BY DEF Power, Grows, LogFields
<1> QED
  BY <1>1, <1>2, <1>3, <1>4, PowerNext

LEMMA DsCurrent ==
  ASSUME mgr'["ds"] = mgr["ds"], inbox'["ds"] = inbox["ds"]
  PROVE  Current("ds")' <=> Current("ds")
  BY DEF Current, Reloads

\* SciHub is at no device before, and at none after the step.
LEMMA PowerAway ==
  ASSUME NEW d, PowerOK(d), hub.pc \notin {"ask", "wait"} \/ d # hub.dev, hub'.pc \notin {"ask", "wait"} \/ d # hub'.dev,
         obj'[d].up = obj[d].up, redis'.config[d] = redis.config[d]
  PROVE  PowerOK(d)'
  BY DEF PowerOK, At, AtDevice, Stands, Connected
\* SciHub stays at its device.
LEMMA PowerStays ==
  ASSUME NEW d, PowerOK(d), hub.pc \in {"ask", "wait"}, hub'.pc \in {"ask", "wait"}, hub'.dev = hub.dev, hub'.req = hub.req,
         obj'[d].up = obj[d].up, redis'.config[d] = redis.config[d],
         d = hub.dev /\ Granted("enabled")' => Granted("enabled")
  PROVE  PowerOK(d)'
  BY DEF PowerOK, At, AtDevice, Stands, AsAsked, Connected, Keys

LEMMA HubReceivePower ==
  ASSUME Types, Power, Grows, HubReceive
  PROVE  Power'
<1> DEFINE r == Head(requests)
<1>1. /\ hub.pc = "idle" /\ UNCHANGED <<dsh, obj, mgr>>
      /\ HubRefuses(r) \/ HubTakes(r) \/ HubReloads(r) \/ HubSets(r)
  BY HubReceiveEffect
<1> HIDE DEF r
<1>2. CASE HubReloads(r) \/ HubSets(r)
  <2>1. ~Current("ds")'
    BY <1>1, <1>2, MessagesReload DEF HubReloads, HubSets, Current, Services
  <2>2. log.refused \subseteq log'.refused
    BY DEF Grows, LogFields
  <2> QED
    BY <1>1, <2>1, <2>2 DEF Power
<1>3. CASE HubRefuses(r) \/ HubTakes(r)
  <2>1. UNCHANGED <<inbox, redis>>
    BY <1>3 DEF HubRefuses, HubTakes
  <2>2. hub'.pc \notin {"ask", "wait"}
    <3>1. CASE HubRefuses(r)
      BY <3>1 DEF HubRefuses, Idle
    <3>2. CASE HubTakes(r)
      BY <3>2 DEF HubTakes
    <3> QED
      BY <1>3, <3>1, <3>2
  <2>3. \A d: PowerOK(d) => PowerOK(d)'
    BY <1>1, <2>1, <2>2, PowerAway
  <2> QED
    BY <1>1, <2>1, <2>3, DsCurrent, PowerHub
<1> QED
  BY <1>1, <1>2, <1>3

LEMMA HubDevicePower ==
  ASSUME Types, Power, Grows, HubDevice
  PROVE  Power'
<1>1. /\ hub.pc = "next" /\ UNCHANGED <<dsh, obj, inbox, mgr, redis>> /\ (HubStarts(Head(hub.left)) \/ HubMisses)
  BY HubDeviceEffect
<1>2. ASSUME NEW d \in Devices, PowerOK(d) PROVE PowerOK(d)'
  <2>1. CASE HubMisses
    <3>1. hub'.pc = "idle"
      BY <2>1 DEF HubMisses, Idle
    <3> QED
      BY <1>1, <1>2, <3>1, PowerAway
  <2>2. CASE HubStarts(Head(hub.left)) /\ d # Head(hub.left)
    <3>1. hub'.dev = Head(hub.left)
      BY <2>2 DEF HubStarts
    <3> QED
      BY <1>1, <1>2, <2>2, <3>1, PowerAway
  <2>3. CASE HubStarts(Head(hub.left)) /\ d = Head(hub.left)
    <3>1. hub'.pc = "ask" /\ hub'.req = hub.req /\ hub'.dev = d /\ hub'.u = hub.req.us[d]
      BY <2>3 DEF HubStarts
    <3>2. Stands(d)
      BY <1>1, <1>2 DEF PowerOK, At, AtDevice
    <3>3. Stands(d)'
      BY <1>1, <3>2 DEF Stands, Connected
    <3>4. ~(At(d, "enabled") /\ Granted("enabled"))'
      BY <3>1 DEF At, Granted, Keys
    <3> QED
      BY <3>3, <3>4 DEF PowerOK
  <2> QED
    BY <1>1, <2>1, <2>2, <2>3
<1>3. DOMAIN redis.config \subseteq Devices
  BY DEF Types, RedisOK, IsConfig
<1> QED
  BY <1>1, <1>2, <1>3, DsCurrent, PowerHub

LEMMA HubAskPower ==
  ASSUME Types, Power, Grows, HubAsk
  PROVE  Power'
<1>1. /\ hub.pc = "ask" /\ hub'.pc = "wait" /\ hub'.ask = fresh /\ hub'.u = hub.u
      /\ UNCHANGED <<replies, inbox, dsh, obj, redis>> /\ hub'.dev = hub.dev /\ hub'.req = hub.req
  BY HubAskEffect DEF RequestKept
<1>2. mgr'["ds"] = mgr["ds"]
  BY HubAskEffect DEF EntryBecomes, Services
<1>3. Granted("enabled")' => Granted("enabled")
  <2>1. \A r \in replies: r.id # fresh
    BY DEF Types, RepliesOK, QueuesOK, FreshOK
  <2>2. ~Replied(TRUE)'
    BY <1>1, <2>1 DEF Replied
  <2> QED
    BY <1>1, <2>2 DEF Granted, Keys
<1>4. \A d: PowerOK(d) => PowerOK(d)'
  BY <1>1, <1>3, PowerStays
<1> QED
  BY <1>1, <1>2, <1>4, DsCurrent, PowerHub

LEMMA AnswersTrue ==
  ASSUME Types
  PROVE  /\ Answer(hub.ask) = {TRUE} => Replied(TRUE)
         /\ Answer(hub.ask) # {} /\ Answer(hub.ask) # {TRUE} => Replied(FALSE)
         /\ Answer(hub.ask) # {} <=> \E r \in replies: r.id = hub.ask
<1>1. \A r \in replies: r.accepted \in {TRUE, FALSE}
  BY DEF Types, RepliesOK
<1>2. \A a: a \in Answer(hub.ask) <=> \E r \in replies: r.id = hub.ask /\ r.accepted = a
  BY DEF Answer
<1>3. Answer(hub.ask) # {} <=> \E r \in replies: r.id = hub.ask
  BY <1>2
<1>4. Answer(hub.ask) = {TRUE} => Replied(TRUE)
  BY <1>2 DEF Replied
<1>5. ASSUME Answer(hub.ask) # {}, ~Replied(FALSE) PROVE Answer(hub.ask) = {TRUE}
  <2>1. \A a \in Answer(hub.ask): a = TRUE
    BY <1>1, <1>2, <1>5 DEF Replied
  <2> QED
    BY <1>5, <2>1
<1> QED
  BY <1>3, <1>4, <1>5

LEMMA HubGetsAnswerPower ==
  ASSUME Types, Power, Grows, HubGetsAnswer
  PROVE  Power'
<1>1. /\ hub.pc = "wait" /\ hub'.pc = "ask" /\ UNCHANGED <<replies, inbox, dsh, obj, redis>>
      /\ hub'.updated = (Answer(hub.ask) = {TRUE}) /\ hub'.dev = hub.dev /\ hub'.req = hub.req
      /\ ~hub'.updated => hub.dev \in log'.refused
  BY HubGetsAnswerEffect DEF RequestKept
<1>2. mgr'["ds"] = mgr["ds"]
  BY HubGetsAnswerEffect DEF EntryBecomes, Services
<1>3. ASSUME NEW d \in DOMAIN redis.config \ PowerUnsure', PowerOK(d) PROVE PowerOK(d)'
  <2>1. d = hub.dev => Replied(TRUE)
    BY <1>1, AnswersTrue DEF PowerUnsure
  <2>2. d = hub.dev => Granted("enabled")
    BY <1>1, <2>1 DEF Granted
  <2> QED
    BY <1>1, <1>3, <2>2, PowerStays
<1> QED
  BY <1>1, <1>2, <1>3, DsCurrent, PowerHub

LEMMA HubTimesOutPower ==
  ASSUME Types, Power, Grows, HubTimesOut
  PROVE  Power'
<1>1. hub'.pc = "idle" /\ UNCHANGED <<inbox, mgr, dsh, obj, redis>> /\ hub.dev \in log'.refused
  BY HubTimesOutEffect DEF Idle
<1>2. \A d \in DOMAIN redis.config \ PowerUnsure': PowerOK(d) => PowerOK(d)'
  BY <1>1, PowerAway DEF PowerUnsure
<1> QED
  BY <1>1, <1>2, DsCurrent, PowerHub

LEMMA HubStorePower ==
  ASSUME Types, Carried, Power, Grows, HubStore
  PROVE  Power'
<1> DEFINE e == Apply(Entry, hub.u)
<1>1. /\ hub.pc = "ask" /\ Wanted /\ UNCHANGED <<dsh, obj>>
      /\ \A k \in Fields: e[k] = IF k \in Keys(hub.u) THEN hub.u[k] ELSE Entry[k]
      /\ HubSkips \/ (EntryBecomes(e) /\ (HubFails \/ HubWrites(e)))
  BY HubStoreEffect
<1> HIDE DEF e
<1>2. Applied
  BY <1>1 DEF Carried
<1>3. mgr'["ds"] = mgr["ds"]
  BY <1>1 DEF HubSkips, EntryBecomes, Services
<1>4. inbox' = inbox /\ DOMAIN redis'.config = DOMAIN redis.config
  BY <1>1 DEF HubSkips, HubFails, HubWrites, Stores
<1>5. CASE HubSkips
  <2>1. redis' = redis /\ ~hub.updated /\ Keys(hub.u) = {} /\ hub'.pc = "next"
    BY <1>5 DEF HubSkips
  <2>2. ASSUME NEW d \in DOMAIN redis.config \ PowerUnsure', PowerOK(d) PROVE PowerOK(d)'
    <3>1. CASE d # hub.dev
      BY <2>1, <2>2, <3>1, PowerAway, <1>1
    <3>2. CASE d = hub.dev
      <4>1. Keys(hub.req.us[d]) = {}
        BY <1>2, <2>1, <2>2, <3>2 DEF Applied, G, PowerUnsure, Grows, LogFields
      <4>2. Stands(d)
        BY <2>2, <4>1 DEF PowerOK, At
      <4> QED
        BY <1>1, <2>1, <4>2 DEF PowerOK, At, AtDevice, Stands, Connected
    <3> QED
      BY <3>1, <3>2
  <2> QED
    BY <1>1, <1>3, <1>4, <2>2, DsCurrent, PowerHub
<1>6. CASE HubFails
  <2>1. redis' = redis /\ hub'.pc = "idle" /\ hub.dev \in log'.refused
    BY <1>6 DEF HubFails, Idle
  <2>2. \A d \in DOMAIN redis.config \ PowerUnsure': PowerOK(d) => PowerOK(d)'
    BY <1>1, <2>1, PowerAway DEF PowerUnsure
  <2> QED
    BY <1>1, <1>3, <1>4, <2>2, DsCurrent, PowerHub
<1>7. CASE HubWrites(e)
  <2>1. /\ hub'.pc = "next" /\ IsEntry(e)
        /\ Overwritten(e) => hub.dev \in log'.stale
        /\ \A d \in DOMAIN redis.config: redis'.config[d] = IF d = hub.dev THEN e ELSE redis.config[d]
    BY <1>7 DEF HubWrites, Stores
  <2>2. ASSUME NEW d \in DOMAIN redis.config \ PowerUnsure', PowerOK(d) PROVE PowerOK(d)'
    <3>1. CASE d # hub.dev
      BY <1>1, <2>1, <2>2, <3>1, PowerAway
    <3>2. CASE d = hub.dev
      <4>1. ~Overwritten(e) /\ d \notin G
        BY <2>1, <2>2, <3>2 DEF PowerUnsure, G, Grows, LogFields
      <4>2. DOMAIN e = Fields /\ redis'.config[d] = e
        BY <2>1, <2>2, <3>2 DEF IsEntry, Fields
      <4>3. CASE "enabled" \in Keys(hub.req.us[d])
        <5>1. "enabled" \notin Keys(hub.u)
          BY <1>1 DEF Wanted
        <5>2. AsAsked(d)
          BY <1>1, <2>2, <3>2, <4>3, <5>1 DEF PowerOK, At, AtDevice, Granted
        <5>3. e["enabled"] = hub.req.us[d]["enabled"]
          BY <1>1, <1>2, <3>2, <4>1, <4>3, <5>1 DEF Applied, Fields
        <5>4. Stands(d)'
          BY <1>1, <4>2, <5>2, <5>3 DEF AsAsked, Stands, Connected
        <5> QED
          BY <2>1, <5>4 DEF PowerOK, At, AtDevice
      <4>4. CASE "enabled" \notin Keys(hub.req.us[d])
        <5>1. Stands(d)
          BY <2>2, <4>4 DEF PowerOK, At
        <5>2. e["enabled"] = redis.config[d]["enabled"]
          BY <3>2, <4>1, <4>2, <4>4 DEF Overwritten, Fields
        <5>3. Stands(d)'
          BY <1>1, <4>2, <5>1, <5>2 DEF Stands, Connected
        <5> QED
          BY <2>1, <5>3 DEF PowerOK, At, AtDevice
      <4> QED
        BY <4>3, <4>4
    <3> QED
      BY <3>1, <3>2
  <2> QED
    BY <1>1, <1>3, <1>4, <2>2, DsCurrent, PowerHub
<1> QED
  BY <1>1, <1>5, <1>6, <1>7

LEMMA HubDonePower ==
  ASSUME Types, Power, Grows, HubDone
  PROVE  Power'
<1>1. hub.pc = "next" /\ hub'.pc = "idle" /\ UNCHANGED <<mgr, dsh, obj, redis>> /\ (HubTells \/ HubIsSilent)
  BY HubDoneEffect DEF Idle
<1>2. Current("ds")' => Current("ds")
  <2>1. CASE HubIsSilent
    BY <1>1, <2>1, DsCurrent DEF HubIsSilent
  <2>2. CASE HubTells
    BY <1>1, <2>2, BroadcastEffect DEF HubTells, Current, Reloads, Services
  <2> QED
    BY <1>1, <2>1, <2>2
<1>3. \A d: PowerOK(d) => PowerOK(d)'
  BY <1>1, PowerAway
<1> QED
  BY <1>1, <1>2, <1>3, PowerHub

LEMMA HubStepPower ==
  ASSUME Types, Carried, Power, Grows, Hub
  PROVE  Power'
  BY HubReceivePower, HubDevicePower, HubAskPower, HubGetsAnswerPower, HubTimesOutPower, HubStorePower, HubDonePower DEF Hub

LEMMA PowerThere ==
  ASSUME HubThere, UNCHANGED <<obj, redis, replies>>, NEW d, PowerOK(d)
  PROVE  PowerOK(d)'
<1>1. Granted("enabled")' => Granted("enabled")
  BY DEF Granted, Replied, HubThere, Keys
<1> QED
  BY <1>1, PowerAway, PowerStays DEF HubThere

LEMMA OthersPower ==
  ASSUME Types, Power, Grows, mgr'["ds"] = mgr["ds"], inbox'["ds"] = inbox["ds"], UNCHANGED <<obj, dsh, redis, replies>>,
         hub' = hub \/ HubThere
  PROVE  Power'
<1>1. HubThere
  BY DEF HubThere
<1> QED
  BY <1>1, PowerThere, DsCurrent, PowerHub

LEMMA ManagerPower ==
  ASSUME Types, Power, Grows, NEW s \in Services, Manager(s)
  PROVE  Power'
<1>1. "ds" \in Services
  BY DEF Services
<1>2. CASE ParseUpdate(s)
  <2>1. /\ Handles(s) /\ Only(s) /\ UNCHANGED <<replies, hub, dsh, obj, redis>> /\ Head(inbox[s]).action = "update"
        /\ mgr'[s].session = mgr[s].session /\ mgr'[s].load = mgr[s].load
        /\ \/ mgr'[s].alive = FALSE
           \/ mgr'[s].alive = mgr[s].alive /\ mgr'[s].devs = ApplyTo(mgr[s].devs, Head(inbox[s]).us)
    BY <1>2, ParseUpdateEffect
  <2>2. CASE s # "ds"
    BY <1>1, <2>1, <2>2, OthersPower DEF Only, Handles
  <2>3. CASE s = "ds"
    <3>1. Current("ds")' => Current("ds") /\ mgr'["ds"].devs = ApplyTo(mgr["ds"].devs, Head(inbox["ds"]).us)
      <4>1. Reloads("ds")' <=> Reloads("ds")
        BY <2>1, <2>3, HandledFirst
      <4> QED
        BY <2>1, <2>3, <4>1 DEF Current, Handles
    <3>2. Current("ds")' => DOMAIN mgr'["ds"].devs = DOMAIN mgr["ds"].devs
      BY <3>1 DEF ApplyTo
    <3>3. Current("ds")' => \A d: InView("ds", d)' <=> InView("ds", d)
      BY <2>1, <2>3, <3>2 DEF InView, Devs
    <3>4. HubThere
      BY <2>1 DEF HubThere
    <3>5. \A d: PowerOK(d) => PowerOK(d)'
      BY <2>1, <3>4, PowerThere
    <3>6. dsh'.pc = "disabling" => dsh'.ask.dev \in log'.refused
      BY <2>1 DEF Power, Grows, LogFields
    <3> QED
      BY <2>1, <3>1, <3>2, <3>3, <3>5, <3>6, PowerNext
  <2> QED
    BY <2>2, <2>3
<1>3. CASE ParseReload(s)
  <2>1. /\ Handles(s) /\ Only(s) /\ UNCHANGED <<replies, dsh, redis, log>> /\ mgr'[s].load = "flushed"
        /\ hub' = hub \/ HubThere
        /\ s # "ds" => obj' = obj
    BY <1>3, ParseReloadEffect DEF HubThere, RequestKept
  <2>2. CASE s # "ds"
    BY <1>1, <2>1, <2>2, OthersPower DEF Only, Handles
  <2>3. CASE s = "ds"
    <3>1. ~Current("ds")'
      BY <2>1, <2>3 DEF Current
    <3> QED
      BY <2>1, <3>1 DEF Power
  <2> QED
    BY <2>2, <2>3
<1>4. CASE GetConfig(s)
  <2>1. /\ Only(s) /\ UNCHANGED <<replies, inbox, hub, dsh, obj, redis, log>> /\ mgr[s].load = "flushed"
        /\ s = "ds" => mgr'[s].session = redis.config /\ mgr'[s].devs = mgr[s].devs
    BY <1>4, GetConfigEffect
  <2>2. CASE s # "ds"
    BY <1>1, <2>1, <2>2, OthersPower DEF Only
  <2>3. CASE s = "ds"
    <3>1. DOMAIN mgr["ds"].devs = {}
      BY <1>1, <2>1, <2>3 DEF Types, ManagersOK
    <3>2. DOMAIN mgr'["ds"].devs = {} /\ \A d: InView("ds", d)' <=> d \in DOMAIN redis'.config
      BY <2>1, <2>3, <3>1 DEF InView, Devs
    <3> QED
      BY <2>1, <3>2 DEF Power, Devs
  <2> QED
    BY <2>2, <2>3
<1> QED
  BY <1>2, <1>3, <1>4 DEF Manager

LEMMA ObjectsSame ==
  ASSUME NEW d, PowerOK(d), hub' = hub, redis'.config[d] = redis.config[d], obj'[d].up = obj[d].up,
         AtDevice /\ d = hub.dev /\ Granted("enabled")' => Granted("enabled")
  PROVE  PowerOK(d)'
  BY PowerAway, PowerStays DEF AtDevice

LEMMA DsLoadPower ==
  ASSUME Types, Power, Grows, DsLoad
  PROVE  Power'
<1>1. /\ mgr["ds"].alive /\ mgr["ds"].load = "loading" /\ UNCHANGED <<replies, hub, dsh, inbox>>
      /\ LoadEnds \/ \E d \in Devices: LET e == mgr["ds"].session[d] IN LoadRefuses(d) \/ LoadFails(d, e) \/ LoadAdds(d, e)
  BY DsLoadEffect
<1>2. Current("ds")' => Current("ds")
  BY <1>1 DEF Current, Reloads
<1>3. redis'.config = redis.config
  <2>1. CASE LoadEnds
    BY <2>1 DEF LoadEnds
  <2>2. ASSUME NEW d, NEW e, LoadRefuses(d) \/ LoadFails(d, e) \/ LoadAdds(d, e) PROVE redis'.config = redis.config
    BY <2>2 DEF LoadRefuses, LoadFails, LoadAdds, Informs
  <2> QED
    BY <1>1, <2>1, <2>2
<1>4. Granted("enabled")' => Granted("enabled")
  BY <1>1 DEF Granted, Replied, Keys
<1>5. dsh'.pc = "disabling" => dsh'.ask.dev \in log'.refused
  BY <1>1 DEF Power, Grows, LogFields
<1>6. CASE LoadEnds
  <2>1. obj' = obj /\ mgr'["ds"].session = mgr["ds"].session /\ mgr'["ds"].devs = mgr["ds"].devs
    BY <1>6 DEF LoadEnds
  <2>2. \A d: PowerOK(d) => PowerOK(d)'
    BY <1>1, <1>3, <1>4, <2>1, ObjectsSame
  <2>3. \A d: InView("ds", d)' <=> InView("ds", d)
    BY <2>1 DEF InView, Devs
  <2> QED
    BY <1>2, <1>3, <1>5, <2>1, <2>2, <2>3, PowerNext
<1>7. ASSUME NEW d \in Devices, LoadRefuses(d) PROVE Power'
  <2>1. obj' = obj /\ Takes(d) /\ mgr'["ds"].devs = mgr["ds"].devs /\ d \in log'.refused
    BY <1>7 DEF LoadRefuses
  <2>2. \A x: PowerOK(x) => PowerOK(x)'
    BY <1>1, <1>3, <1>4, <2>1, ObjectsSame
  <2>3. \A x \in Devices \ log'.refused: InView("ds", x)' <=> InView("ds", x)
    BY <2>1 DEF InView, Devs, Takes
  <2> QED
    BY <1>2, <1>3, <1>5, <2>1, <2>2, <2>3, PowerNext
<1>8. ASSUME NEW d \in Devices, NEW e, e = mgr["ds"].session[d], LoadFails(d, e) \/ LoadAdds(d, e) PROVE Power'
  <2>1. /\ Takes(d) /\ DOMAIN mgr'["ds"].devs = DOMAIN mgr["ds"].devs \cup {d} /\ ObjBut(d)
        /\ d \notin log'.refused => Creates(d, e) /\ ~Failing(d, e)
        /\ d \notin log'.remade => ~Overtaken(d, e)
    BY <1>8 DEF LoadFails, LoadAdds, Adds, Creates
  <2>2. \A x: InView("ds", x)' <=> InView("ds", x)
    BY <2>1 DEF InView, Devs, Takes
  <2>3. ASSUME NEW x \in (DOMAIN mgr'["ds"].devs \cap DOMAIN redis.config) \ PowerUnsure',
               x \in DOMAIN mgr["ds"].devs => PowerOK(x)
        PROVE  PowerOK(x)'
    <3>0. x \in Devices
      BY DEF Types, RedisOK, IsConfig
    <3>1. CASE x # d
      <4>1. obj'[x].up = obj[x].up /\ PowerOK(x)
        BY <2>1, <2>3, <3>0, <3>1 DEF ObjBut
      <4> QED
        BY <1>1, <1>3, <1>4, <4>1, ObjectsSame
    <3>2. CASE x = d
      <4>1. Creates(d, e) /\ ~Failing(d, e) /\ ~Overtaken(d, e)
        BY <2>1, <2>3, <3>2 DEF PowerUnsure
      <4>2. redis.config[d] = e /\ e.enabled \in BOOLEAN
        BY <2>3, <3>2, <4>1 DEF Overtaken, Types, RedisOK, IsConfig, IsEntry
      <4>3. obj'[d].up = IF e.enabled THEN "connected" ELSE "off"
        BY <4>1 DEF Creates, Failing
      <4>4. Stands(d)'
        BY <1>3, <4>2, <4>3 DEF Stands, Connected
      <4>5. ~At(d, "enabled")'
        <5>1. AtDevice => hub.dev \in DOMAIN hub.req.us
          BY HubAtDevice DEF AtDevice
        <5>2. ~(AtDevice /\ d = hub.dev)
          BY <4>1, <5>1 DEF Overtaken, AtDevice
        <5> QED
          BY <1>1, <5>2 DEF At, AtDevice
      <4> QED
        BY <3>2, <4>4, <4>5 DEF PowerOK
    <3> QED
      BY <3>1, <3>2
  <2> QED
    BY <1>2, <1>3, <1>5, <2>2, <2>3, PowerNext
<1> QED
  BY <1>1, <1>6, <1>7, <1>8

LEMMA DshFor ==
  ASSUME AskedFor, dsh.pc # "idle"
  PROVE  /\ IsAsked(dsh.ask) => hub.dev = dsh.ask.dev /\ hub.u = dsh.ask.u
         /\ ~IsAsked(dsh.ask) => dsh.ask.dev \in log.refused /\ dsh.ask.dev \in log.late
  BY DEF AskedFor, IsAwaited

LEMMA DsUpdatePower ==
  ASSUME Types, AskedFor, Power, Grows, DsUpdate
  PROVE  Power'
<1> DEFINE d == dsh.ask.dev
           u == dsh.ask.u
<1>1. /\ dsh.pc = "update" /\ UNCHANGED <<hub, inbox, redis>>
      /\ NoneThere(d) \/ ConfRefused(d, u) \/ ConfSet(d, u) \/ Disabled(d, u) \/ Enabled(d, u)
           \/ NotConnected(d, u) \/ CannotReconnect(d, u)
  BY DsUpdateEffect DEF DsHub
<1>2. d \in Devices
  BY <1>1 DEF Types, DshOK, IsAsk
<1>3. /\ IsAsked(dsh.ask) => hub.dev = d /\ hub.u = u
      /\ ~IsAsked(dsh.ask) => d \in log.refused
  BY <1>1, DshFor
<1>4. DsSame
  BY DsUpdateTypes
<1> HIDE DEF d, u
<1>5. dsh'.pc = "disabling" => dsh'.ask.dev \in log'.refused
  <2>1. CASE NotConnected(d, u)
    BY <2>1 DEF NotConnected, d
  <2>2. CASE ~NotConnected(d, u)
    <3>1. \E accepted: DsFinishes(accepted)
      BY <1>1, <2>2 DEF NoneThere, ConfRefused, ConfSet, Disabled, Enabled, CannotReconnect
    <3> QED
      BY <3>1 DEF DsFinishes, Idle
  <2> QED
    BY <2>1, <2>2
<1>6. CASE NoneThere(d) \/ CannotReconnect(d, u)
  <2>1. ~Current("ds")'
    BY <1>6 DEF NoneThere, CannotReconnect, DsDies, Current
  <2> QED
    BY <1>1, <1>5, <2>1, PowerNext
<1>7. CASE ~NoneThere(d) /\ ~CannotReconnect(d, u)
  <2>1. ObjBut(d) /\ d \in DOMAIN Devs("ds")
    BY <1>1, <1>7 DEF ConfRefused, ConfSet, Disabled, Enabled, NotConnected, Asked
  <2>2. mgr'["ds"].alive = mgr["ds"].alive
    BY <1>1, <1>7 DEF ConfRefused, ConfSet, Disabled, Enabled, NotConnected, DsEntry, MgrSame
  <2>3. (Current("ds")' => Current("ds")) /\ \A x: InView("ds", x)' <=> InView("ds", x)
    BY <1>1, <1>4, <2>2 DEF DsSame, Current, Reloads, InView, Devs
  <2>4. \A r \in replies': r \in replies \/ r.id = dsh.ask.id
    <3>1. CASE NotConnected(d, u)
      BY <3>1 DEF NotConnected
    <3>2. CASE ~NotConnected(d, u)
      <4>1. PICK accepted: DsFinishes(accepted)
        BY <1>1, <1>7, <3>2 DEF ConfRefused, ConfSet, Disabled, Enabled
      <4> QED
        BY <4>1, ReplyIs DEF DsFinishes
    <3> QED
      BY <3>1, <3>2
  <2>5. ASSUME NEW x \in (DOMAIN mgr'["ds"].devs \cap DOMAIN redis.config) \ PowerUnsure', PowerOK(x)
        PROVE  PowerOK(x)'
    <3>0. x \in Devices
      BY DEF Types, RedisOK, IsConfig
    <3>1. CASE x # d
      <4>1. AtDevice /\ x = hub.dev /\ Granted("enabled")' => Granted("enabled")
        <5>1. x = hub.dev /\ hub.pc = "wait" => hub.ask # dsh.ask.id
          BY <1>3, <3>1 DEF IsAsked
        <5>2. x = hub.dev /\ hub.pc = "wait" /\ Replied(TRUE)' => Replied(TRUE)
          BY <1>1, <2>4, <5>1 DEF Replied
        <5> QED
          BY <1>1, <5>2 DEF Granted, Keys
      <4>2. obj'[x].up = obj[x].up
        BY <2>1, <3>0, <3>1 DEF ObjBut
      <4> QED
        BY <1>1, <2>5, <4>1, <4>2, ObjectsSame
    <3>2. CASE x = d
      <4>1. d \notin log'.refused /\ d \notin log.refused
        BY <2>5, <3>2 DEF PowerUnsure, Grows, LogFields
      <4>2. hub.pc = "wait" /\ hub.dev = d /\ hub.u = u
        BY <1>3, <4>1 DEF IsAsked
      <4>3. \A k \in Keys(u): k \in Keys(hub.req.us[d]) /\ u[k] = hub.req.us[d][k]
        BY <4>2, HubAtDevice
      <4>4. CASE ConfRefused(d, u)
        <5>1. obj'[d].up = obj[d].up /\ Reply(dsh.ask.id, FALSE)
          BY <4>4 DEF ConfRefused, DsFinishes
        <5>2. Replied(TRUE)' => Replied(TRUE)
          BY <1>1, <5>1, ReplyIs DEF Replied
        <5>3. Granted("enabled")' => Granted("enabled")
          BY <1>1, <5>2 DEF Granted, Keys
        <5> QED
          BY <1>1, <2>5, <3>2, <5>1, <5>3, ObjectsSame
      <4>5. CASE ConfSet(d, u)
        <5>1. obj'[d].up = obj[d].up /\ Granted("enabled")
          BY <4>2, <4>5 DEF ConfSet, Granted
        <5> QED
          BY <1>1, <2>5, <3>2, <5>1, ObjectsSame
      <4>6. CASE Disabled(d, u) \/ Enabled(d, u)
        <5>1. obj'[d].up = "connected" <=> u["enabled"]
          <6>1. CASE Disabled(d, u)
            BY <6>1 DEF Disabled, Asked, Off
          <6>2. CASE Enabled(d, u)
            BY <6>2 DEF Enabled, Asked
          <6> QED
            BY <4>6, <6>1, <6>2
        <5>2. "enabled" \in Keys(u)
          BY <4>6 DEF Disabled, Enabled, Asked
        <5>3. At(x, "enabled")' /\ AsAsked(x)'
          BY <1>1, <3>2, <4>2, <4>3, <5>1, <5>2 DEF At, AtDevice, AsAsked, Connected
        <5> QED
          BY <5>3 DEF PowerOK
      <4>7. ~NotConnected(d, u)
        BY <4>1 DEF NotConnected
      <4> QED
        BY <1>1, <1>7, <4>4, <4>5, <4>6, <4>7
    <3> QED
      BY <3>1, <3>2
  <2>6. DOMAIN mgr'["ds"].devs = DOMAIN mgr["ds"].devs
    BY <1>4 DEF DsSame
  <2> QED
    BY <1>1, <1>5, <2>3, <2>5, <2>6, PowerNext
<1> QED
  BY <1>6, <1>7

LEMMA DsReceivePower ==
  ASSUME Types, Power, Grows, DsReceive
  PROVE  Power'
<1>1. /\ dsh.pc = "idle" /\ UNCHANGED <<hub, inbox, mgr, obj, redis>> /\ (DshTakes(Head(asks)) \/ DshRefuses(Head(asks)))
  BY DsReceiveEffect
<1>2. dsh'.pc # "disabling"
  <2>1. CASE DshTakes(Head(asks))
    BY <2>1 DEF DshTakes
  <2>2. CASE DshRefuses(Head(asks))
    BY <1>1, <2>2 DEF DshRefuses
  <2> QED
    BY <1>1, <2>1, <2>2
<1>3. Replied(TRUE)' => Replied(TRUE)
  BY <1>1, ReplyIs DEF DshTakes, DshRefuses, Replied
<1>4. Granted("enabled")' => Granted("enabled")
  BY <1>1, <1>3 DEF Granted, Keys
<1>5. \A d: PowerOK(d) => PowerOK(d)'
  BY <1>1, <1>4, ObjectsSame
<1>6. (Current("ds")' => Current("ds")) /\ \A d: InView("ds", d)' <=> InView("ds", d)
  BY <1>1, DsCurrent DEF InView, Devs
<1> QED
  BY <1>1, <1>2, <1>5, <1>6, PowerNext

LEMMA DsGivesUpPower ==
  ASSUME Types, AskedFor, Power, Grows, DsGivesUp
  PROVE  Power'
<1>1. /\ dsh.pc = "disabling" /\ dsh' = Idle /\ UNCHANGED <<hub, inbox, mgr, obj, redis>>
      /\ \E accepted: Reply(dsh.ask.id, accepted)
  BY DsGivesUpEffect
<1>2. dsh.ask.dev \in log.refused /\ log.refused \subseteq log'.refused
  BY <1>1 DEF Power, Grows, LogFields
<1>3. ASSUME NEW d, d \notin log.refused, PowerOK(d) PROVE PowerOK(d)'
  <2>1. d = hub.dev /\ hub.pc = "wait" => hub.ask # dsh.ask.id
    BY <1>1, <1>2, <1>3, DshFor DEF IsAsked
  <2>2. \A r \in replies': r \in replies \/ r.id = dsh.ask.id
    BY <1>1, ReplyIs
  <2>3. d = hub.dev /\ hub.pc = "wait" /\ Replied(TRUE)' => Replied(TRUE)
    BY <1>1, <2>1, <2>2 DEF Replied
  <2>4. d = hub.dev /\ AtDevice /\ Granted("enabled")' => Granted("enabled")
    BY <1>1, <2>3 DEF Granted, Keys
  <2> QED
    BY <1>1, <1>3, <2>4, ObjectsSame
<1>4. (Current("ds")' => Current("ds")) /\ \A d: InView("ds", d)' <=> InView("ds", d)
  BY <1>1, DsCurrent DEF InView, Devs
<1>5. dsh'.pc # "disabling"
  BY <1>1 DEF Idle
<1>6. \A d \in DOMAIN mgr'["ds"].devs \ PowerUnsure': d \notin log.refused /\ d \in DOMAIN mgr["ds"].devs
  BY <1>1, <1>2 DEF PowerUnsure
<1> QED
  BY <1>1, <1>3, <1>4, <1>5, <1>6, PowerNext

LEMMA PowerStep ==
  ASSUME Types, AskedFor, Carried, Power, [Next]_vars
  PROVE  Power'
<1>1. Grows
  BY LogGrows
<1>2. CASE UNCHANGED vars
  BY <1>1, <1>2, OthersPower DEF vars
<1>3. CASE Client
  <2>1. UNCHANGED <<inbox, obj, dsh, redis, replies, hub>>
    BY <1>3 DEF Client, SendRequest, NoSuchDevice, GetReply, ReplyTimesOut
  <2>2. mgr'["ds"] = mgr["ds"]
    <3>1. CASE SendRequest
      BY <3>1, SendRequestEffect DEF Only, Services
    <3>2. CASE ~SendRequest
      BY <1>3, <3>2 DEF Client, NoSuchDevice, GetReply, ReplyTimesOut
    <3> QED
      BY <3>1, <3>2
  <2> QED
    BY <1>1, <2>1, <2>2, OthersPower
<1>4. CASE Hub
  BY <1>1, <1>4, HubStepPower
<1>5. CASE DsHandler
  BY <1>1, <1>5, DsReceivePower, DsUpdatePower, DsGivesUpPower DEF DsHandler
<1>6. CASE DsLoad
  BY <1>1, <1>6, DsLoadPower
<1>7. CASE DsDisabled
  <2>1. /\ mgr["ds"].alive /\ mgr["ds"].load = "disabling" /\ UNCHANGED <<replies, hub, dsh, inbox, obj, redis>>
        /\ mgr'["ds"].session = mgr["ds"].session /\ mgr'["ds"].devs = mgr["ds"].devs
    BY <1>7, DsDisabledEffect
  <2>2. (Current("ds")' => Current("ds")) /\ \A d: InView("ds", d)' <=> InView("ds", d)
    BY <2>1 DEF Current, Reloads, InView, Devs
  <2>3. HubThere
    BY <2>1 DEF HubThere
  <2>4. \A d: PowerOK(d) => PowerOK(d)'
    BY <2>1, <2>3, PowerThere
  <2>5. dsh'.pc = "disabling" => dsh'.ask.dev \in log'.refused
    BY <1>1, <2>1 DEF Power, Grows, LogFields
  <2> QED
    BY <1>1, <2>1, <2>2, <2>4, <2>5, PowerNext
<1>8. CASE ClientLoads
  BY <1>1, <1>8, ClientLoadsEffect, OthersPower DEF Only, Services
<1>9. CASE \E s \in Services: Manager(s)
  BY <1>1, <1>9, ManagerPower
<1>10. CASE Done
  BY <1>1, <1>10, OthersPower DEF Done, vars
<1> QED
  BY <1>2, <1>3, <1>4, <1>5, <1>6, <1>7, <1>8, <1>9, <1>10 DEF Next

LEMMA PowerConnects == Types /\ Power => EnabledIsConnected
<1> SUFFICES ASSUME Types, Power, Quiet, mgr["ds"].alive, NEW d \in DOMAIN redis.config \ PowerUnsure
             PROVE  redis.config[d].enabled <=> obj[d].up = "connected"
  BY DEF EnabledIsConnected, PowerUnsure
<1>1. "ds" \in Services /\ d \in Devices
  BY DEF Services, Types, RedisOK, IsConfig
<1>2. mgr["ds"].load = "idle" /\ inbox["ds"] = <<>> /\ hub.pc = "idle"
  BY <1>1 DEF Quiet
<1>3. Current("ds")
  BY <1>2, EmptySequence DEF Current, Reloads
<1>4. DOMAIN mgr["ds"].session = {}
  BY <1>1, <1>2 DEF Types, ManagersOK
<1>5. d \in DOMAIN Devs("ds")
  BY <1>1, <1>3, <1>4 DEF Power, InView, PowerUnsure
<1>6. PowerOK(d)
  BY <1>3, <1>5 DEF Power
<1> QED
  BY <1>2, <1>6 DEF PowerOK, At, AtDevice, Stands, Connected

-----------------------------------------------------------------------------
(* A device object has the deviceConfig that its device manager reports.   *)

\* The device object gets a new deviceConfig when SciHub asks the device server, the device
\* manager's entry only with the broadcast at the end of the request. ConfDone: the device
\* server has handled the deviceConfig of SciHub's device. ConfRequest: until then the
\* deviceConfig is still in the update, and afterwards SciHub's entry has it; and when nothing
\* was updated, or the answer is a refusal, the deviceConfig was the bad one or the refusal is
\* about enabled. Kept: an object that was enabled with its new deviceConfig is not destroyed,
\* so the next one to enable it does not make it anew. ConfStored: a device of the request with a
\* deviceConfig is stored with it, or still to do, or its deviceConfig is the bad one.
ConfUnsure == log.remade \cup log.late \cup log.torn \cup log.stale
Confs(d) == "conf" \in Keys(hub.req.us[d])
Requests(d, v) == hub.req.us[d].conf = v
HasReply == \E r \in replies: r.id = hub.ask
Disabling == dsh.pc = "disabling" /\ dsh.ask.id = hub.ask
ConfDone == "conf" \notin Keys(hub.u) \/ (hub.pc = "wait" /\ (HasReply \/ Disabling))
ConfFirst == "conf" \in Keys(hub.u) => Keys(hub.u) = Keys(hub.req.us[hub.dev])
ConfHeld == "conf" \notin Keys(hub.u) /\ hub.dev \notin log.stale => Requests(hub.dev, Entry.conf)
ConfDenied ==
  "conf" \notin Keys(hub.u) /\ hub.dev \notin ConfUnsure /\ ~hub.updated => Requests(hub.dev, Bad) \/ "enabled" \in Keys(hub.u)
ConfAnswer ==
  hub.pc = "wait" /\ hub.dev \notin ConfUnsure /\ (Replied(FALSE) \/ Disabling) =>
    Requests(hub.dev, Bad) \/ {"conf", "enabled"} \subseteq Keys(hub.u)
ConfRequest == AtDevice /\ Confs(hub.dev) => ConfFirst /\ ConfHeld /\ ConfDenied /\ ConfAnswer
Kept ==
  AtDevice /\ Confs(hub.dev) /\ "enabled" \in Keys(hub.req.us[hub.dev]) /\ hub.req.us[hub.dev].enabled
      /\ ~Requests(hub.dev, Bad) /\ ConfDone /\ mgr["ds"].alive /\ hub.dev \in DOMAIN Devs("ds") \ ConfUnsure
    => obj[hub.dev].up # "destroyed"
ConfStored ==
  hub.pc # "idle" => \A d \in DOMAIN hub.req.us: Confs(d) =>
    /\ d \in hub.stored \ log.stale => d \in DOMAIN redis.config /\ Requests(d, redis.config[d].conf)
    /\ d \in hub.stored \/ d \in ToSet(hub.left) \/ d \in ConfUnsure \/ (AtDevice /\ d = hub.dev) \/ Requests(d, Bad)

LEMMA ConfUnsureGrows ==
  ASSUME Grows
  PROVE  ConfUnsure \subseteq ConfUnsure' /\ log.stale \subseteq log'.stale
  BY DEF Grows, LogFields, ConfUnsure

\* A step of another process than SciHub's handler that answers no request.
LEMMA ConfRequestKept ==
  ASSUME Grows, ConfRequest, HubThere, UNCHANGED <<replies, dsh>>, AtDevice => Entry' = Entry \/ hub.dev \in log'.stale
  PROVE  ConfRequest'
<1>1. ConfUnsure \subseteq ConfUnsure' /\ log.stale \subseteq log'.stale
  BY ConfUnsureGrows
<1>2. SUFFICES ASSUME AtDevice', Confs(hub.dev)' PROVE (ConfFirst /\ ConfHeld /\ ConfDenied /\ ConfAnswer)'
  BY DEF ConfRequest
<1>3. AtDevice /\ Confs(hub.dev) /\ ConfFirst /\ ConfHeld /\ ConfDenied /\ ConfAnswer
  BY <1>2 DEF HubThere, AtDevice, Confs, Keys, ConfRequest
<1>4. ConfFirst'
  BY <1>3 DEF HubThere, ConfFirst, Keys
<1>5. ConfHeld'
  BY <1>1, <1>3 DEF HubThere, ConfHeld, Keys, Requests
<1>6. ConfDenied'
  BY <1>1, <1>3 DEF HubThere, ConfDenied, Keys, Requests
<1>7. (Replied(FALSE) \/ Disabling)' => Replied(FALSE) \/ Disabling
  BY DEF HubThere, Replied, Disabling
<1>8. ConfAnswer'
  BY <1>1, <1>3, <1>7 DEF HubThere, ConfAnswer, Keys, Requests
<1> QED
  BY <1>4, <1>5, <1>6, <1>8

LEMMA ConfRequestAway ==
  ASSUME hub'.pc \notin {"ask", "wait"}
  PROVE  ConfRequest' /\ Kept'
  BY DEF ConfRequest, Kept, AtDevice

LEMMA HubDeviceConf ==
  ASSUME Types, HubDevice
  PROVE  ConfRequest' /\ Kept'
<1>1. HubStarts(Head(hub.left)) \/ HubMisses
  BY HubDeviceEffect
<1>2. CASE HubMisses
  BY <1>2, ConfRequestAway DEF HubMisses, Idle
<1>3. CASE HubStarts(Head(hub.left))
  <2>1. hub'.pc = "ask" /\ hub'.u = hub'.req.us[hub'.dev]
    BY <1>3 DEF HubStarts
  <2>2. Confs(hub.dev)' => ConfFirst' /\ ConfHeld' /\ ConfDenied' /\ ConfAnswer' /\ ~ConfDone'
    BY <2>1 DEF Confs, ConfFirst, ConfHeld, ConfDenied, ConfAnswer, ConfDone, Keys
  <2> QED
    BY <2>2 DEF ConfRequest, Kept
<1> QED
  BY <1>1, <1>2, <1>3

LEMMA HubAskConf ==
  ASSUME Types, ConfRequest, Kept, Grows, HubAsk
  PROVE  ConfRequest' /\ Kept' /\ (ConfDone' <=> ConfDone)
<1>1. /\ hub.pc = "ask" /\ hub'.pc = "wait" /\ hub'.ask = fresh /\ hub'.u = hub.u /\ hub'.dev = hub.dev /\ hub'.req = hub.req
      /\ hub'.updated = hub.updated /\ UNCHANGED <<replies, inbox, dsh, obj, redis, log>>
  BY HubAskEffect DEF RequestKept
<1>2. PICK e: /\ EntryBecomes(e) /\ HubHolds(e)
              /\ \A k \in Fields: e[k] = Entry[k] \/ (k \in Keys(hub.u) /\ e[k] = hub.u[k])
  BY HubAskEffect
<1>3. mgr'["ds"] = mgr["ds"]
  BY <1>2 DEF EntryBecomes, Services
<1>4. ~Replied(FALSE)' /\ ~HasReply'
  <2>1. \A r \in replies: r.id # fresh
    BY DEF Types, RepliesOK, QueuesOK, FreshOK
  <2> QED
    BY <1>1, <2>1 DEF Replied, HasReply
<1>5. ~Disabling'
  <2>1. dsh.pc # "idle" => dsh.ask.id # fresh
    BY DEF Types, DshOK, IsAsk, QueuesOK, FreshOK
  <2> QED
    BY <1>1, <2>1 DEF Disabling
<1>6. ConfDone' <=> ConfDone
  BY <1>1, <1>4, <1>5 DEF ConfDone, Keys
<1>7. ASSUME AtDevice', Confs(hub.dev)' PROVE (ConfFirst /\ ConfHeld /\ ConfDenied /\ ConfAnswer)'
  <2>1. ConfFirst /\ ConfHeld /\ ConfDenied
    BY <1>1, <1>7 DEF ConfRequest, AtDevice, Confs, Keys
  <2>2. ConfFirst' /\ ConfDenied'
    BY <1>1, <2>1 DEF ConfFirst, ConfDenied, ConfUnsure, Keys, Requests
  <2>3. "conf" \notin Keys(hub.u) => Entry'.conf = Entry.conf
    BY <1>2 DEF HubHolds, Fields
  <2>4. ConfHeld'
    BY <1>1, <2>1, <2>3 DEF ConfHeld, Keys, Requests
  <2> QED
    BY <1>4, <1>5, <2>2, <2>4 DEF ConfAnswer
<1>8. Kept'
  BY <1>1, <1>3, <1>6 DEF Kept, AtDevice, Confs, Keys, Requests, ConfUnsure, Devs
<1> QED
  BY <1>6, <1>7, <1>8 DEF ConfRequest

LEMMA HubGetsAnswerConf ==
  ASSUME Types, ConfRequest, Kept, Grows, HubGetsAnswer
  PROVE  ConfRequest' /\ Kept' /\ ConfDone' /\ ConfDone
<1>1. /\ hub.pc = "wait" /\ hub'.pc = "ask" /\ Answer(hub.ask) # {}
      /\ UNCHANGED <<replies, inbox, dsh, obj, redis>>
      /\ hub'.updated = (Answer(hub.ask) = {TRUE}) /\ hub'.dev = hub.dev /\ hub'.req = hub.req
  BY HubGetsAnswerEffect DEF RequestKept
<1>2. PICK e: \E k \in {"conf", "enabled"}:
        /\ EntryBecomes(e) /\ HubHolds(e) /\ k \in Keys(hub.u) /\ hub'.u = Without(hub.u, k)
        /\ k = IF "conf" \in Keys(hub.u) THEN "conf" ELSE "enabled"
        /\ \A x \in Fields: e[x] = IF x = k THEN hub.u[x] ELSE Entry[x]
  BY HubGetsAnswerEffect
<1>3. mgr'["ds"] = mgr["ds"] /\ Entry' = e
  BY <1>2 DEF EntryBecomes, Services, HubHolds
<1>4. IsUpdate(hub.u) /\ \A k \in Keys(hub.u): hub.u[k] = hub.req.us[hub.dev][k]
  BY <1>1, HubAtDevice
<1>5. /\ "conf" \notin Keys(hub'.u)
      /\ "conf" \in Keys(hub.u) => e.conf = hub.u.conf /\ Keys(hub'.u) = Keys(hub.u) \ {"conf"}
      /\ "conf" \notin Keys(hub.u) => e.conf = Entry.conf /\ Keys(hub'.u) = Keys(hub.u) \ {"enabled"}
  BY <1>2, <1>4, WithoutUpdate DEF Fields
<1>6. ConfDone' /\ ConfDone
  BY <1>1, <1>5, AnswersTrue DEF ConfDone, HasReply, Keys
<1>7. ASSUME AtDevice', Confs(hub.dev)' PROVE (ConfFirst /\ ConfHeld /\ ConfDenied /\ ConfAnswer)'
  <2>1. ConfFirst /\ ConfHeld /\ ConfAnswer
    BY <1>1, <1>7 DEF ConfRequest, AtDevice, Confs, Keys
  <2>2. ConfFirst' /\ ConfAnswer'
    BY <1>1, <1>5 DEF ConfFirst, ConfAnswer, Keys
  <2>3. ConfHeld'
    <3>1. log.stale \subseteq log'.stale
      BY ConfUnsureGrows
    <3>2. "conf" \in Keys(hub.u) => Requests(hub.dev, e.conf)
      BY <1>4, <1>5 DEF Requests
    <3>3. "conf" \notin Keys(hub.u) /\ hub.dev \notin log'.stale => Requests(hub.dev, e.conf)
      BY <1>5, <2>1, <3>1 DEF ConfHeld
    <3> QED
      BY <1>1, <1>3, <3>2, <3>3 DEF ConfHeld, Requests
  <2>4. ConfDenied'
    <3>1. SUFFICES ASSUME hub.dev \notin ConfUnsure', ~hub'.updated PROVE Requests(hub.dev, Bad) \/ "enabled" \in Keys(hub'.u)
      BY <1>1 DEF ConfDenied, Requests, Keys
    <3>2. Replied(FALSE)
      BY <1>1, <3>1, AnswersTrue
    <3>3. hub.dev \notin ConfUnsure
      BY <3>1, ConfUnsureGrows
    <3>4. Requests(hub.dev, Bad) \/ {"conf", "enabled"} \subseteq Keys(hub.u)
      BY <1>1, <2>1, <3>2, <3>3 DEF ConfAnswer
    <3> QED
      BY <1>5, <3>4
  <2> QED
    BY <2>2, <2>3, <2>4
<1>8. Kept'
  BY <1>1, <1>3, <1>6, ConfUnsureGrows DEF Kept, AtDevice, Confs, Keys, Requests, Devs
<1> QED
  BY <1>6, <1>7, <1>8 DEF ConfRequest

LEMMA KeptKept ==
  ASSUME Grows, Kept, HubThere, UNCHANGED <<replies, dsh>>,
         mgr'["ds"].alive => \A d \in DOMAIN mgr'["ds"].devs:
           obj'[d].up # "destroyed" \/ (mgr["ds"].alive /\ d \in DOMAIN mgr["ds"].devs /\ obj'[d].up = obj[d].up)
  PROVE  Kept' /\ (ConfDone' <=> ConfDone)
<1>1. ConfDone' <=> ConfDone
  BY DEF HubThere, ConfDone, HasReply, Disabling, Keys
<1>2. Kept'
  BY <1>1, ConfUnsureGrows DEF HubThere, Kept, AtDevice, Confs, Keys, Requests, Devs
<1> QED
  BY <1>1, <1>2

\* The device server answers at most the request that its handler has.
LEMMA DsUpdateShape ==
  ASSUME Types, DsUpdate
  PROVE  /\ (\A r \in replies: r \in replies') /\ \A r \in replies': r \in replies \/ r.id = dsh.ask.id
         /\ dsh'.pc = "disabling" => NotConnected(dsh.ask.dev, dsh.ask.u)
         /\ dsh'.pc # "idle" => dsh'.ask = dsh.ask /\ dsh'.pc = "disabling"
         /\ mgr'["hub"] = mgr["hub"] /\ (mgr'["ds"].alive => ObjBut(dsh.ask.dev))
         /\ DOMAIN mgr'["ds"].devs = DOMAIN mgr["ds"].devs
         /\ Replied(FALSE)' => Replied(FALSE) \/ dsh.ask.id # hub.ask \/ ConfRefused(dsh.ask.dev, dsh.ask.u)
<1> DEFINE d == dsh.ask.dev
           u == dsh.ask.u
<1>1. /\ NoneThere(d) \/ ConfRefused(d, u) \/ ConfSet(d, u) \/ Disabled(d, u) \/ Enabled(d, u)
           \/ NotConnected(d, u) \/ CannotReconnect(d, u)
      /\ hub' = hub
  BY DsUpdateEffect DEF DsHub
<1>2. Only("ds") /\ DsSame
  BY DsUpdateTypes
<1>3. mgr'["hub"] = mgr["hub"] /\ DOMAIN mgr'["ds"].devs = DOMAIN mgr["ds"].devs
  BY <1>2 DEF Only, DsSame, Services
<1> HIDE DEF d, u
<1>4. CASE NotConnected(d, u)
  <2>1. replies' = replies /\ dsh'.pc = "disabling" /\ dsh'.ask = dsh.ask /\ ObjBut(d)
    BY <1>4 DEF NotConnected
  <2>2. Replied(FALSE)' => Replied(FALSE)
    BY <1>1, <2>1 DEF Replied
  <2> QED
    BY <1>3, <1>4, <2>1, <2>2 DEF d, u
<1>5. CASE ~NotConnected(d, u)
  <2>1. PICK accepted: DsFinishes(accepted) /\ (accepted = TRUE \/ ConfRefused(d, u))
    BY <1>1, <1>5 DEF NoneThere, ConfRefused, ConfSet, Disabled, Enabled, CannotReconnect
  <2>2. Reply(dsh.ask.id, accepted) /\ dsh'.pc = "idle"
    BY <2>1 DEF DsFinishes, Idle
  <2>3. (\A r \in replies: r \in replies') /\ \A r \in replies': r \in replies \/ (r.id = dsh.ask.id /\ r.accepted = accepted)
    BY <2>2, ReplyIs
  <2>4. mgr'["ds"].alive => ObjBut(d)
    BY <1>1, <1>5 DEF NoneThere, DsDies, ConfRefused, ConfSet, Disabled, Enabled, CannotReconnect
  <2>5. ASSUME Replied(FALSE)', ~Replied(FALSE), dsh.ask.id = hub.ask PROVE ConfRefused(d, u)
    BY <1>1, <2>1, <2>3, <2>5 DEF Replied
  <2> QED
    BY <1>3, <2>2, <2>3, <2>4, <2>5 DEF d, u
<1> QED
  BY <1>4, <1>5

LEMMA DsUpdateConf ==
  ASSUME Types, AskedFor, ConfRequest, Kept, Grows, DsUpdate
  PROVE  ConfRequest' /\ Kept'
<1> DEFINE d == dsh.ask.dev
           u == dsh.ask.u
<1>1. /\ dsh.pc = "update" /\ UNCHANGED <<hub, inbox, redis>> /\ mgr["ds"].alive
      /\ NoneThere(d) \/ ConfRefused(d, u) \/ ConfSet(d, u) \/ Disabled(d, u) \/ Enabled(d, u)
           \/ NotConnected(d, u) \/ CannotReconnect(d, u)
  BY DsUpdateEffect DEF DsHub
<1>2. /\ IsAsked(dsh.ask) => hub.dev = d /\ hub.u = u
      /\ ~IsAsked(dsh.ask) => d \in log.late
  BY <1>1, DshFor
<1>3. /\ (\A r \in replies: r \in replies') /\ \A r \in replies': r \in replies \/ r.id = dsh.ask.id
      /\ dsh'.pc = "disabling" => NotConnected(d, u)
      /\ dsh'.pc # "idle" => dsh'.ask = dsh.ask /\ dsh'.pc = "disabling"
      /\ mgr'["hub"] = mgr["hub"] /\ (mgr'["ds"].alive => ObjBut(d))
      /\ DOMAIN mgr'["ds"].devs = DOMAIN mgr["ds"].devs
      /\ Replied(FALSE)' => Replied(FALSE) \/ dsh.ask.id # hub.ask \/ ConfRefused(d, u)
  BY DsUpdateShape
<1>4. Entry' = Entry
  BY <1>1, <1>3, EntrySame
<1>5. ConfUnsure \subseteq ConfUnsure' /\ log.stale \subseteq log'.stale /\ log.late \subseteq ConfUnsure
  BY ConfUnsureGrows DEF ConfUnsure
<1> HIDE DEF d, u
<1>6. ASSUME AtDevice PROVE hub.dev \in Devices /\ \A k \in Keys(hub.u): k \in Keys(hub.req.us[hub.dev]) /\ hub.u[k] = hub.req.us[hub.dev][k]
  BY <1>6, HubAtDevice DEF AtDevice
<1>7. ASSUME AtDevice', Confs(hub.dev)' PROVE (ConfFirst /\ ConfHeld /\ ConfDenied /\ ConfAnswer)'
  <2>1. AtDevice /\ Confs(hub.dev) /\ ConfFirst /\ ConfHeld /\ ConfDenied /\ ConfAnswer
    BY <1>1, <1>7 DEF ConfRequest, AtDevice, Confs, Keys
  <2>2. ConfFirst' /\ ConfDenied'
    BY <1>1, <1>5, <2>1 DEF ConfFirst, ConfDenied, Keys, Requests
  <2>3. ConfHeld'
    BY <1>1, <1>4, <1>5, <2>1 DEF ConfHeld, Keys, Requests
  <2>4. ASSUME hub.pc = "wait", hub.dev \notin ConfUnsure', Replied(FALSE)' \/ Disabling'
        PROVE  Requests(hub.dev, Bad) \/ {"conf", "enabled"} \subseteq Keys(hub.u)
    <3>1. CASE ~IsAsked(dsh.ask)
      <4>1. dsh.ask.id # hub.ask
        BY <2>4, <3>1 DEF IsAsked
      <4>2. Replied(FALSE)' => Replied(FALSE)
        BY <1>1, <1>3, <4>1 DEF Replied
      <4>3. ~Disabling'
        BY <1>1, <1>3, <4>1 DEF Disabling
      <4> QED
        BY <1>5, <2>1, <2>4, <4>2, <4>3 DEF ConfAnswer
    <3>2. CASE IsAsked(dsh.ask)
      <4>1. dsh.ask.id = hub.ask /\ hub.dev = d /\ hub.u = u
        BY <1>2, <3>2 DEF IsAsked
      <4>2. CASE ConfRefused(d, u)
        BY <1>6, <2>1, <4>1, <4>2 DEF ConfRefused, Requests
      <4>3. CASE Replied(FALSE)
        BY <1>5, <2>1, <2>4, <4>3 DEF ConfAnswer
      <4>4. CASE NotConnected(d, u)
        <5>1. "enabled" \in Keys(hub.u) /\ hub.u.enabled = TRUE /\ d \in DOMAIN Devs("ds") /\ obj[d].up = "destroyed"
          BY <4>1, <4>4 DEF NotConnected, Asked
        <5>2. "enabled" \in Keys(hub.req.us[hub.dev]) /\ hub.req.us[hub.dev].enabled
          BY <1>6, <2>1, <5>1
        <5>3. CASE "conf" \notin Keys(hub.u)
          <6>1. ConfDone
            BY <5>3 DEF ConfDone
          <6>2. Requests(hub.dev, Bad)
            BY <1>1, <1>5, <2>1, <2>4, <4>1, <5>1, <5>2, <6>1 DEF Kept
          <6> QED
            BY <6>2
        <5> QED
          BY <5>1, <5>3
      <4> QED
        BY <1>3, <2>4, <4>1, <4>2, <4>3, <4>4 DEF Disabling
    <3> QED
      BY <3>1, <3>2
  <2>5. ConfAnswer'
    BY <1>1, <2>4 DEF ConfAnswer, Keys, Requests
  <2> QED
    BY <2>2, <2>3, <2>5
<1>8. Kept'
  <2>1. SUFFICES ASSUME AtDevice, Confs(hub.dev), "enabled" \in Keys(hub.req.us[hub.dev]), hub.req.us[hub.dev].enabled,
                        ~Requests(hub.dev, Bad), ConfDone', mgr'["ds"].alive, hub.dev \in DOMAIN Devs("ds"), hub.dev \notin ConfUnsure'
                 PROVE  obj'[hub.dev].up # "destroyed"
    BY <1>1, <1>3 DEF Kept, AtDevice, Confs, Keys, Requests, Devs
  <2>2. CASE ~IsAsked(dsh.ask)
    <3>1. hub.dev # d
      BY <1>2, <1>5, <2>1, <2>2
    <3>2. hub.pc = "wait" => dsh.ask.id # hub.ask
      BY <2>2 DEF IsAsked
    <3>3. hub.pc = "wait" /\ HasReply' => HasReply
      BY <1>1, <1>3, <3>2 DEF HasReply
    <3>4. hub.pc = "wait" => ~Disabling'
      BY <1>1, <1>3, <3>2 DEF Disabling
    <3>5. ConfDone
      BY <1>1, <2>1, <3>3, <3>4 DEF ConfDone, Keys
    <3>6. obj[hub.dev].up # "destroyed"
      BY <1>1, <1>5, <2>1, <3>5 DEF Kept
    <3> QED
      BY <1>3, <1>6, <2>1, <3>1, <3>6 DEF ObjBut
  <2>3. CASE IsAsked(dsh.ask)
    <3>1. hub.pc = "wait" /\ hub.dev = d /\ hub.u = u
      BY <1>2, <2>3 DEF IsAsked
    <3>2. CASE NoneThere(d) \/ CannotReconnect(d, u)
      BY <2>1, <3>2 DEF NoneThere, CannotReconnect, DsDies
    <3>3. CASE ConfRefused(d, u)
      BY <1>6, <2>1, <3>1, <3>3 DEF ConfRefused, Requests
    <3>4. CASE ConfSet(d, u)
      BY <2>1, <3>1, <3>4 DEF ConfSet, ConfRequest, ConfFirst
    <3>5. CASE Disabled(d, u)
      BY <1>6, <2>1, <3>1, <3>5 DEF Disabled, Asked
    <3>6. CASE Enabled(d, u)
      BY <3>1, <3>6 DEF Enabled
    <3>7. CASE NotConnected(d, u)
      BY <3>1, <3>7 DEF NotConnected
    <3> QED
      BY <1>1, <3>2, <3>3, <3>4, <3>5, <3>6, <3>7
  <2> QED
    BY <2>2, <2>3
<1> QED
  BY <1>7, <1>8 DEF ConfRequest

LEMMA DsReceiveConf ==
  ASSUME Types, AskedFor, ConfRequest, Kept, Grows, DsReceive
  PROVE  ConfRequest' /\ Kept' /\ (AtDevice /\ hub.dev \notin ConfUnsure' => (ConfDone' <=> ConfDone))
<1>1. /\ dsh.pc = "idle" /\ asks # <<>> /\ UNCHANGED <<hub, inbox, mgr, obj, redis>>
      /\ DshTakes(Head(asks)) \/ DshRefuses(Head(asks))
  BY DsReceiveEffect
<1>2. IsAwaited(Head(asks))
  BY <1>1, SeqTail DEF AskedFor, Types, QueuesOK, AsksOK
<1>3. ConfUnsure \subseteq ConfUnsure' /\ log.stale \subseteq log'.stale
  BY ConfUnsureGrows
<1>4. ~Disabling /\ ~Disabling'
  <2>1. dsh'.pc # "disabling"
    <3>1. CASE DshTakes(Head(asks))
      BY <3>1 DEF DshTakes
    <3>2. CASE DshRefuses(Head(asks))
      BY <1>1, <3>2 DEF DshRefuses
    <3> QED
      BY <1>1, <3>1, <3>2
  <2> QED
    BY <1>1, <2>1 DEF Disabling
<1>5. ASSUME AtDevice, hub.dev \notin ConfUnsure', hub.pc = "wait" PROVE (HasReply' <=> HasReply) /\ (Replied(FALSE)' <=> Replied(FALSE))
  <2>1. CASE DshTakes(Head(asks))
    BY <1>1, <2>1 DEF DshTakes, HasReply, Replied
  <2>2. CASE DshRefuses(Head(asks))
    <3>1. Reply(Head(asks).id, FALSE) /\ Head(asks).dev \in ConfUnsure'
      BY <2>2 DEF DshRefuses, ConfUnsure
    <3>2. hub.ask # Head(asks).id
      BY <1>2, <1>5, <3>1 DEF IsAwaited, IsAsked
    <3> QED
      BY <1>1, <3>1, <3>2, ReplyIs DEF HasReply, Replied
  <2> QED
    BY <1>1, <2>1, <2>2
<1>6. ASSUME AtDevice, hub.dev \notin ConfUnsure' PROVE ConfDone' <=> ConfDone
  BY <1>1, <1>4, <1>5, <1>6 DEF ConfDone, Keys
<1>7. Entry' = Entry
  BY <1>1, EntrySame
<1>8. ASSUME AtDevice', Confs(hub.dev)' PROVE (ConfFirst /\ ConfHeld /\ ConfDenied /\ ConfAnswer)'
  <2>1. AtDevice /\ Confs(hub.dev) /\ ConfFirst /\ ConfHeld /\ ConfDenied /\ ConfAnswer
    BY <1>1, <1>8 DEF ConfRequest, AtDevice, Confs, Keys
  <2>2. ConfFirst' /\ ConfDenied'
    BY <1>1, <1>3, <2>1 DEF ConfFirst, ConfDenied, Keys, Requests
  <2>3. ConfHeld'
    BY <1>1, <1>3, <1>7, <2>1 DEF ConfHeld, Keys, Requests
  <2>4. ConfAnswer'
    BY <1>1, <1>3, <1>4, <1>5, <2>1 DEF ConfAnswer, Keys, Requests
  <2> QED
    BY <2>2, <2>3, <2>4
<1>9. Kept'
  BY <1>1, <1>3, <1>6 DEF Kept, AtDevice, Confs, Keys, Requests, Devs
<1> QED
  BY <1>6, <1>8, <1>9 DEF ConfRequest

LEMMA DsGivesUpConf ==
  ASSUME Types, ConfRequest, Kept, Grows, DsGivesUp
  PROVE  ConfRequest' /\ Kept' /\ (AtDevice => (ConfDone' <=> ConfDone))
<1>1. /\ dsh.pc = "disabling" /\ dsh' = Idle /\ UNCHANGED <<hub, inbox, mgr, obj, redis, log>>
      /\ \E accepted: Reply(dsh.ask.id, accepted)
  BY DsGivesUpEffect
<1>2. (\A r \in replies: r \in replies') /\ \A r \in replies': r \in replies \/ r.id = dsh.ask.id
  BY <1>1, ReplyIs
<1>3. ~Disabling' /\ (dsh.ask.id = hub.ask => Disabling)
  BY <1>1 DEF Disabling, Idle
<1>4. Disabling => HasReply'
  <2>1. PICK accepted: Reply(dsh.ask.id, accepted)
    BY <1>1
  <2> DEFINE r == [id |-> dsh.ask.id, accepted |-> accepted]
  <2>2. r \in replies' /\ r.id = dsh.ask.id
    BY <2>1 DEF Reply
  <2> HIDE DEF r
  <2> QED
    BY <1>1, <2>2 DEF Disabling, HasReply
<1>5. HasReply' => HasReply \/ Disabling
  BY <1>1, <1>2, <1>3 DEF HasReply
<1>6. HasReply => HasReply'
  BY <1>1, <1>2 DEF HasReply
<1>7. Replied(FALSE)' => Replied(FALSE) \/ Disabling
  BY <1>1, <1>2, <1>3 DEF Replied
<1>8. ConfDone' <=> ConfDone
  BY <1>1, <1>3, <1>4, <1>5, <1>6 DEF ConfDone, Keys
<1>9. Entry' = Entry
  BY <1>1, EntrySame
<1>10. ASSUME AtDevice', Confs(hub.dev)' PROVE (ConfFirst /\ ConfHeld /\ ConfDenied /\ ConfAnswer)'
  <2>1. AtDevice /\ Confs(hub.dev) /\ ConfFirst /\ ConfHeld /\ ConfDenied /\ ConfAnswer
    BY <1>1, <1>10 DEF ConfRequest, AtDevice, Confs, Keys
  <2>2. ConfFirst' /\ ConfDenied' /\ ConfHeld'
    BY <1>1, <1>9, <2>1 DEF ConfFirst, ConfDenied, ConfHeld, Keys, Requests, ConfUnsure
  <2>3. ConfAnswer'
    BY <1>1, <1>3, <1>7, <2>1 DEF ConfAnswer, Keys, Requests, ConfUnsure
  <2> QED
    BY <2>2, <2>3
<1>11. Kept'
  BY <1>1, <1>8 DEF Kept, AtDevice, Confs, Keys, Requests, Devs, ConfUnsure
<1> QED
  BY <1>8, <1>10, <1>11 DEF ConfRequest

\* What the others leave alone: SciHub's handler, and the answers of the device server.
Elsewhere == Client \/ DsLoad \/ DsDisabled \/ ClientLoads \/ (\E s \in Services: Manager(s)) \/ UNCHANGED vars
LEMMA ElsewhereEffect ==
  ASSUME Types, Elsewhere
  PROVE  /\ HubThere /\ UNCHANGED <<replies, dsh>> /\ redis'.config = redis.config
         /\ AtDevice => Entry' = Entry \/ hub.dev \in log'.stale
         /\ \A s \in Services: mgr'[s].alive => mgr[s].alive
<1>0. hub' = hub => HubThere
  BY DEF HubThere
<1>1. CASE UNCHANGED vars
  BY <1>0, <1>1, EntrySame DEF vars
<1>2. CASE SendRequest
  <2>1. UNCHANGED <<replies, hub, dsh, redis>> /\ (mgr' = mgr \/ (Only("client") /\ MgrSame("client")))
    BY <1>2, SendRequestEffect
  <2>2. mgr'["hub"] = mgr["hub"] /\ \A s \in Services: mgr'[s].alive => mgr[s].alive
    BY <2>1 DEF Only, MgrSame, Services
  <2> QED
    BY <1>0, <2>1, <2>2, EntrySame
<1>3. CASE Client /\ ~SendRequest
  <2>1. UNCHANGED <<replies, hub, dsh, redis, mgr>>
    BY <1>3 DEF Client, NoSuchDevice, GetReply, ReplyTimesOut
  <2> QED
    BY <1>0, <2>1, EntrySame
<1>4. CASE DsLoad
  <2>1. /\ mgr["ds"].alive /\ UNCHANGED <<replies, hub, dsh>>
        /\ LoadEnds \/ \E d \in Devices: LET e == mgr["ds"].session[d] IN LoadRefuses(d) \/ LoadFails(d, e) \/ LoadAdds(d, e)
    BY <1>4, DsLoadEffect
  <2>2. redis'.config = redis.config /\ Only("ds")
    <3>1. CASE LoadEnds
      BY <3>1 DEF LoadEnds
    <3>2. ASSUME NEW d \in Devices, NEW e, LoadRefuses(d) \/ LoadFails(d, e) \/ LoadAdds(d, e)
          PROVE  redis'.config = redis.config /\ Only("ds")
      <4>1. Takes(d) /\ (redis' = redis \/ Informs(d))
        BY <3>2 DEF LoadRefuses, LoadFails, LoadAdds
      <4> QED
        BY <4>1 DEF Takes, Informs
    <3> QED
      BY <2>1, <3>1, <3>2
  <2>3. mgr'["hub"] = mgr["hub"] /\ \A s \in Services: mgr'[s].alive => mgr[s].alive
    BY <2>1, <2>2 DEF Only, Services
  <2> QED
    BY <1>0, <2>1, <2>2, <2>3, EntrySame
<1>5. CASE DsDisabled
  <2>1. UNCHANGED <<replies, hub, dsh, redis>> /\ Only("ds") /\ mgr["ds"].alive
    BY <1>5, DsDisabledEffect
  <2>2. mgr'["hub"] = mgr["hub"] /\ \A s \in Services: mgr'[s].alive => mgr[s].alive
    BY <2>1 DEF Only, Services
  <2> QED
    BY <1>0, <2>1, <2>2, EntrySame
<1>6. CASE ClientLoads
  <2>1. UNCHANGED <<replies, hub, dsh, redis>> /\ Only("client") /\ mgr["client"].alive
    BY <1>6, ClientLoadsEffect
  <2>2. mgr'["hub"] = mgr["hub"] /\ \A s \in Services: mgr'[s].alive => mgr[s].alive
    BY <2>1 DEF Only, Services
  <2> QED
    BY <1>0, <2>1, <2>2, EntrySame
<1>7. ASSUME NEW s \in Services, Manager(s)
      PROVE  /\ HubThere /\ UNCHANGED <<replies, dsh>> /\ redis'.config = redis.config
             /\ AtDevice => Entry' = Entry \/ hub.dev \in log'.stale
             /\ \A t \in Services: mgr'[t].alive => mgr[t].alive
  <2>1. /\ HubThere /\ redis'.config = redis.config
        /\ AtDevice => Entry' = Entry \/ hub.dev \in log'.stale
    BY <1>7, ManagerEntry DEF AtDevice
  <2>2. UNCHANGED <<replies, dsh>> /\ Only(s) /\ mgr[s].alive
    <3>1. CASE ParseUpdate(s)
      BY <3>1, ParseUpdateEffect DEF Handles
    <3>2. CASE ParseReload(s)
      BY <3>2, ParseReloadEffect DEF Handles
    <3>3. CASE GetConfig(s)
      BY <3>3, GetConfigEffect
    <3> QED
      BY <1>7, <3>1, <3>2, <3>3 DEF Manager
  <2> QED
    BY <2>1, <2>2 DEF Only
<1> QED
  BY <1>1, <1>2, <1>3, <1>4, <1>5, <1>6, <1>7 DEF Elsewhere, Client

LEMMA ConfStoredKept ==
  ASSUME Grows, ConfStored, redis'.config = redis.config, hub.pc # "idle" \/ hub'.pc = "idle", hub'.pc # "idle" => hub.pc # "idle",
         hub'.pc # "idle" => hub'.req = hub.req /\ hub'.left = hub.left /\ hub'.stored = hub.stored /\ hub'.dev = hub.dev
                             /\ (AtDevice => AtDevice')
  PROVE  ConfStored'
<1>1. ConfUnsure \subseteq ConfUnsure' /\ log.stale \subseteq log'.stale
  BY ConfUnsureGrows
<1> SUFFICES ASSUME hub'.pc # "idle", NEW d \in DOMAIN hub.req.us, Confs(d)
             PROVE  /\ d \in hub.stored \ log'.stale => d \in DOMAIN redis.config /\ Requests(d, redis.config[d].conf)
                    /\ d \in hub.stored \/ d \in ToSet(hub.left) \/ d \in ConfUnsure' \/ (AtDevice' /\ d = hub.dev) \/ Requests(d, Bad)
  BY DEF ConfStored, Confs, Keys, Requests
<1>2. /\ d \in hub.stored \ log.stale => d \in DOMAIN redis.config /\ Requests(d, redis.config[d].conf)
      /\ d \in hub.stored \/ d \in ToSet(hub.left) \/ d \in ConfUnsure \/ (AtDevice /\ d = hub.dev) \/ Requests(d, Bad)
  BY DEF ConfStored
<1> QED
  BY <1>1, <1>2

LEMMA HubConfStored ==
  ASSUME Types, ConfRequest, ConfStored, Grows, Hub
  PROVE  ConfStored'
<1>1. CASE hub'.pc = "idle"
  BY <1>1 DEF ConfStored
<1>2. CASE HubReceive /\ hub'.pc # "idle"
  <2> DEFINE r == Head(requests)
  <2>0. hub.pc = "idle" /\ (HubRefuses(r) \/ HubTakes(r) \/ HubReloads(r) \/ HubSets(r))
    BY <1>2, HubReceiveEffect
  <2> HIDE DEF r
  <2>9. HubTakes(r)
    <3>1. CASE HubRefuses(r)
      BY <1>2, <3>1 DEF HubRefuses, Idle
    <3>2. CASE HubReloads(r) \/ HubSets(r)
      BY <1>2, <2>0, <3>2 DEF HubReloads, HubSets
    <3> QED
      BY <2>0, <3>1, <3>2
  <2>1. HubTakes(Head(requests))
    BY <2>9 DEF r
  <2>2. hub'.stored = {} /\ hub'.left = SetToSeq(DOMAIN hub'.req.us)
    BY <2>1 DEF HubTakes
  <2>3. DOMAIN hub'.req.us \subseteq Devices
    BY <1>2, HubReceiveTypes, HubBusy DEF Types, HubOK, IsUpdates
  <2>4. ToSet(hub'.left) = DOMAIN hub'.req.us
    BY <2>2, <2>3, SetToSeqFacts
  <2> QED
    BY <2>2, <2>4 DEF ConfStored
<1>3. CASE HubDevice /\ hub'.pc # "idle"
  <2>0. ASSUME HubMisses PROVE FALSE
    <3>1. hub' = Idle
      BY <2>0 DEF HubMisses
    <3> QED
      BY <1>3, <3>1 DEF Idle
  <2>1. HubStarts(Head(hub.left)) /\ hub.pc = "next" /\ redis' = redis /\ hub.left # <<>>
    BY <1>3, <2>0, HubDeviceEffect
  <2>2. hub'.pc = "ask" /\ hub'.req = hub.req /\ hub'.stored = hub.stored /\ hub'.left = Tail(hub.left) /\ hub'.dev = Head(hub.left) /\ log' = log
    BY <2>1 DEF HubStarts
  <2>3. ToSet(Tail(hub.left)) = ToSet(hub.left) \ {Head(hub.left)}
    BY <2>1, HubBusy, TailOfLeft DEF Types
  <2> QED
    BY <2>1, <2>2, <2>3 DEF ConfStored, AtDevice, Confs, Keys, Requests, ConfUnsure
<1>4. CASE HubAsk
  BY <1>4, HubAskEffect, ConfStoredKept DEF AtDevice, RequestKept
<1>5. CASE HubGetsAnswer
  BY <1>5, HubGetsAnswerEffect, ConfStoredKept DEF AtDevice, RequestKept
<1>6. CASE HubStore /\ hub'.pc # "idle"
  <2> DEFINE e == Apply(Entry, hub.u)
  <2>1. /\ hub.pc = "ask" /\ Wanted /\ \A k \in Fields: e[k] = IF k \in Keys(hub.u) THEN hub.u[k] ELSE Entry[k]
        /\ HubSkips \/ HubFails \/ HubWrites(e)
    BY <1>6, HubStoreEffect
  <2> HIDE DEF e
  <2>0. ASSUME HubFails PROVE FALSE
    <3>1. hub' = Idle
      BY <2>0 DEF HubFails
    <3> QED
      BY <1>6, <3>1 DEF Idle
  <2>2. "conf" \notin Keys(hub.u) /\ e.conf = Entry.conf
    BY <2>1 DEF Wanted, Fields
  <2>3. AtDevice /\ hub.pc # "idle" /\ (Confs(hub.dev) => ConfHeld /\ ConfDenied)
    BY <2>1 DEF ConfRequest, AtDevice
  <2>4. ConfUnsure \subseteq ConfUnsure' /\ log.stale \subseteq log'.stale
    BY ConfUnsureGrows
  <2>5. hub'.pc = "next" /\ hub'.req = hub.req /\ hub'.left = hub.left
    BY <2>0, <2>1 DEF HubSkips, HubWrites, RequestKept
  <2> SUFFICES ASSUME NEW d \in DOMAIN hub.req.us, Confs(d)
               PROVE  /\ d \in hub'.stored \ log'.stale => d \in DOMAIN redis'.config /\ Requests(d, redis'.config[d].conf)
                      /\ d \in hub'.stored \/ d \in ToSet(hub.left) \/ d \in ConfUnsure' \/ Requests(d, Bad)
    BY <2>5 DEF ConfStored, Confs, Keys, Requests
  <2>6. /\ d \in hub.stored \ log.stale => d \in DOMAIN redis.config /\ Requests(d, redis.config[d].conf)
        /\ d \in hub.stored \/ d \in ToSet(hub.left) \/ d \in ConfUnsure \/ d = hub.dev \/ Requests(d, Bad)
    BY <2>3 DEF ConfStored
  <2>7. CASE HubSkips
    <3>1. ~hub.updated /\ Keys(hub.u) = {} /\ hub'.stored = hub.stored /\ redis' = redis
      BY <2>7 DEF HubSkips
    <3>2. d = hub.dev => d \in ConfUnsure \/ Requests(d, Bad)
      BY <2>3, <3>1 DEF ConfDenied
    <3> QED
      BY <2>4, <2>6, <3>1, <3>2
  <2>8. CASE HubWrites(e)
    <3>1. /\ hub'.stored = hub.stored \cup {hub.dev} /\ DOMAIN redis'.config = DOMAIN redis.config /\ hub.dev \in DOMAIN redis.config
          /\ \A x \in DOMAIN redis.config: redis'.config[x] = IF x = hub.dev THEN e ELSE redis.config[x]
      BY <2>8 DEF HubWrites, Stores
    <3>2. d = hub.dev /\ d \notin log'.stale => Requests(d, e.conf)
      BY <2>2, <2>3, <2>4 DEF ConfHeld
    <3> QED
      BY <2>4, <2>6, <3>1, <3>2
  <2> QED
    BY <2>0, <2>1, <2>7, <2>8
<1>7. CASE HubTimesOut \/ HubDone
  <2>0. hub' = Idle
    BY <1>7, HubTimesOutEffect, HubDoneEffect
  <2>1. hub'.pc = "idle"
    BY <2>0 DEF Idle
  <2> QED
    BY <1>1, <2>1
<1> QED
  BY <1>1, <1>2, <1>3, <1>4, <1>5, <1>6, <1>7 DEF Hub

LEMMA HubConfRequest ==
  ASSUME Types, ConfRequest, Kept, Grows, Hub
  PROVE  ConfRequest' /\ Kept'
<1>1. CASE HubReceive
  <2>1. hub'.pc \notin {"ask", "wait"}
    <3>1. hub.pc = "idle" /\ (HubRefuses(Head(requests)) \/ HubTakes(Head(requests)) \/ hub' = hub)
      BY <1>1, HubReceiveEffect DEF HubReloads, HubSets
    <3>2. CASE HubRefuses(Head(requests))
      <4>1. hub' = Idle
        BY <3>2 DEF HubRefuses
      <4> QED
        BY <4>1 DEF Idle
    <3>3. CASE HubTakes(Head(requests))
      BY <3>3 DEF HubTakes
    <3> QED
      BY <3>1, <3>2, <3>3
  <2> QED
    BY <2>1, ConfRequestAway
<1>2. CASE HubStore
  <2>1. HubSkips \/ HubFails \/ \E e: HubWrites(e)
    BY <1>2, HubStoreEffect
  <2>2. CASE HubFails
    <3>1. hub' = Idle
      BY <2>2 DEF HubFails
    <3> QED
      BY <3>1, ConfRequestAway DEF Idle
  <2>3. CASE HubSkips \/ \E e: HubWrites(e)
    BY <2>3, ConfRequestAway DEF HubSkips, HubWrites
  <2> QED
    BY <2>1, <2>2, <2>3
<1>3. CASE HubTimesOut \/ HubDone
  <2>1. hub' = Idle
    BY <1>3, HubTimesOutEffect, HubDoneEffect
  <2> QED
    BY <2>1, ConfRequestAway DEF Idle
<1> QED
  BY <1>1, <1>2, <1>3, HubDeviceConf, HubAskConf, HubGetsAnswerConf DEF Hub

\* What the others do to the objects of the device server.
Unaffected ==
  /\ mgr'["ds"].alive = mgr["ds"].alive /\ inbox'["ds"] = inbox["ds"] /\ obj' = obj
  /\ mgr'["ds"].devs = mgr["ds"].devs
LoadMakes(d, e) ==
  /\ DOMAIN mgr'["ds"].devs = DOMAIN mgr["ds"].devs \cup {d} /\ mgr'["ds"].devs[d].conf = e.conf
  /\ \A x \in DOMAIN mgr["ds"].devs: x # d => mgr'["ds"].devs[x] = mgr["ds"].devs[x]
  /\ Creates(d, e) /\ (d \notin log'.remade => ~Overtaken(d, e))
  /\ mgr["ds"].alive /\ inbox'["ds"] = inbox["ds"]
LEMMA ElsewhereObjects ==
  ASSUME Types, Elsewhere
  PROVE  \/ Unaffected \/ ParseUpdate("ds") \/ ParseReload("ds")
         \/ DsLoad /\ \E d \in Devices: LoadMakes(d, mgr["ds"].session[d])
<1>1. CASE UNCHANGED vars
  BY <1>1 DEF vars, Unaffected
<1>2. CASE SendRequest
  BY <1>2, SendRequestEffect DEF Only, Services, Unaffected
<1>3. CASE Client /\ ~SendRequest
  BY <1>3 DEF Client, NoSuchDevice, GetReply, ReplyTimesOut, Unaffected
<1>4. CASE DsDisabled
  BY <1>4, DsDisabledEffect DEF Unaffected
<1>5. CASE ClientLoads
  BY <1>5, ClientLoadsEffect DEF Only, Services, Unaffected
<1>6. ASSUME NEW s \in Services, Manager(s) PROVE Unaffected \/ ParseUpdate("ds") \/ ParseReload("ds")
  <2>1. CASE s # "ds" /\ ParseUpdate(s)
    BY <2>1, ParseUpdateEffect DEF Only, Services, Handles, Unaffected
  <2>2. CASE s # "ds" /\ ParseReload(s)
    BY <2>2, ParseReloadEffect DEF Only, Services, Handles, Unaffected
  <2>3. CASE GetConfig(s)
    <3>1. /\ Only(s) /\ UNCHANGED <<inbox, obj>> /\ mgr'[s].alive = mgr[s].alive
          /\ s = "ds" => mgr'[s].devs = mgr[s].devs
      BY <2>3, GetConfigEffect
    <3> QED
      BY <3>1 DEF Only, Services, Unaffected
  <2> QED
    BY <1>6, <2>1, <2>2, <2>3 DEF Manager
<1>7. CASE DsLoad
  <2>1. /\ mgr["ds"].alive /\ inbox' = inbox
        /\ LoadEnds \/ \E d \in Devices: LET e == mgr["ds"].session[d] IN LoadRefuses(d) \/ LoadFails(d, e) \/ LoadAdds(d, e)
    BY <1>7, DsLoadEffect
  <2>2. CASE LoadEnds
    BY <2>1, <2>2 DEF LoadEnds, Unaffected
  <2>3. ASSUME NEW d \in Devices, LoadRefuses(d) PROVE Unaffected
    BY <2>1, <2>3 DEF LoadRefuses, Takes, Unaffected
  <2>4. ASSUME NEW d \in Devices, NEW e, e = mgr["ds"].session[d], LoadFails(d, e) \/ LoadAdds(d, e)
        PROVE  LoadMakes(d, e)
    <3>1. Creates(d, e) /\ (d \notin log'.remade => ~Overtaken(d, e)) /\ d \in DOMAIN mgr["ds"].session
      BY <2>4 DEF LoadFails, LoadAdds, Takes
    <3>2. IsEntry(e)
      BY <2>4, <3>1 DEF Types, ManagersOK, IsManager, IsConfig, Services
    <3> DEFINE f == [e EXCEPT !.enabled = FALSE]
    <3>3. f.conf = e.conf
      BY <3>2, DisabledEntry
    <3>4. Adds(d, e) \/ Adds(d, f)
      BY <2>4 DEF LoadFails, LoadAdds
    <3> HIDE DEF f
    <3> QED
      BY <2>1, <3>1, <3>3, <3>4 DEF Adds, LoadMakes
  <2> QED
    BY <1>7, <2>1, <2>2, <2>3, <2>4
<1> QED
  BY <1>1, <1>2, <1>3, <1>4, <1>5, <1>6, <1>7 DEF Elsewhere, Client

LEMMA ElsewhereConf ==
  ASSUME Types, ConfRequest, Kept, ConfStored, Grows, Elsewhere
  PROVE  ConfRequest' /\ Kept' /\ ConfStored' /\ (ConfDone' <=> ConfDone)
<1>1. /\ HubThere /\ UNCHANGED <<replies, dsh>> /\ redis'.config = redis.config
      /\ AtDevice => Entry' = Entry \/ hub.dev \in log'.stale
      /\ \A s \in Services: mgr'[s].alive => mgr[s].alive
  BY ElsewhereEffect
<1>2. ConfRequest'
  BY <1>1, ConfRequestKept
<1>3. ConfStored'
  BY <1>1, ConfStoredKept DEF HubThere, AtDevice
<1>4. ASSUME mgr'["ds"].alive, NEW d \in DOMAIN mgr'["ds"].devs
      PROVE  obj'[d].up # "destroyed" \/ (mgr["ds"].alive /\ d \in DOMAIN mgr["ds"].devs /\ obj'[d].up = obj[d].up)
  <2>1. mgr["ds"].alive
    BY <1>1, <1>4 DEF Services
  <2>2. CASE Unaffected
    BY <1>4, <2>1, <2>2 DEF Unaffected
  <2>3. CASE ParseUpdate("ds")
    BY <1>4, <2>1, <2>3, ParseUpdateEffect DEF Services, ApplyTo
  <2>4. CASE ParseReload("ds")
    <3>1. mgr'["ds"].devs = <<>>
      BY <2>4, ParseReloadEffect DEF Services
    <3> QED
      BY <1>4, <3>1, EmptySequence
  <2>5. ASSUME NEW x \in Devices, NEW e, LoadMakes(x, e)
        PROVE  obj'[d].up # "destroyed" \/ (d \in DOMAIN mgr["ds"].devs /\ obj'[d].up = obj[d].up)
    <3>1. d \in DOMAIN mgr["ds"].devs => d \in Devices
      BY DEF Types, ManagersOK, IsManager, IsConfig, Services
    <3> QED
      BY <1>4, <2>5, <3>1 DEF LoadMakes, Creates, ObjBut
  <2> QED
    BY <2>1, <2>2, <2>3, <2>4, <2>5, ElsewhereObjects
<1>5. Kept' /\ (ConfDone' <=> ConfDone)
  BY <1>1, <1>4, KeptKept
<1> QED
  BY <1>2, <1>3, <1>5

\* The last message about a deviceConfig has the stored one, but for a bad one, which SciHub
\* broadcasts although the object has refused it.
ConfMessageOK(i, d) == MessageOK("ds", i, d, "conf") \/ inbox["ds"][i].us[d].conf = Bad
ConfMessages == mgr["ds"].alive => \A i \in DOMAIN inbox["ds"]: \A d \in Devices \ ConfUnsure: ConfMessageOK(i, d)

LEMMA ConfMessagesKept ==
  ASSUME ConfMessages, Grows, inbox'["ds"] = inbox["ds"], mgr'["ds"].alive => mgr["ds"].alive,
         \A d \in Devices \ ConfUnsure':
           /\ Pending(d, "conf") => Pending(d, "conf")'
           /\ \/ Pending(d, "conf")'
              \/ d \in DOMAIN redis.config => d \in DOMAIN redis'.config /\ redis'.config[d].conf = redis.config[d].conf
  PROVE  ConfMessages'
<1> SUFFICES ASSUME mgr'["ds"].alive, NEW i \in DOMAIN inbox["ds"], NEW d \in Devices \ ConfUnsure'
             PROVE  ConfMessageOK(i, d)'
  BY DEF ConfMessages
<1>1. ConfMessageOK(i, d)
  BY ConfUnsureGrows DEF ConfMessages
<1>2. Superseded("ds", i, d, "conf") => Superseded("ds", i, d, "conf")'
  BY DEF Superseded
<1>3. Matches("ds", i, d, "conf") => Pending(d, "conf")' \/ Matches("ds", i, d, "conf")'
  BY DEF Matches
<1> QED
  BY <1>1, <1>2, <1>3 DEF MessageOK, ConfMessageOK

LEMMA ConfMessagesHandled ==
  ASSUME Types, ConfMessages, Grows, Handles("ds"), redis' = redis, \A d: Pending(d, "conf") => Pending(d, "conf")'
  PROVE  ConfMessages'
<1>0. "ds" \in Services
  BY DEF Services
<1>1. \A i \in DOMAIN inbox'["ds"]: i + 1 \in DOMAIN inbox["ds"] /\ inbox'["ds"][i] = inbox["ds"][i + 1]
  BY <1>0, HandledFirst
<1>2. \A i \in DOMAIN inbox["ds"]: i # 1 => i - 1 \in DOMAIN inbox'["ds"] /\ inbox'["ds"][i - 1] = inbox["ds"][i]
  BY <1>0, HandledFirst
<1>3. DOMAIN inbox["ds"] \subseteq Int /\ DOMAIN inbox'["ds"] \subseteq Nat \ {0}
  <2>1. IsSeq(inbox["ds"]) /\ IsSeq(inbox'["ds"])
    BY <1>0, InboxTail DEF Types, InboxOK
  <2> QED
    BY <2>1 DEF IsSeq
<1> SUFFICES ASSUME NEW i \in DOMAIN inbox'["ds"], NEW d \in Devices \ ConfUnsure'
             PROVE  ConfMessageOK(i, d)'
  BY DEF ConfMessages
<1>4. ConfMessageOK(i + 1, d) /\ i \in Nat \ {0}
  BY <1>1, <1>3, ConfUnsureGrows DEF ConfMessages, Handles
<1>5. ASSUME Superseded("ds", i + 1, d, "conf") PROVE Superseded("ds", i, d, "conf")'
  <2>1. PICK j \in DOMAIN inbox["ds"]: j > i + 1 /\ (inbox["ds"][j].action = "reload" \/ Mentions(inbox["ds"][j], d, "conf"))
    BY <1>5 DEF Superseded
  <2>2. j # 1 /\ j - 1 > i
    BY <1>3, <1>4, <2>1
  <2>3. j - 1 \in DOMAIN inbox'["ds"] /\ inbox'["ds"][j - 1] = inbox["ds"][j]
    BY <1>2, <2>2
  <2> QED
    BY <2>1, <2>2, <2>3 DEF Superseded, Mentions, Keys
<1>6. Matches("ds", i + 1, d, "conf") => Matches("ds", i, d, "conf")'
  BY <1>1 DEF Matches
<1>7. Mentions(inbox["ds"][i], d, "conf")' => Mentions(inbox["ds"][i + 1], d, "conf")
  BY <1>1 DEF Mentions, Keys
<1>8. inbox["ds"][i + 1].us[d].conf = Bad => inbox'["ds"][i].us[d].conf = Bad
  BY <1>1
<1> QED
  BY <1>4, <1>5, <1>6, <1>7, <1>8 DEF MessageOK, ConfMessageOK

\* What is stored under a key that the request does not have is what was there.
LEMMA HubWritesConf ==
  ASSUME Types, HubStore, NEW e, HubWrites(e), NEW d \in Devices \ ConfUnsure'
  PROVE  \/ Pending(d, "conf")'
         \/ d \in DOMAIN redis.config => d \in DOMAIN redis'.config /\ redis'.config[d].conf = redis.config[d].conf
<1>1. Stores(e) /\ RequestKept /\ hub'.pc = "next" /\ hub'.stored = hub.stored \cup {hub.dev}
  BY DEF HubWrites
<1>2. CASE d # hub.dev
  BY <1>1, <1>2 DEF Stores
<1>3. CASE d = hub.dev /\ "conf" \in Keys(hub.req.us[d])
  BY <1>1, <1>3 DEF Pending, RequestKept, Keys
<1>4. CASE d = hub.dev /\ "conf" \notin Keys(hub.req.us[d])
  <2>1. ~Overwritten(e)
    BY <1>4 DEF HubWrites, ConfUnsure
  <2>2. "conf" \in DOMAIN e
    BY <1>1 DEF Stores, IsEntry
  <2>3. e["conf"] = redis.config[d]["conf"]
    BY <1>4, <2>1, <2>2 DEF Overwritten
  <2> QED
    BY <1>1, <1>4, <2>3 DEF Stores
<1> QED
  BY <1>2, <1>3, <1>4

LEMMA ConfPendingTorn ==
  ASSUME hub.stored \subseteq log'.torn
  PROVE  \A d \in Devices \ ConfUnsure': ~Pending(d, "conf")
  BY DEF Pending, ConfUnsure

LEMMA HubDoneConfMessages ==
  ASSUME Types, ConfStored, ConfMessages, Grows, HubDone
  PROVE  ConfMessages'
<1>1. /\ hub.pc = "next" /\ hub.left = <<>> /\ hub' = Idle /\ UNCHANGED <<mgr, redis>> /\ (HubTells \/ HubIsSilent)
  BY HubDoneEffect
<1>2. CASE HubIsSilent
  <2>1. inbox' = inbox /\ hub.stored \subseteq log'.torn
    BY <1>2 DEF HubIsSilent
  <2> QED
    BY <1>1, <2>1, ConfPendingTorn, ConfMessagesKept
<1>3. CASE HubTells
  <2> DEFINE m == [action |-> "update", us |-> hub.req.us]
  <2>1. Broadcast(m) /\ m.action = "update" /\ m.us = hub.req.us
    BY <1>3 DEF HubTells
  <2> HIDE DEF m
  <2>2. ASSUME NEW d \in DOMAIN hub.req.us \ ConfUnsure, "conf" \in Keys(hub.req.us[d])
        PROVE  (d \in DOMAIN redis.config /\ redis.config[d].conf = hub.req.us[d].conf) \/ hub.req.us[d].conf = Bad
    <3>1. ToSet(hub.left) = {} /\ ~AtDevice
      BY <1>1, EmptySequence DEF AtDevice
    <3> QED
      BY <1>1, <2>2, <3>1 DEF ConfStored, Confs, Requests, ConfUnsure
  <2> SUFFICES ASSUME mgr["ds"].alive, NEW i \in DOMAIN inbox'["ds"], NEW d \in Devices \ ConfUnsure'
               PROVE  ConfMessageOK(i, d)'
    BY <1>1 DEF ConfMessages
  <2> DEFINE n == Len(inbox["ds"])
  <2>3. /\ n \in Nat /\ DOMAIN inbox["ds"] = 1..n /\ DOMAIN inbox'["ds"] = 1..(n + 1) /\ inbox'["ds"][n + 1] = m
        /\ n + 1 \in DOMAIN inbox'["ds"]
        /\ \A j \in DOMAIN inbox["ds"]: j \in DOMAIN inbox'["ds"] /\ inbox'["ds"][j] = inbox["ds"][j] /\ n + 1 > j
    BY <2>1, BroadcastEffect DEF Services
  <2> HIDE DEF n
  <2>4. d \notin ConfUnsure
    BY ConfUnsureGrows
  <2>5. CASE i = n + 1
    <3>1. inbox'["ds"][i] = m
      BY <2>3, <2>5
    <3>2. Mentions(inbox["ds"][i], d, "conf")' => d \in DOMAIN hub.req.us /\ "conf" \in Keys(hub.req.us[d])
      BY <2>1, <3>1 DEF Mentions, Keys
    <3>3. Mentions(inbox["ds"][i], d, "conf")' => Matches("ds", i, d, "conf")' \/ inbox'["ds"][i].us[d].conf = Bad
      BY <1>1, <2>1, <2>2, <2>4, <3>1, <3>2 DEF Matches
    <3> QED
      BY <3>3 DEF MessageOK, ConfMessageOK
  <2>6. CASE i # n + 1
    <3>1. i \in DOMAIN inbox["ds"] /\ inbox'["ds"][i] = inbox["ds"][i]
      BY <2>3, <2>6
    <3>2. ConfMessageOK(i, d)
      BY <2>4, <3>1 DEF ConfMessages
    <3>3. Superseded("ds", i, d, "conf") => Superseded("ds", i, d, "conf")'
      BY <2>3, <3>1 DEF Superseded, Mentions, Keys
    <3>4. Pending(d, "conf") => Superseded("ds", i, d, "conf")'
      <4>1. ASSUME Pending(d, "conf") PROVE d \in DOMAIN m.us /\ "conf" \in Keys(m.us[d])
        BY <1>1, <2>1, <4>1, HubBusy DEF Pending, Types
      <4> QED
        BY <2>1, <2>3, <3>1, <4>1 DEF Superseded, Mentions, Keys
    <3>5. Matches("ds", i, d, "conf") => Matches("ds", i, d, "conf")'
      BY <1>1, <3>1 DEF Matches
    <3>6. Mentions(inbox["ds"][i], d, "conf")' => Mentions(inbox["ds"][i], d, "conf")
      BY <3>1 DEF Mentions, Keys
    <3>7. inbox["ds"][i].us[d].conf = Bad => inbox'["ds"][i].us[d].conf = Bad
      BY <3>1
    <3> QED
      BY <3>2, <3>3, <3>4, <3>5, <3>6, <3>7 DEF MessageOK, ConfMessageOK
  <2> QED
    BY <2>5, <2>6
<1> QED
  BY <1>1, <1>2, <1>3

LEMMA HubConfMessages ==
  ASSUME Types, ConfStored, ConfMessages, Grows, Hub
  PROVE  ConfMessages'
<1>1. CASE HubReceive
  <2> DEFINE r == Head(requests)
  <2>1. hub.pc = "idle" /\ mgr' = mgr /\ (HubRefuses(r) \/ HubTakes(r) \/ HubReloads(r) \/ HubSets(r))
    BY <1>1, HubReceiveEffect
  <2> HIDE DEF r
  <2>2. CASE HubRefuses(r) \/ HubTakes(r)
    <3>1. UNCHANGED <<inbox, redis>>
      BY <2>2 DEF HubRefuses, HubTakes
    <3> QED
      BY <2>1, <3>1, PendingKept, ConfMessagesKept
  <2>3. CASE HubReloads(r) \/ HubSets(r)
    <3> DEFINE m == [action |-> "reload"]
    <3>1. Broadcast(m) /\ m.action = "reload"
      BY <2>3 DEF HubReloads, HubSets
    <3> HIDE DEF m
    <3> SUFFICES ASSUME mgr["ds"].alive, NEW i \in DOMAIN inbox'["ds"], NEW d \in Devices PROVE MessageOK("ds", i, d, "conf")'
      BY <2>1 DEF ConfMessages, ConfMessageOK
    <3> DEFINE n == Len(inbox["ds"])
    <3>2. n \in Nat /\ DOMAIN inbox'["ds"] = 1..(n + 1) /\ inbox'["ds"][n + 1] = m /\ n + 1 \in DOMAIN inbox'["ds"]
      BY <3>1, BroadcastEffect DEF Services
    <3> HIDE DEF n
    <3>3. CASE i = n + 1
      BY <3>1, <3>2, <3>3 DEF MessageOK, Mentions
    <3>4. CASE i # n + 1
      <4>1. n + 1 > i
        BY <3>2, <3>4
      <4> QED
        BY <3>1, <3>2, <4>1 DEF MessageOK, Superseded
    <3> QED
      BY <3>3, <3>4
  <2> QED
    BY <2>1, <2>2, <2>3
<1>2. CASE HubDevice
  <2>1. hub.pc = "next" /\ UNCHANGED <<inbox, mgr, redis>> /\ (HubStarts(Head(hub.left)) \/ HubMisses)
    BY <1>2, HubDeviceEffect
  <2>2. CASE HubStarts(Head(hub.left))
    <3>1. hub'.pc = "ask" /\ hub'.req = hub.req /\ hub'.stored = hub.stored
      BY <2>2 DEF HubStarts
    <3> QED
      BY <2>1, <3>1, PendingKept, ConfMessagesKept
  <2>3. CASE HubMisses
    BY <2>1, <2>3, ConfPendingTorn, ConfMessagesKept DEF HubMisses
  <2> QED
    BY <2>1, <2>2, <2>3
<1>3. CASE HubAsk \/ HubGetsAnswer
  <2>1. UNCHANGED <<inbox, redis>> /\ RequestKept /\ hub'.pc # "idle" /\ hub'.stored = hub.stored
    BY <1>3, HubAskEffect, HubGetsAnswerEffect
  <2>2. \E e: EntryBecomes(e)
    BY <1>3, HubAskEffect, HubGetsAnswerEffect
  <2>3. mgr'["ds"] = mgr["ds"]
    BY <2>2 DEF EntryBecomes, Services
  <2> QED
    BY <2>1, <2>3, PendingKept, ConfMessagesKept DEF RequestKept
<1>4. CASE HubTimesOut
  BY <1>4, HubTimesOutEffect, ConfPendingTorn, ConfMessagesKept
<1>5. CASE HubStore
  <2> DEFINE e == Apply(Entry, hub.u)
  <2>1. hub.pc = "ask" /\ inbox' = inbox /\ (HubSkips \/ (EntryBecomes(e) /\ (HubFails \/ HubWrites(e))))
    BY <1>5, HubStoreEffect DEF HubSkips, HubFails, HubWrites
  <2> HIDE DEF e
  <2>2. mgr'["ds"] = mgr["ds"]
    BY <2>1 DEF EntryBecomes, HubSkips, Services
  <2>3. CASE HubSkips
    <3>1. redis' = redis /\ hub'.pc = "next" /\ hub'.req = hub.req /\ hub'.stored = hub.stored
      BY <2>3 DEF HubSkips, RequestKept
    <3> QED
      BY <2>1, <2>2, <3>1, PendingKept, ConfMessagesKept
  <2>4. CASE HubFails
    <3>1. redis' = redis /\ hub.stored \subseteq log'.torn
      BY <2>4 DEF HubFails
    <3> QED
      BY <2>1, <2>2, <3>1, ConfPendingTorn, ConfMessagesKept
  <2>5. CASE HubWrites(e)
    <3>1. hub'.pc = "next" /\ hub'.req = hub.req /\ hub'.stored = hub.stored \cup {hub.dev}
      BY <2>5 DEF HubWrites, RequestKept
    <3>2. \A d, k: Pending(d, k) => Pending(d, k)'
      BY <3>1, PendingKept
    <3>3. \A d \in Devices \ ConfUnsure':
             \/ Pending(d, "conf")'
             \/ d \in DOMAIN redis.config => d \in DOMAIN redis'.config /\ redis'.config[d].conf = redis.config[d].conf
      BY <1>5, <2>5, HubWritesConf
    <3> QED
      BY <2>1, <2>2, <3>2, <3>3, ConfMessagesKept
  <2> QED
    BY <2>1, <2>3, <2>4, <2>5
<1> QED
  BY <1>1, <1>2, <1>3, <1>4, <1>5, HubDoneConfMessages DEF Hub

\* Objects: once the device server has handled the deviceConfig that a request has for a device
\* (Ahead), its object has the requested one; otherwise it has the one of the last message about it
\* in the inbox, or of its device manager's entry when there is none, unless that is bad.
Passed(d) == d \notin ToSet(hub.left) /\ (AtDevice /\ d = hub.dev => ConfDone)
Ahead(d) == hub.pc # "idle" /\ d \in DOMAIN hub.req.us /\ Confs(d) /\ Passed(d) /\ ~Requests(d, Bad)
Fits(d, v) == v = obj[d].conf \/ v = Bad
LastOf(i, d) ==
  Mentions(inbox["ds"][i], d, "conf") /\ \A j \in DOMAIN inbox["ds"]: j > i => ~Mentions(inbox["ds"][j], d, "conf")
Reported(d) ==
  /\ \A i \in DOMAIN inbox["ds"]: LastOf(i, d) => Fits(d, inbox["ds"][i].us[d].conf)
  /\ Mentioned("ds", d, "conf") \/ Fits(d, Devs("ds")[d].conf)
ObjectOK(d) == IF Ahead(d) THEN Requests(d, obj[d].conf) ELSE Reported(d)
Objects == mgr["ds"].alive /\ ~Reloads("ds") => \A d \in DOMAIN Devs("ds") \ ConfUnsure: ObjectOK(d)

LEMMA ReportedSame ==
  ASSUME NEW d, Reported(d), inbox'["ds"] = inbox["ds"], obj'[d].conf = obj[d].conf,
         mgr'["ds"].devs[d].conf = mgr["ds"].devs[d].conf
  PROVE  Reported(d)'
  BY DEF Reported, LastOf, Fits, Mentioned, Mentions, Devs, Keys

LEMMA ObjectSame ==
  ASSUME NEW d, ObjectOK(d), inbox'["ds"] = inbox["ds"], obj'[d].conf = obj[d].conf,
         mgr'["ds"].devs[d].conf = mgr["ds"].devs[d].conf,
         Ahead(d)' <=> Ahead(d), Ahead(d) => hub'.req = hub.req
  PROVE  ObjectOK(d)'
<1>1. CASE Ahead(d)
  BY <1>1 DEF ObjectOK, Requests
<1>2. CASE ~Ahead(d)
  BY <1>2, ReportedSame DEF ObjectOK
<1> QED
  BY <1>1, <1>2

LEMMA ObjectsHub ==
  ASSUME Objects, Grows, obj' = obj, inbox'["ds"] = inbox["ds"], mgr'["ds"] = mgr["ds"],
         \A d \in DOMAIN mgr["ds"].devs \ ConfUnsure': (Ahead(d)' <=> Ahead(d)) /\ (Ahead(d) => hub'.req = hub.req)
  PROVE  Objects'
<1> SUFFICES ASSUME mgr["ds"].alive, ~Reloads("ds"), NEW d \in DOMAIN mgr["ds"].devs \ ConfUnsure' PROVE ObjectOK(d)'
  BY DEF Objects, Reloads, Devs
<1>1. ObjectOK(d)
  BY ConfUnsureGrows DEF Objects, Devs
<1>2. (Ahead(d)' <=> Ahead(d)) /\ (Ahead(d) => hub'.req = hub.req)
  OBVIOUS
<1> QED
  BY <1>1, <1>2, ObjectSame

\* A request that ends without a message has changed no object that it has not marked.
LEMMA HubEndsObjects ==
  ASSUME ConfStored, Grows, hub' = Idle, hub.stored \subseteq log'.torn,
         AtDevice => hub.dev \in ConfUnsure'
  PROVE  \A d: ~Ahead(d)' /\ (Ahead(d) => d \in ConfUnsure')
<1>1. hub'.pc = "idle"
  BY DEF Idle
<1>2. ASSUME NEW d, Ahead(d) PROVE d \in ConfUnsure'
  <2>1. d \in hub.stored \/ d \in ConfUnsure \/ (AtDevice /\ d = hub.dev)
    BY <1>2 DEF Ahead, Passed, ConfStored
  <2>2. log'.torn \subseteq ConfUnsure'
    BY DEF ConfUnsure
  <2> QED
    BY <2>1, <2>2, ConfUnsureGrows
<1> QED
  BY <1>1, <1>2 DEF Ahead

LEMMA HubReceiveObjects ==
  ASSUME Types, Objects, Grows, HubReceive
  PROVE  Objects'
<1> DEFINE r == Head(requests)
<1>1. hub.pc = "idle" /\ UNCHANGED <<mgr, obj>> /\ (HubRefuses(r) \/ HubTakes(r) \/ HubReloads(r) \/ HubSets(r))
  BY HubReceiveEffect
<1> HIDE DEF r
<1>2. CASE HubReloads(r) \/ HubSets(r)
  <2>1. mgr'["ds"].alive => Reloads("ds")'
    BY <1>1, <1>2, MessagesReload DEF HubReloads, HubSets, Services
  <2> QED
    BY <2>1 DEF Objects
<1>3. CASE HubRefuses(r)
  <2>1. hub' = Idle /\ inbox' = inbox
    BY <1>3 DEF HubRefuses
  <2>2. hub'.pc = "idle"
    BY <2>1 DEF Idle
  <2>3. \A d: ~Ahead(d)' /\ ~Ahead(d)
    BY <1>1, <2>2 DEF Ahead
  <2> QED
    BY <1>1, <2>1, <2>3, ObjectsHub
<1>4. CASE HubTakes(r)
  <2>1. hub'.left = SetToSeq(DOMAIN hub'.req.us) /\ inbox' = inbox /\ hub'.pc = "next"
    BY <1>4 DEF HubTakes
  <2>2. DOMAIN hub'.req.us \subseteq Devices
    BY <2>1, HubReceiveTypes DEF Types, HubOK, IsUpdates
  <2>3. ToSet(hub'.left) = DOMAIN hub'.req.us
    BY <2>1, <2>2, SetToSeqFacts
  <2>4. \A d: ~Ahead(d)' /\ ~Ahead(d)
    BY <1>1, <2>3 DEF Ahead, Passed
  <2> QED
    BY <1>1, <2>1, <2>4, ObjectsHub
<1> QED
  BY <1>1, <1>2, <1>3, <1>4

LEMMA HubDeviceObjects ==
  ASSUME Types, ConfStored, Objects, Grows, HubDevice
  PROVE  Objects'
<1>1. /\ hub.pc = "next" /\ hub.left # <<>> /\ UNCHANGED <<obj, inbox, mgr>> /\ (HubStarts(Head(hub.left)) \/ HubMisses)
  BY HubDeviceEffect
<1>2. CASE HubMisses
  <2>1. hub' = Idle /\ hub.stored \subseteq log'.torn /\ ~AtDevice
    BY <1>1, <1>2 DEF HubMisses, AtDevice
  <2> QED
    BY <1>1, <2>1, HubEndsObjects, ObjectsHub
<1>3. CASE HubStarts(Head(hub.left))
  <2>1. /\ hub'.pc = "ask" /\ hub'.req = hub.req /\ hub'.left = Tail(hub.left) /\ hub'.dev = Head(hub.left)
        /\ hub'.u = hub.req.us[Head(hub.left)]
    BY <1>3 DEF HubStarts
  <2>2. ToSet(Tail(hub.left)) = ToSet(hub.left) \ {Head(hub.left)} /\ Head(hub.left) \in ToSet(hub.left)
    BY <1>1, HubBusy, TailOfLeft DEF Types
  <2>3. ASSUME NEW d PROVE Ahead(d)' <=> Ahead(d)
    <3>1. CASE d = Head(hub.left)
      <4>1. ~Ahead(d)
        BY <2>2, <3>1 DEF Ahead, Passed
      <4>2. Confs(d)' => ~ConfDone'
        BY <2>1, <3>1 DEF Confs, ConfDone, Keys
      <4>3. ~Ahead(d)'
        BY <2>1, <3>1, <4>2 DEF Ahead, Passed, AtDevice
      <4> QED
        BY <4>1, <4>3
    <3>2. CASE d # Head(hub.left)
      <4>1. Passed(d)' <=> Passed(d)
        BY <1>1, <2>1, <2>2, <3>2 DEF Passed, AtDevice
      <4> QED
        BY <1>1, <2>1, <4>1 DEF Ahead, Confs, Requests, Keys
    <3> QED
      BY <3>1, <3>2
  <2> QED
    BY <1>1, <2>1, <2>3, ObjectsHub
<1> QED
  BY <1>1, <1>2, <1>3

LEMMA HubAtDeviceObjects ==
  ASSUME Types, ConfRequest, Kept, Objects, Grows, HubAsk \/ HubGetsAnswer
  PROVE  Objects'
<1>1. /\ hub.pc \in {"ask", "wait"} /\ hub'.pc \in {"ask", "wait"} /\ RequestKept /\ UNCHANGED <<inbox, obj>>
      /\ \E e: EntryBecomes(e)
  BY HubAskEffect, HubGetsAnswerEffect
<1>2. mgr'["ds"] = mgr["ds"]
  BY <1>1 DEF EntryBecomes, Services
<1>3. ConfDone' <=> ConfDone
  BY HubAskConf, HubGetsAnswerConf
<1>4. hub'.req = hub.req /\ hub'.left = hub.left /\ hub'.dev = hub.dev
  BY <1>1 DEF RequestKept
<1>5. \A d: Ahead(d)' <=> Ahead(d)
  BY <1>1, <1>3, <1>4 DEF Ahead, Passed, AtDevice, Confs, Requests, Keys
<1> QED
  BY <1>1, <1>2, <1>4, <1>5, ObjectsHub

LEMMA HubStoreObjects ==
  ASSUME Types, ConfStored, Objects, Grows, HubStore
  PROVE  Objects'
<1> DEFINE e == Apply(Entry, hub.u)
<1>1. hub.pc = "ask" /\ Wanted /\ obj' = obj /\ (HubSkips \/ (EntryBecomes(e) /\ (HubFails \/ HubWrites(e))))
  BY HubStoreEffect
<1> HIDE DEF e
<1>2. mgr'["ds"] = mgr["ds"] /\ inbox' = inbox
  BY <1>1 DEF EntryBecomes, HubSkips, Services, HubFails, HubWrites
<1>3. CASE HubFails
  <2>1. hub' = Idle /\ hub.stored \subseteq log'.torn /\ hub.dev \in ConfUnsure'
    BY <1>3 DEF HubFails, ConfUnsure
  <2> QED
    BY <1>1, <1>2, <2>1, HubEndsObjects, ObjectsHub
<1>4. CASE HubSkips \/ HubWrites(e)
  <2>1. hub'.pc = "next" /\ hub'.req = hub.req /\ hub'.left = hub.left
    BY <1>4 DEF HubSkips, HubWrites, RequestKept
  <2>2. ConfDone /\ ~AtDevice'
    BY <1>1, <2>1 DEF Wanted, ConfDone, AtDevice
  <2>3. \A d: Ahead(d)' <=> Ahead(d)
    BY <1>1, <2>1, <2>2 DEF Ahead, Passed, Confs, Requests, Keys
  <2> QED
    BY <1>1, <1>2, <2>1, <2>3, ObjectsHub
<1> QED
  BY <1>1, <1>3, <1>4

LEMMA HubTimesOutObjects ==
  ASSUME Types, ConfStored, Objects, Grows, HubTimesOut
  PROVE  Objects'
<1>1. hub' = Idle /\ UNCHANGED <<inbox, mgr, obj>> /\ hub.stored \subseteq log'.torn /\ hub.dev \in ConfUnsure'
  BY HubTimesOutEffect DEF ConfUnsure
<1> QED
  BY <1>1, HubEndsObjects, ObjectsHub

\* The broadcast of a request reports what its devices were given.
LEMMA HubDoneObjects ==
  ASSUME Types, ConfStored, Objects, Grows, HubDone
  PROVE  Objects'
<1>1. /\ hub.pc = "next" /\ hub.left = <<>> /\ hub' = Idle /\ UNCHANGED <<mgr, obj>> /\ (HubTells \/ HubIsSilent)
  BY HubDoneEffect
<1>2. hub'.pc = "idle" /\ ToSet(hub.left) = {} /\ ~AtDevice
  BY <1>1, EmptySequence DEF Idle, AtDevice
<1>3. CASE HubIsSilent
  <2>1. inbox' = inbox /\ hub.stored \subseteq log'.torn
    BY <1>3 DEF HubIsSilent
  <2> QED
    BY <1>1, <1>2, <2>1, HubEndsObjects, ObjectsHub
<1>4. CASE HubTells
  <2> DEFINE m == [action |-> "update", us |-> hub.req.us]
  <2>1. Broadcast(m) /\ m.action = "update" /\ m.us = hub.req.us
    BY <1>4 DEF HubTells
  <2> HIDE DEF m
  <2> SUFFICES ASSUME mgr["ds"].alive, ~Reloads("ds")', NEW d \in DOMAIN mgr["ds"].devs \ ConfUnsure' PROVE ObjectOK(d)'
    BY <1>1 DEF Objects, Devs
  <2> DEFINE n == Len(inbox["ds"])
  <2>2. /\ n \in Nat /\ DOMAIN inbox["ds"] = 1..n /\ DOMAIN inbox'["ds"] = 1..(n + 1) /\ inbox'["ds"][n + 1] = m
        /\ n + 1 \in DOMAIN inbox'["ds"]
        /\ \A j \in DOMAIN inbox["ds"]: j \in DOMAIN inbox'["ds"] /\ inbox'["ds"][j] = inbox["ds"][j] /\ n + 1 > j
    BY <2>1, BroadcastEffect DEF Services
  <2> HIDE DEF n
  <2>3. ~Reloads("ds")
    BY <2>2 DEF Reloads
  <2>4. ObjectOK(d)
    BY <2>3, ConfUnsureGrows DEF Objects, Devs
  <2>5. ~Ahead(d)'
    BY <1>2 DEF Ahead
  <2>6. Mentions(m, d, "conf") <=> d \in DOMAIN hub.req.us /\ Confs(d)
    BY <2>1 DEF Mentions, Confs
  <2>7. CASE d \in DOMAIN hub.req.us /\ Confs(d)
    <3>1. Fits(d, hub.req.us[d].conf)
      <4>1. CASE Requests(d, Bad)
        BY <4>1 DEF Requests, Fits
      <4>2. CASE ~Requests(d, Bad)
        <5>1. Ahead(d)
          BY <1>1, <1>2, <2>7, <4>2 DEF Ahead, Passed
        <5> QED
          BY <2>4, <5>1 DEF ObjectOK, Requests, Fits
      <4> QED
        BY <4>1, <4>2
    <3>2. Mentioned("ds", d, "conf")'
      BY <2>2, <2>6, <2>7 DEF Mentioned, Mentions, Keys
    <3>3. ASSUME NEW i \in DOMAIN inbox'["ds"], LastOf(i, d)' PROVE i = n + 1
      <4>1. ~(n + 1 > i)
        BY <2>2, <2>6, <2>7, <3>3 DEF LastOf, Mentions, Keys
      <4> QED
        BY <2>2, <4>1
    <3>4. ASSUME NEW i \in DOMAIN inbox'["ds"], LastOf(i, d)' PROVE Fits(d, inbox["ds"][i].us[d].conf)'
      <4>1. inbox'["ds"][i].us[d].conf = hub.req.us[d].conf
        BY <2>1, <2>2, <3>3, <3>4
      <4> QED
        BY <1>1, <3>1, <4>1 DEF Fits
    <3> QED
      BY <2>5, <3>2, <3>4 DEF ObjectOK, Reported
  <2>8. CASE ~(d \in DOMAIN hub.req.us /\ Confs(d))
    <3>1. Reported(d)
      BY <2>4, <2>8 DEF ObjectOK, Ahead
    <3>2. \A i \in DOMAIN inbox["ds"]: Mentions(inbox["ds"][i], d, "conf") => Mentions(inbox["ds"][i], d, "conf")'
      BY <2>2 DEF Mentions, Keys
    <3>3. Mentioned("ds", d, "conf") => Mentioned("ds", d, "conf")'
      BY <2>2, <3>2 DEF Mentioned
    <3>4. ASSUME NEW i \in DOMAIN inbox'["ds"], LastOf(i, d)' PROVE Fits(d, inbox["ds"][i].us[d].conf)'
      <4>1. i # n + 1
        BY <2>2, <2>6, <2>8, <3>4 DEF LastOf, Mentions, Keys
      <4>2. i \in DOMAIN inbox["ds"] /\ inbox'["ds"][i] = inbox["ds"][i]
        BY <2>2, <4>1
      <4>3. LastOf(i, d)
        BY <2>2, <3>2, <3>4, <4>2 DEF LastOf, Mentions, Keys
      <4>4. Fits(d, inbox["ds"][i].us[d].conf)
        BY <3>1, <4>2, <4>3 DEF Reported
      <4> QED
        BY <1>1, <4>2, <4>4 DEF Fits
    <3>5. Mentioned("ds", d, "conf")' \/ Fits(d, mgr["ds"].devs[d].conf)'
      BY <1>1, <3>1, <3>3 DEF Reported, Fits, Devs
    <3> QED
      BY <1>1, <2>5, <3>4, <3>5 DEF ObjectOK, Reported, Devs
  <2> QED
    BY <2>7, <2>8
<1> QED
  BY <1>1, <1>3, <1>4

LEMMA HubObjects ==
  ASSUME Types, ConfRequest, Kept, ConfStored, Objects, Grows, Hub
  PROVE  Objects'
  BY HubReceiveObjects, HubDeviceObjects, HubAtDeviceObjects, HubStoreObjects, HubTimesOutObjects, HubDoneObjects DEF Hub

\* The device manager of the device server takes what an update reports over.
LEMMA ParseUpdateObjects ==
  ASSUME Types, Objects, Grows, ParseUpdate("ds"), \A d: Ahead(d)' <=> Ahead(d)
  PROVE  Objects'
<1>0. "ds" \in Services
  BY DEF Services
<1>1. /\ Handles("ds") /\ Head(inbox["ds"]).action = "update" /\ UNCHANGED <<hub, obj>>
      /\ mgr'["ds"].alive =>
           mgr'["ds"].devs = ApplyTo(mgr["ds"].devs, Head(inbox["ds"]).us) /\ DOMAIN Head(inbox["ds"]).us \subseteq DOMAIN Devs("ds")
  BY <1>0, ParseUpdateEffect
<1>2. /\ 1 \in DOMAIN inbox["ds"] /\ Head(inbox["ds"]) = inbox["ds"][1]
      /\ \A i \in DOMAIN inbox'["ds"]: i + 1 \in DOMAIN inbox["ds"] /\ inbox'["ds"][i] = inbox["ds"][i + 1]
      /\ \A i \in DOMAIN inbox["ds"]: i # 1 => i - 1 \in DOMAIN inbox'["ds"] /\ inbox'["ds"][i - 1] = inbox["ds"][i]
      /\ Reloads("ds")' <=> Reloads("ds")
  BY <1>0, <1>1, HandledFirst
<1>3. DOMAIN inbox["ds"] \subseteq Nat \ {0} /\ DOMAIN inbox'["ds"] \subseteq Nat \ {0}
  <2>1. IsSeq(inbox["ds"]) /\ IsSeq(inbox'["ds"])
    BY <1>0, <1>1, InboxTail DEF Types, InboxOK
  <2> QED
    BY <2>1 DEF IsSeq
<1> DEFINE us == Head(inbox["ds"]).us
<1>4. IsUpdates(us) /\ IsConfig(mgr["ds"].devs)
  BY <1>0, <1>1, InboxTail, ManagerIs DEF Types, IsMessage
<1> HIDE DEF us
<1> SUFFICES ASSUME mgr'["ds"].alive, ~Reloads("ds"), NEW d \in DOMAIN mgr'["ds"].devs \ ConfUnsure' PROVE ObjectOK(d)'
  BY <1>2 DEF Objects, Devs
<1>5. mgr["ds"].alive
  BY <1>1 DEF Handles
<1>6. /\ d \in DOMAIN mgr["ds"].devs
      /\ mgr'["ds"].devs[d] = IF d \in DOMAIN us THEN Apply(mgr["ds"].devs[d], us[d]) ELSE mgr["ds"].devs[d]
  BY <1>1, <1>4, ApplyToConfig DEF us
<1>7. ObjectOK(d)
  BY <1>5, <1>6, ConfUnsureGrows DEF Objects, Devs
<1>8. CASE Ahead(d)
  BY <1>1, <1>7, <1>8 DEF ObjectOK, Requests
<1>9. CASE ~Ahead(d)
  <2>1. Reported(d)
    BY <1>7, <1>9 DEF ObjectOK
  <2>2. \A i \in DOMAIN inbox'["ds"]: Mentions(inbox["ds"][i], d, "conf")' <=> Mentions(inbox["ds"][i + 1], d, "conf")
    BY <1>2 DEF Mentions, Keys
  <2>3. ASSUME NEW i \in DOMAIN inbox'["ds"], LastOf(i, d)' PROVE Fits(d, inbox["ds"][i].us[d].conf)'
    <3>1. Mentions(inbox["ds"][i + 1], d, "conf") /\ i + 1 \in DOMAIN inbox["ds"] /\ i \in Nat
      BY <1>2, <1>3, <2>2, <2>3 DEF LastOf
    <3>2. ASSUME NEW j \in DOMAIN inbox["ds"], j > i + 1 PROVE ~Mentions(inbox["ds"][j], d, "conf")
      <4>1. j # 1 /\ j - 1 > i /\ (j - 1) + 1 = j
        BY <1>3, <3>1, <3>2
      <4>2. j - 1 \in DOMAIN inbox'["ds"]
        BY <1>2, <4>1
      <4>3. ~Mentions(inbox["ds"][j - 1], d, "conf")'
        BY <2>3, <4>1, <4>2 DEF LastOf
      <4> QED
        BY <2>2, <4>1, <4>2, <4>3
    <3>3. LastOf(i + 1, d)
      BY <3>1, <3>2 DEF LastOf
    <3>4. Fits(d, inbox["ds"][i + 1].us[d].conf)
      BY <2>1, <3>1, <3>3 DEF Reported
    <3> QED
      BY <1>1, <1>2, <3>4 DEF Fits
  <2>4. Mentioned("ds", d, "conf")' \/ Fits(d, mgr["ds"].devs[d].conf)'
    <3>1. SUFFICES ASSUME ~Mentioned("ds", d, "conf")' PROVE Fits(d, mgr'["ds"].devs[d].conf)
      BY <1>1 DEF Fits
    <3>2. ASSUME NEW j \in DOMAIN inbox["ds"], j # 1 PROVE ~Mentions(inbox["ds"][j], d, "conf")
      <4>1. (j - 1) + 1 = j /\ j - 1 \in DOMAIN inbox'["ds"]
        BY <1>2, <1>3, <3>2
      <4> QED
        BY <2>2, <3>1, <4>1 DEF Mentioned
    <3>3. CASE Mentions(inbox["ds"][1], d, "conf")
      <4>1. LastOf(1, d)
        BY <1>3, <3>2, <3>3 DEF LastOf
      <4>2. Fits(d, us[d].conf) /\ d \in DOMAIN us /\ "conf" \in Keys(us[d])
        BY <1>2, <2>1, <3>3, <4>1 DEF Reported, us, Mentions
      <4>3. IsEntry(mgr["ds"].devs[d]) /\ IsUpdate(us[d])
        BY <1>4, <1>6, <4>2 DEF IsUpdates, IsConfig
      <4>4. mgr'["ds"].devs[d].conf = us[d].conf
        BY <1>6, <4>2, <4>3, ApplyEntry DEF Fields
      <4> QED
        BY <4>2, <4>4
    <3>4. CASE ~Mentions(inbox["ds"][1], d, "conf")
      <4>1. ~Mentioned("ds", d, "conf")
        BY <3>2, <3>4 DEF Mentioned
      <4>2. Fits(d, mgr["ds"].devs[d].conf)
        BY <2>1, <4>1 DEF Reported, Devs
      <4>3. d \in DOMAIN us => "conf" \notin Keys(us[d])
        BY <1>1, <1>2, <3>4 DEF us, Mentions
      <4>4. mgr'["ds"].devs[d].conf = mgr["ds"].devs[d].conf
        <5>1. IsEntry(mgr["ds"].devs[d])
          BY <1>4, <1>6 DEF IsConfig
        <5>2. d \in DOMAIN us => IsUpdate(us[d])
          BY <1>4 DEF IsUpdates
        <5> QED
          BY <1>6, <4>3, <5>1, <5>2, ApplyEntry DEF Fields
      <4> QED
        BY <4>2, <4>4
    <3> QED
      BY <3>3, <3>4
  <2> QED
    BY <1>9, <2>3, <2>4 DEF ObjectOK, Reported, Devs
<1> QED
  BY <1>8, <1>9

\* The object of a device that is loaded is that of the stored configuration, as the
\* messages are that are still to come.
LEMMA LoadObjects ==
  ASSUME Types, ConfMessages, Objects, Grows, UNCHANGED <<hub>>, \A x: Ahead(x)' <=> Ahead(x),
         NEW d \in Devices, NEW e, LoadMakes(d, e)
  PROVE  Objects'
<1>1. /\ DOMAIN mgr'["ds"].devs = DOMAIN mgr["ds"].devs \cup {d} /\ mgr'["ds"].devs[d].conf = e.conf
      /\ \A x \in DOMAIN mgr["ds"].devs: x # d => mgr'["ds"].devs[x] = mgr["ds"].devs[x]
      /\ ObjBut(d) /\ obj'[d].conf = e.conf /\ (d \notin log'.remade => ~Overtaken(d, e))
      /\ mgr["ds"].alive /\ inbox'["ds"] = inbox["ds"]
  BY DEF LoadMakes, Creates
<1> SUFFICES ASSUME ~Reloads("ds"), NEW x \in DOMAIN mgr'["ds"].devs, x \notin ConfUnsure' PROVE ObjectOK(x)'
  BY <1>1 DEF Objects, Reloads, Devs
<1>2. CASE x # d
  <2>1. ObjectOK(x) /\ x \in Devices
    BY <1>1, <1>2, ConfUnsureGrows DEF Objects, Devs, Types, ManagersOK, IsManager, IsConfig, Services
  <2>2. obj'[x].conf = obj[x].conf /\ mgr'["ds"].devs[x].conf = mgr["ds"].devs[x].conf
    BY <1>1, <1>2, <2>1 DEF ObjBut
  <2> QED
    BY <1>1, <2>1, <2>2, ObjectSame
<1>3. CASE x = d
  <2>1. ~Overtaken(d, e) /\ d \notin ConfUnsure
    BY <1>1, <1>3, ConfUnsureGrows DEF ConfUnsure
  <2>2. ~Ahead(d)
    BY <2>1 DEF Overtaken, Ahead
  <2>3. ~Pending(d, "conf")
    BY <2>1, HubBusy DEF Overtaken, Pending, Types
  <2>4. ASSUME NEW i \in DOMAIN inbox["ds"], LastOf(i, d) PROVE inbox["ds"][i].us[d].conf \in {e.conf, Bad}
    <3>1. ConfMessageOK(i, d)
      BY <1>1, <2>1 DEF ConfMessages
    <3>2. ~Superseded("ds", i, d, "conf") /\ Mentions(inbox["ds"][i], d, "conf")
      BY <2>4 DEF LastOf, Superseded, Reloads
    <3>3. Matches("ds", i, d, "conf") => inbox["ds"][i].us[d].conf = e.conf
      BY <2>1 DEF Matches, Overtaken
    <3> QED
      BY <2>3, <3>1, <3>2, <3>3 DEF ConfMessageOK, MessageOK
  <2>5. ASSUME NEW i \in DOMAIN inbox["ds"], LastOf(i, d)' PROVE Fits(d, inbox["ds"][i].us[d].conf)'
    <3>1. LastOf(i, d)
      BY <1>1, <2>5 DEF LastOf, Mentions, Keys
    <3> QED
      BY <1>1, <2>4, <3>1 DEF Fits
  <2>6. Reported(d)'
    BY <1>1, <2>5 DEF Reported, Fits, Devs
  <2> QED
    BY <1>3, <2>2, <2>6 DEF ObjectOK
<1> QED
  BY <1>2, <1>3

LEMMA AheadSame ==
  ASSUME HubThere, ConfDone' <=> ConfDone
  PROVE  \A d: Ahead(d)' <=> Ahead(d)
  BY DEF HubThere, Ahead, Passed, AtDevice, Confs, Requests, Keys

LEMMA ElsewhereConfMessages ==
  ASSUME Types, ConfMessages, Grows, Elsewhere
  PROVE  ConfMessages'
<1>1. HubThere /\ redis'.config = redis.config /\ "ds" \in Services
  BY ElsewhereEffect DEF Services
<1>2. \A d: Pending(d, "conf") => Pending(d, "conf")'
  BY <1>1 DEF HubThere, Pending, Keys
<1>3. CASE inbox'["ds"] = inbox["ds"] /\ (mgr'["ds"].alive => mgr["ds"].alive)
  BY <1>1, <1>2, <1>3, ConfMessagesKept
<1>4. CASE ParseUpdate("ds") \/ ParseReload("ds")
  <2>1. Handles("ds") /\ redis' = redis
    BY <1>1, <1>4, ParseUpdateEffect, ParseReloadEffect
  <2> QED
    BY <1>2, <2>1, ConfMessagesHandled
<1> QED
  BY <1>3, <1>4, ElsewhereObjects DEF Unaffected, LoadMakes

LEMMA ElsewhereObjectsKept ==
  ASSUME Types, ConfRequest, Kept, ConfStored, ConfMessages, Objects, Grows, Elsewhere
  PROVE  Objects'
<1>1. HubThere /\ (ConfDone' <=> ConfDone) /\ "ds" \in Services
  BY ElsewhereEffect, ElsewhereConf DEF Services
<1>2. \A d: Ahead(d)' <=> Ahead(d)
  BY <1>1, AheadSame
<1>3. CASE Unaffected
  <2> SUFFICES ASSUME mgr["ds"].alive, ~Reloads("ds"), NEW d \in DOMAIN mgr["ds"].devs \ ConfUnsure' PROVE ObjectOK(d)'
    BY <1>3 DEF Objects, Reloads, Devs, Unaffected
  <2>1. ObjectOK(d)
    BY ConfUnsureGrows DEF Objects, Devs
  <2> QED
    BY <1>1, <1>2, <1>3, <2>1, ObjectSame DEF Unaffected, HubThere
<1>4. CASE ParseUpdate("ds")
  BY <1>2, <1>4, ParseUpdateObjects
<1>5. CASE ParseReload("ds")
  <2>1. mgr'["ds"].devs = <<>>
    BY <1>1, <1>5, ParseReloadEffect
  <2>2. DOMAIN mgr'["ds"].devs = {}
    BY <2>1, EmptySequence
  <2> QED
    BY <2>2 DEF Objects, Devs
<1>6. CASE DsLoad /\ \E d \in Devices: LoadMakes(d, mgr["ds"].session[d])
  <2>1. hub' = hub
    BY <1>6, DsLoadEffect
  <2> QED
    BY <1>2, <1>6, <2>1, LoadObjects
<1> QED
  BY <1>3, <1>4, <1>5, <1>6, ElsewhereObjects

LEMMA DsReceiveObjects ==
  ASSUME Types, AskedFor, ConfRequest, Kept, Objects, Grows, DsReceive \/ DsGivesUp
  PROVE  Objects'
<1>1. UNCHANGED <<hub, inbox, mgr, obj>>
  BY DsReceiveEffect, DsGivesUpEffect
<1>2. AtDevice /\ hub.dev \notin ConfUnsure' => (ConfDone' <=> ConfDone)
  BY DsReceiveConf, DsGivesUpConf
<1>3. \A d: d \notin ConfUnsure' => (Ahead(d)' <=> Ahead(d))
  BY <1>1, <1>2 DEF Ahead, Passed, AtDevice, Confs, Requests, Keys
<1> QED
  BY <1>1, <1>3, ObjectsHub

LEMMA DsUpdateObjects ==
  ASSUME Types, AskedFor, Objects, Grows, DsUpdate
  PROVE  Objects'
<1> DEFINE d == dsh.ask.dev
           u == dsh.ask.u
<1>1. /\ dsh.pc = "update" /\ UNCHANGED <<hub, inbox, redis>> /\ mgr["ds"].alive
      /\ NoneThere(d) \/ ConfRefused(d, u) \/ ConfSet(d, u) \/ Disabled(d, u) \/ Enabled(d, u)
           \/ NotConnected(d, u) \/ CannotReconnect(d, u)
  BY DsUpdateEffect DEF DsHub
<1>2. /\ IsAsked(dsh.ask) => hub.dev = d /\ hub.u = u
      /\ ~IsAsked(dsh.ask) => d \in log.late
  BY <1>1, DshFor
<1>3. /\ (\A r \in replies: r \in replies') /\ \A r \in replies': r \in replies \/ r.id = dsh.ask.id
      /\ dsh'.pc # "idle" => dsh'.ask = dsh.ask /\ dsh'.pc = "disabling"
      /\ mgr'["ds"].alive => ObjBut(d)
      /\ DOMAIN mgr'["ds"].devs = DOMAIN mgr["ds"].devs
  BY DsUpdateShape
<1>4. dsh'.pc = "disabling" \/ HasReply' \/ dsh.ask.id # hub.ask
  <2>1. CASE NotConnected(d, u)
    BY <2>1 DEF NotConnected
  <2>2. CASE ~NotConnected(d, u)
    <3>1. PICK accepted: DsFinishes(accepted)
      BY <1>1, <2>2 DEF NoneThere, ConfRefused, ConfSet, Disabled, Enabled, CannotReconnect
    <3> DEFINE r == [id |-> dsh.ask.id, accepted |-> accepted]
    <3>2. r \in replies' /\ r.id = dsh.ask.id
      BY <3>1 DEF DsFinishes, Reply
    <3> HIDE DEF r
    <3> QED
      BY <1>1, <3>2 DEF HasReply
  <2> QED
    BY <2>1, <2>2
<1>5. d \in Devices /\ IsConfig(mgr["ds"].devs)
  BY <1>1, ManagerIs DEF Types, DshOK, IsAsk, Services
<1> HIDE DEF d, u
<1> SUFFICES ASSUME mgr'["ds"].alive, ~Reloads("ds"), NEW x \in DOMAIN mgr["ds"].devs \ ConfUnsure' PROVE ObjectOK(x)'
  BY <1>1, <1>3 DEF Objects, Reloads, Devs
<1>6. ObjectOK(x) /\ x \in Devices /\ x \notin ConfUnsure
  BY <1>1, <1>5, ConfUnsureGrows DEF Objects, Devs, IsConfig
<1>7. /\ ~NoneThere(d) /\ ~CannotReconnect(d, u)
  BY <1>6 DEF NoneThere, CannotReconnect, DsDies
<1>8. CASE x # d
  <2>1. AtDevice /\ x = hub.dev => (ConfDone' <=> ConfDone)
    <3>1. x = hub.dev /\ hub.pc = "wait" => hub.ask # dsh.ask.id
      BY <1>2, <1>8 DEF IsAsked
    <3>2. x = hub.dev /\ hub.pc = "wait" => (HasReply' <=> HasReply)
      BY <1>1, <1>3, <3>1 DEF HasReply
    <3>3. x = hub.dev /\ hub.pc = "wait" => ~Disabling /\ ~Disabling'
      BY <1>1, <1>3, <3>1 DEF Disabling
    <3> QED
      BY <1>1, <3>2, <3>3 DEF ConfDone, Keys
  <2>2. Ahead(x)' <=> Ahead(x)
    BY <1>1, <2>1 DEF Ahead, Passed, AtDevice, Confs, Requests, Keys
  <2>3. obj'[x].conf = obj[x].conf
    BY <1>3, <1>6, <1>8 DEF ObjBut
  <2>4. mgr'["ds"].devs[x].conf = mgr["ds"].devs[x].conf
    BY <1>1, <1>7, <1>8 DEF ConfRefused, ConfSet, Disabled, Enabled, NotConnected, DsEntry
  <2> QED
    BY <1>1, <1>6, <2>2, <2>3, <2>4, ObjectSame
<1>9. CASE x = d
  <2>0. ConfRefused(x, u) \/ ConfSet(x, u) \/ Disabled(x, u) \/ Enabled(x, u) \/ NotConnected(x, u)
    BY <1>1, <1>7, <1>9
  <2>1. hub.pc = "wait" /\ hub.ask = dsh.ask.id /\ hub.dev = x /\ hub.u = u
    BY <1>2, <1>6, <1>9 DEF IsAsked, ConfUnsure
  <2>2. /\ x \in DOMAIN hub.req.us /\ x \notin ToSet(hub.left)
        /\ \A k \in Keys(u): k \in Keys(hub.req.us[x]) /\ u[k] = hub.req.us[x][k]
    BY <2>1, HubAtDevice
  <2>3. ConfDone'
    BY <1>1, <1>3, <1>4, <2>1 DEF ConfDone, Disabling, Keys
  <2>4. Ahead(x)' <=> Confs(x) /\ ~Requests(x, Bad)
    BY <1>1, <2>1, <2>2, <2>3 DEF Ahead, Passed, AtDevice, Confs, Requests, Keys
  <2>5. log'.remade \subseteq ConfUnsure' /\ log'.late \subseteq ConfUnsure'
    BY DEF ConfUnsure
  <2>6. mgr'["ds"].devs[x].conf = mgr["ds"].devs[x].conf
    BY <1>1, <2>0 DEF ConfRefused, ConfSet, Disabled, Enabled, NotConnected, DsEntry
  <2>7. CASE ConfRefused(x, u)
    <3>1. Requests(x, Bad)
      BY <2>2, <2>7 DEF ConfRefused, Requests
    <3>2. obj'[x].conf = obj[x].conf
      BY <2>5, <2>7 DEF ConfRefused
    <3>3. ~Ahead(x)' /\ ~Ahead(x)
      BY <2>4, <3>1 DEF Ahead
    <3> QED
      BY <1>1, <1>6, <2>6, <3>2, <3>3, ObjectSame
  <2>8. CASE ~ConfRefused(x, u)
    <3>1. obj'[x].conf = NewConf(x, u) /\ ("conf" \in Keys(u) => u.conf # Bad)
      <4>1. CASE ConfSet(x, u)
        BY <4>1 DEF ConfSet, NewConf
      <4>2. CASE Disabled(x, u)
        BY <4>2 DEF Disabled, Asked
      <4>3. CASE Enabled(x, u)
        BY <2>5, <4>3 DEF Enabled, Asked
      <4>4. CASE NotConnected(x, u)
        BY <2>5, <4>4 DEF NotConnected, Asked
      <4> QED
        BY <2>0, <2>8, <4>1, <4>2, <4>3, <4>4
    <3>2. CASE "conf" \in Keys(u)
      <4>1. Confs(x) /\ ~Requests(x, Bad) /\ Requests(x, obj'[x].conf)
        BY <2>2, <3>1, <3>2 DEF Confs, Requests, NewConf
      <4>2. Requests(x, obj[x].conf)'
        BY <1>1, <4>1 DEF Requests
      <4> QED
        BY <2>4, <4>1, <4>2 DEF ObjectOK
    <3>3. CASE "conf" \notin Keys(u)
      <4>1. ConfDone
        BY <2>1, <3>3 DEF ConfDone
      <4>2. Ahead(x) <=> Confs(x) /\ ~Requests(x, Bad)
        BY <2>1, <2>2, <4>1 DEF Ahead, Passed
      <4>3. obj'[x].conf = obj[x].conf
        BY <3>1, <3>3 DEF NewConf
      <4> QED
        BY <1>1, <1>6, <2>4, <2>6, <4>2, <4>3, ObjectSame
    <3> QED
      BY <3>2, <3>3
  <2> QED
    BY <2>7, <2>8
<1> QED
  BY <1>8, <1>9

\* The handler of the device server answers; SciHub's handler and the queues do not move.
LEMMA DsHandlerConfs ==
  ASSUME Types, AskedFor, ConfRequest, Kept, ConfStored, ConfMessages, Objects, Grows, DsHandler
  PROVE  ConfRequest' /\ Kept' /\ ConfStored' /\ ConfMessages' /\ Objects'
<1>1. ConfRequest' /\ Kept' /\ Objects'
  <2>1. CASE DsReceive
    BY <2>1, DsReceiveConf, DsReceiveObjects
  <2>2. CASE DsUpdate
    BY <2>2, DsUpdateConf, DsUpdateObjects
  <2>3. CASE DsGivesUp
    BY <2>3, DsGivesUpConf, DsReceiveObjects
  <2> QED
    BY <2>1, <2>2, <2>3 DEF DsHandler
<1>2. mgr["ds"].alive /\ UNCHANGED <<hub, inbox, redis>>
  BY DsReceiveEffect, DsUpdateEffect, DsGivesUpEffect DEF DsHandler, DsHub
<1>3. ConfStored'
  BY <1>2, ConfStoredKept DEF AtDevice
<1>4. \A d: Pending(d, "conf") => Pending(d, "conf")'
  BY <1>2 DEF Pending
<1>5. ConfMessages'
  BY <1>2, <1>4, ConfMessagesKept
<1> QED
  BY <1>1, <1>3, <1>5

Confed == ConfRequest /\ Kept /\ ConfStored /\ ConfMessages /\ Objects

LEMMA ConfedStep ==
  ASSUME Types, AskedFor, Confed, [Next]_vars
  PROVE  Confed'
<1>1. Grows /\ ConfRequest /\ Kept /\ ConfStored /\ ConfMessages /\ Objects
  BY LogGrows DEF Confed
<1>2. CASE Hub
  BY <1>1, <1>2, HubConfRequest, HubConfStored, HubConfMessages, HubObjects DEF Confed
<1>3. CASE DsHandler
  BY <1>1, <1>3, DsHandlerConfs DEF Confed
<1>4. CASE Elsewhere
  BY <1>1, <1>4, ElsewhereConf, ElsewhereConfMessages, ElsewhereObjectsKept DEF Confed
<1>5. Hub \/ DsHandler \/ Elsewhere
  BY DEF Next, Done, Elsewhere
<1> QED
  BY <1>2, <1>3, <1>4, <1>5

LEMMA ConfedInit == Init => Confed
<1> SUFFICES ASSUME Init PROVE Confed
  OBVIOUS
<1>1. PICK p \in DOMAIN Programs: InitiallyWith(Programs[p].config)
  BY DEF Init
<1> DEFINE c == Programs[p].config
<1>2. /\ mgr["ds"] = [alive |-> TRUE, gen |-> 1, devs |-> c, load |-> "idle", session |-> <<>>, ask |-> 0]
      /\ \A d \in Devices: d \in DOMAIN c => obj[d].conf = c[d].conf
      /\ DOMAIN c \subseteq Devices
  BY <1>1, ProgramsAssumption DEF InitiallyWith, Services, IsConfig
<1> HIDE DEF c
<1>3. hub.pc = "idle"
  BY DEF Init, Idle
<1>4. inbox["ds"] = <<>>
  BY DEF Init, Services
<1>5. DOMAIN inbox["ds"] = {}
  BY <1>4, EmptySequence
<1>6. ConfRequest /\ Kept /\ ConfStored /\ ConfMessages
  BY <1>3, <1>5 DEF ConfRequest, Kept, ConfStored, ConfMessages, AtDevice
<1>7. \A d \in DOMAIN mgr["ds"].devs: mgr["ds"].devs[d].conf = obj[d].conf
  BY <1>2
<1>8. Objects
  BY <1>3, <1>5, <1>7 DEF Objects, ObjectOK, Ahead, Reported, Fits, Devs
<1> QED
  BY <1>6, <1>8 DEF Confed

LEMMA ObjectsAreRight == Types /\ Objects => HasConfig
<1> SUFFICES ASSUME Types, Objects, Quiet, mgr["ds"].alive, NEW d \in DOMAIN Devs("ds") \ ConfUnsure
             PROVE  obj[d].conf = Devs("ds")[d].conf \/ Devs("ds")[d].conf = Bad
  BY DEF HasConfig, ConfUnsure
<1>1. inbox["ds"] = <<>> /\ hub.pc = "idle"
  BY DEF Quiet, Services
<1>2. DOMAIN inbox["ds"] = {}
  BY <1>1, EmptySequence
<1>3. ObjectOK(d) /\ ~Ahead(d) /\ ~Mentioned("ds", d, "conf")
  BY <1>1, <1>2 DEF Objects, Reloads, Ahead, Mentioned
<1> QED
  BY <1>3 DEF ObjectOK, Reported, Fits

\* When nothing is on its way, a device object of the device server has the deviceConfig that
\* its device manager reports and is connected if and only if the stored configuration enables
\* the device, but for the devices that the log names: HasConfig from the objects' invariant,
\* EnabledIsConnected from that of their connections.
THEOREM DevicesFollow == Spec => []DeviceFollows
<1>1. Requested /\ Power /\ Confed => DeviceFollows
  BY PowerConnects, ObjectsAreRight DEF Requested, Accounts, Confed, DeviceFollows
<1>2. Requested /\ Power /\ [Next]_vars => Power'
  BY PowerStep DEF Requested, Accounts
<1>3. Requested /\ Confed /\ [Next]_vars => Confed'
  BY ConfedStep DEF Requested, Accounts
<1> QED
  BY <1>1, <1>2, <1>3, PowerInit, ConfedInit, RequestedHolds, PTL DEF Spec
=============================================================================
