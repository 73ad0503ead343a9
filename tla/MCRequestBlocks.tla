--------------------------- MODULE MCRequestBlocks ---------------------------
(* Client programs for TLC: contexts, failing requests and two queues.     *)
EXTENDS RequestBlocks

Run(kind, q) == [do |-> "request", kind |-> kind, dev |-> "", queue |-> q, live |-> FALSE, foreign |-> FALSE]
Scan1 == Run("scan", "primary")
Foreign1 == [Scan1 EXCEPT !.foreign = TRUE]
Other == Run("scan", "second")
Context(what) == [do |-> what, live |-> FALSE]
InDef(program) == <<Context("enter scan_def")>> \o program \o <<Context("exit scan_def")>>
InGroup(program) == <<Context("enter scan_group")>> \o program \o <<Context("exit scan_group")>>
OnHold(program, live) ==
  <<Context("enter dataset_id_on_hold")>> \o program
    \o <<[do |-> "exit dataset_id_on_hold", live |-> live]>>

ClientsDef == <<
  <<Scan1, Scan1, Other>>, <<Scan1, Other, Scan1>>,
  InDef(<<Scan1, Run("mv", "primary"), Foreign1, Scan1>>),
  InDef(<<Run("failing scan", "primary"), Scan1>>) \o <<Scan1>>,
  InDef(<<Scan1, Run("bad scan", "primary")>>) \o <<Scan1>>,
  InDef(InDef(<<Scan1>>) \o <<Scan1>>), InGroup(<<Scan1, Foreign1, Scan1>>),
  <<Scan1>> \o InGroup(<<Scan1>>) \o <<Scan1>>, <<Other>> \o OnHold(<<Scan1, Scan1>>, FALSE),
  <<Scan1>> \o InGroup(InDef(<<Scan1>>) \o <<Scan1>>), InGroup(InDef(<<Scan1>> \o InDef(<<>>) \o <<Scan1>>)),
  InGroup(<<Scan1, Foreign1>> \o InDef(<<Scan1>>)), InDef(<<Scan1, Other>>), OnHold(<<Scan1, Foreign1, Scan1>>, FALSE),
  InGroup(<<Run("failing scan", "primary"), Scan1>>),
  InGroup(<<Scan1, Other>>) \o <<Scan1>>, InDef(InGroup(<<Run("failing scan", "primary"), Foreign1, Scan1>>)),
  <<Scan1>> \o OnHold(InGroup(<<Run("failing scan", "primary"), Scan1>>), TRUE),
  OnHold(<<Scan1, Scan1>>, FALSE) \o <<Scan1>>, OnHold(OnHold(<<Scan1>>, TRUE) \o <<Scan1>>, TRUE) \o <<Scan1>>,
  <<Run("wrong arguments", "primary"), Run("unknown", "primary"),
    [Run("device_rpc", "primary") EXCEPT !.dev = "off"], Run("device_rpc", "primary"),
    [Run("device_rpc", "primary") EXCEPT !.dev = "on"], Run("bad scan", "primary"), Scan1>> >>
KindsDef == {"scan", "bad scan", "failing scan", "wrong arguments", "mv", "device_rpc", "unknown"}
AvailableDef == {"scan", "bad scan", "failing scan", "wrong arguments", "mv", "device_rpc", "open_scan_def",
                 "close_scan_def", "close_scan_group"}
=============================================================================
