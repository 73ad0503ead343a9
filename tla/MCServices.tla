----------------------------- MODULE MCServices -----------------------------
EXTENDS Services

ProcessesDef == {"d1", "d2", "s1", "s2", "c"}
NameOfDef == [i \in ProcessesDef |-> CASE i \in {"d1", "d2"} -> "DeviceServer"
                                      [] i \in {"s1", "s2"} -> "ScanServer"
                                      [] OTHER -> "Client"]
AwaitedDef == <<"ScanServer", "DeviceServer">>

With(up, events) == [running |-> up, may |-> events]
Starts(ps) == {<<"start", i>> : i \in ps}
ScenariosDef == {
  With({}, Starts({"d1", "d2"}) \cup {<<"kill", "d1">>}),
  With({"d1"}, Starts({"d2"}) \cup {<<"kill", "d1">>}),
  With({"d1"}, Starts({"d2"}) \cup {<<"shutdown", "d1">>, <<"abort", "d1">>}),
  With({"d1"}, Starts({"d2"}) \cup {<<"cut", "d1">>}),
  With({"d1"}, Starts({"d2"}) \cup {<<"cut", "d2">>}),
  With({"d1", "s1"}, Starts({"d2"}) \cup {<<"kill", "d1">>}),
  With({"d1", "s1"}, Starts({"d2", "s2"}) \cup {<<"kill", "session">>}),
  With({"s1"}, Starts({"d1", "c"})),
  With({"s1"}, Starts({"d1"}) \cup {<<"item", "s1">>, <<"abort", "d1">>}),
  With({"d1", "s1"}, {<<"item", "s1">>, <<"shutdown", "d1">>, <<"abort", "d1">>}),
  With({"d1", "s1", "c"}, {<<"item", "s1">>, <<"kill", "c">>, <<"abort", "d1">>}),
  With({"d1", "s1"}, {<<"item", "s1">>, <<"kill", "d1">>, <<"cut", "s1">>}),
  With({"d1", "s1"}, Starts({"c"}) \cup {<<"kill", "d1">>, <<"cut", "c">>}) }
=============================================================================
