--------------------------- MODULE MCDeviceConfig ---------------------------
EXTENDS DeviceConfig

On == [enabled |-> TRUE, conf |-> 0, param |-> 0]
Update(us) == [action |-> "update", us |-> us, locally |-> FALSE]
Locally(r) == [r EXCEPT !.locally = TRUE]
SetTo(us) == [action |-> "set", us |-> us, locally |-> FALSE]
ReloadAll == [action |-> "reload", us |-> <<>>, locally |-> FALSE]
X(u) == [d \in {"samx"} |-> u]
Y(u) == [d \in {"samy"} |-> u]
XY(u, v) == [d \in {"samx", "samy"} |-> IF d = "samx" THEN u ELSE v]
Param == [param |-> 1]
Conf == [conf |-> 1]
BadConf == [conf |-> 9]
Unknown == [unknown |-> 1]
Disable == [enabled |-> FALSE]
EnableIt == [enabled |-> TRUE]

Of(d, u) == [x \in {d} |-> u]
WithNew(d, e) == [x \in {"samx", d} |-> IF x = d THEN e ELSE On]

From(devices, programs) ==
  [p \in DOMAIN programs |-> [config |-> [d \in devices |-> On], requests |-> programs[p]]]
ProgramsDef == From({"samx", "samy"}, <<
  <<Update(X(Conf)), ReloadAll>>, <<ReloadAll, Update(X(Param))>>, <<Update(XY(Param, BadConf)), Update(X(Disable))>>,
  <<Update(XY(BadConf, Param)), Update(Of("samy", Unknown))>>,
  <<Update(X(BadConf)), Update(X(Param))>>, <<Locally(Update(X(BadConf))), Locally(Update(X(Param)))>>,
  <<Update(X(Disable)), Update(X(EnableIt @@ Conf))>>, <<Update(Of("samy", Disable)), Update(Of("samy", EnableIt))>>,
  <<SetTo(WithNew("new", On)), Update(Of("new", Param))>>, <<SetTo(WithNew("far", On)), Update(Of("far", EnableIt))>>,
  <<SetTo(WithNew("new", On)), Update(Of("samy", Conf))>>,
  <<SetTo(WithNew("new", BadConf @@ On)), Update(Of("new", Param))>>,
  <<Update(XY(Param, Conf)), Update(XY(Conf, Param))>>,
  <<SetTo(WithNew("samx", [On EXCEPT !.param = 2])), Update(X(Conf))>>, <<ReloadAll, Update(X(Conf))>>,
  <<Update(Of("samy", EnableIt)), Update(Of("samy", Disable))>>,
  <<Update(X(Conf)), Update(X(BadConf))>>, <<Update(X(Conf)), Update(X(EnableIt @@ [conf |-> 2]))>>,
  <<Update(X(Disable @@ Conf)), Update(X(EnableIt))>>, <<ReloadAll, Locally(Update(X(Conf)))>>, <<ReloadAll, Update(X(Disable))>>,
  <<SetTo(Of("samy", On)), Update(XY(Conf, Param))>>, <<SetTo(Of("samx", On)), Update(XY(Param, Conf))>> >>) \o From({"far"}, <<
  <<Update(Of("far", Disable)), Update(Of("far", EnableIt))>>, <<Update(Of("far", Disable)), Update(Of("far", EnableIt @@ Conf))>> >>)
  \o From({"samx"}, << <<ReloadAll, Update(X(Conf)), Update(X(Param))>> >>)
  \o << [config |-> X([On EXCEPT !.enabled = FALSE]), requests |-> <<Update(X(EnableIt)), Update(X(Conf))>>] >>
=============================================================================
