---------------------------- MODULE MCLiveClient ----------------------------
EXTENDS LiveClient

R(kind, n, fate) == [kind |-> kind, n |-> n, fate |-> fate, wait |-> FALSE]
Waiting(req) == [req EXCEPT !.wait = TRUE]
Scan == R("scan", 2, "completes")
Short == R("scan", 1, "completes")
Umv == R("umv", 2, "completes")
P(own) == [req |-> own, own |-> [i \in 1..Len(own) |-> i], others |-> {}, queued |-> <<>>, acts |-> {},
           signals |-> 0, resumes |-> 0, reads |-> FALSE]
With(p, req) == [p EXCEPT !.req = Append(@, req), !.others = @ \cup {Len(p.req) + 1}]
Behind(p, req) == [p EXCEPT !.req = Append(@, req), !.queued = Append(@, Len(p.req) + 1)]

ProgramsDef == <<
  P(<<Short, Short>>), With(P(<<Short>>), Umv), Behind(P(<<Scan>>), Scan),
  [P(<<Scan>>) EXCEPT !.acts = {"abort"}], [P(<<Short>>) EXCEPT !.signals = 2, !.resumes = 1],
  [P(<<Scan>>) EXCEPT !.reads = TRUE], [P(<<Umv, Umv>>) EXCEPT !.signals = 1],
  P(<<R("scan", 1, "fails"), Short>>), P(<<Waiting(R("scan", 1, "fails")), Umv>>),
  With(P(<<Umv, Waiting(R("mv", 1, "completes"))>>), R("mv", 2, "completes")),
  With(P(<<R("fly", 2, "completes")>>), R("fly", 1, "completes")),
  [With(P(<<Waiting(Short)>>), Umv) EXCEPT !.acts = {"clear"}],
  P(<<R("scan", 1, "rejected"), R("umv", 2, "fails")>>), P(<<R("fly", 1, "fails"), Waiting(R("mv", 1, "fails"))>>),
  With(P(<<Short>>), R("mv", 1, "rejected")),
  [P(<<Umv>>) EXCEPT !.signals = 1, !.resumes = 1, !.acts = {"pause"}],
  [With(P(<<Umv>>), R("mv", 1, "completes")) EXCEPT !.acts = {"abort"}] >>
=============================================================================
