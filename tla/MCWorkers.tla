------------------------------ MODULE MCWorkers ------------------------------
EXTENDS Workers

Do(op, id, conf) == [op |-> op, id |-> id, conf |-> conf]
OpenIt == Do("open", "none", "none")
Drop(id) == Do("remove", id, "none")
P(scan, n) == [scan |-> scan, n |-> n, number |-> TRUE]
NaN(scan, n) == [P(scan, n) EXCEPT !.number = FALSE]
Scan(s, from, to) == [k \in 1..(to - from + 1) |-> P(s, from + k - 1)]
FitsDef(conf, scan) == conf # "second" \/ scan = "s2"

List(ids, confs) == <<[id \in ids |-> confs[id]]>>
One(conf) == <<[id \in {"w1"} |-> conf]>>
Program(a, b, list, bundles, twice) ==
  [ops |-> [m \in {"a", "b"} |-> IF m = "a" THEN a ELSE b], stored |-> list, stream |-> bundles, again |-> twice]
Long == <<Scan("s1", 1, 2), Scan("s1", 3, 3), <<P("s1", 4), NaN("s1", 5)>>, Scan("s2", 1, 4), Scan("s2", 5, 5)>>
Short == <<Scan("s1", 1, 3), Scan("s2", 1, 3), <<P("s2", 4)>>>>
Mixed == <<Scan("s1", 1, 1), Scan("s1", 2, 3), Scan("s1", 4, 4) \o Scan("s2", 1, 2), Scan("s2", 3, 4)>>
ProgramsDef == {
  Program(<<OpenIt, Do("add", "w1", "first"), Do("update", "w1", "other"), Drop("w1")>>, <<>>, <<>>, Short, TRUE),
  Program(<<OpenIt, Do("add", "w2", "first"), Do("update", "w1", "second")>>, <<>>, One("first"), Mixed, FALSE),
  Program(<<OpenIt, Do("update", "w1", "unknown"), Do("update", "w1", "broken")>>, <<>>, One("first"), Short, TRUE),
  Program(<<OpenIt, Do("add", "w1", "first"), Drop("w2")>>, <<OpenIt, Do("add", "w2", "other")>>, <<>>, <<>>, TRUE),
  Program(<<OpenIt, Do("update", "w1", "other")>>, <<>>, One("first"), Long, FALSE) }
=============================================================================
