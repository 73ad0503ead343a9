---------------------------- MODULE PointStream ----------------------------
(***************************************************************************)
(* What the scan bundler and the scan server promise to everybody who      *)
(* reads scan states and scan segments: scans follow one another, and a    *)
(* point of a scan is emitted once, or in a fly scan once for each reading *)
(* of it. Nothing is promised about the order of states and segments.      *)
(***************************************************************************)
EXTENDS Naturals, Sequences

CONSTANTS
  Scans,        (* The scanIDs.                                            *)
  Fly,          (* Those with scan_type "fly"; the others are step scans.  *)
  Reports,      (* The states of a scan, apart from open, that occur.      *)
  Points,       (* The pointIDs of a scan.                                 *)
  Devices       (* The devices whose reading may complete a point.         *)

VARIABLES
  phase,        (* what the scan worker did with a scan                    *)
  scan_status,  (* the scan states published so far                        *)
  scan_segment  (* the points emitted so far                               *)

vars == <<phase, scan_status, scan_segment>>

Final == {"closed", "aborted", "halted"}
Among(seq, x) == \E k \in 1..Len(seq) : seq[k] = x
Announce(s, status) ==
  scan_status' = Append(scan_status, [scan |-> s, status |-> status])

\* One scan may be running when the readers start to listen.
Init == /\ \E started \in SUBSET Scans :
             /\ \A s, t \in started : s = t
             /\ phase = [s \in Scans |-> IF s \in started THEN "open" ELSE "new"]
        /\ scan_status = <<>>
        /\ scan_segment = <<>>

Open(s) == /\ phase[s] = "new"
           /\ \A t \in Scans : phase[t] \in Final \cup {"new"}
           /\ phase' = [phase EXCEPT ![s] = "open"]
           /\ Announce(s, "open")
           /\ UNCHANGED scan_segment

\* A scan goes on after a pause, but not after any other report.
Report(s, status) ==
  /\ phase[s] = "open" \/ (phase[s] = "paused" /\ status # "paused")
  /\ phase' = [phase EXCEPT ![s] = status]
  /\ Announce(s, status)
  /\ UNCHANGED scan_segment

Emitted(s, p) == \E d \in Devices : Among(scan_segment, [scan |-> s, point |-> p, by |-> d])

Emit(s, p, d) ==
  LET segment == [scan |-> s, point |-> p, by |-> d] IN
  /\ phase[s] # "new"
  /\ ~Among(scan_segment, segment)
  /\ s \notin Fly => ~Emitted(s, p)
  /\ scan_segment' = Append(scan_segment, segment)
  /\ UNCHANGED <<phase, scan_status>>

Next == \E s \in Scans : \/ Open(s)
                         \/ \E status \in Reports : Report(s, status)
                         \/ \E p \in Points, d \in Devices : Emit(s, p, d)

Spec == Init /\ [][Next]_vars
=============================================================================
