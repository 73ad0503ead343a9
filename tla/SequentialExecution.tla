------------------------ MODULE SequentialExecution ------------------------
(***************************************************************************)
(* What one queue of the scan server promises to its clients: "Each queue  *)
(* element can contain multiple scans and thus enforce the sequential      *)
(* execution of those scans" (docs/source/developer/glossary.md). Items    *)
(* are submitted at the tail, started from the head, one at a time and     *)
(* each at most once, and every started item ends with one record.         *)
(*                                                                         *)
(* The code may also drop the item at the head unseen; the promise is that *)
(* it never does so while another item is running.                         *)
(***************************************************************************)
EXTENDS Sequences, Naturals

CONSTANTS Items, NoItem

VARIABLES
  submitted,  (* items that were ever inserted                               *)
  waiting,    (* items in the order they will be started                     *)
  running,    (* the item that is being processed                            *)
  ended       (* ended items in the order of their records                   *)

vars == <<submitted, waiting, running, ended>>

Init == submitted = {} /\ waiting = <<>> /\ running = NoItem /\ ended = <<>>

Submit(i) == /\ i \notin submitted
             /\ submitted' = submitted \cup {i}
             /\ waiting' = Append(waiting, i)
             /\ UNCHANGED <<running, ended>>

Start == /\ running = NoItem /\ waiting # <<>>
         /\ running' = Head(waiting)
         /\ waiting' = Tail(waiting)
         /\ UNCHANGED <<submitted, ended>>

End == /\ running # NoItem
       /\ ended' = Append(ended, running)
       /\ running' = NoItem
       /\ UNCHANGED <<submitted, waiting>>

Drop == /\ running = NoItem /\ waiting # <<>>
        /\ waiting' = Tail(waiting)
        /\ UNCHANGED <<submitted, running, ended>>

Next == (\E i \in Items : Submit(i)) \/ Start \/ End \/ Drop

Spec == Init /\ [][Next]_vars
=============================================================================
