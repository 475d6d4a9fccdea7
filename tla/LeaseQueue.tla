----------------------------- MODULE LeaseQueue -----------------------------
(***************************************************************************)
(* What a durable task queue promises: a task is handed to one worker at a *)
(* time, comes back when its lease is given up, and once completed or      *)
(* dead-lettered is never handed out again.  A task is never lost.         *)
(***************************************************************************)
CONSTANT Ids

VARIABLE place   \* place[id]: where the task is

Places == {"absent", "waiting", "leased", "done", "dead"}

Init == place = [id \in Ids |-> "absent"]

Move(id, from, to) == place[id] = from /\ place' = [place EXCEPT ![id] = to]

Enqueue(id)  == Move(id, "absent", "waiting")
Lease(id)    == Move(id, "waiting", "leased")
Complete(id) == Move(id, "leased", "done")
Release(id)  == Move(id, "leased", "waiting")
Bury(id)     == Move(id, "leased", "dead")

Next == \E id \in Ids :
  Enqueue(id) \/ Lease(id) \/ Complete(id) \/ Release(id) \/ Bury(id)

Spec == Init /\ [][Next]_place
=============================================================================
