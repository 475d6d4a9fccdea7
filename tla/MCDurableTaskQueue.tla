------------------------ MODULE MCDurableTaskQueue ------------------------
(***************************************************************************)
(* Instances of DurableTaskQueue for TLC.                                  *)
(***************************************************************************)
EXTENDS DurableTaskQueue, TLC

CONSTANTS i1, i2, w1, w2

\* A task of the default priority and an urgent one.
SecondIsUrgent == [id \in Ids |-> IF id = i2 THEN 1 ELSE 5]

WorkerSymmetry == Permutations({w1, w2})
===========================================================================
