--------------------------- MODULE MCSupervision ---------------------------
(***************************************************************************)
(* Instances of Supervision for TLC.                                       *)
(***************************************************************************)
EXTENDS Supervision, TLC

CONSTANTS t1, t2, t3, p1, p2, mock

\* Every installed provider's capabilities fit every role.
AllCapable == [t \in Tasks |-> Providers]

=============================================================================
