----------------------------- MODULE MCLocalBus -----------------------------
(***************************************************************************)
(* LocalBus with a queue of two places, two workers, and two handlers one  *)
(* of which publishes.                                                     *)
(***************************************************************************)
EXTENDS LocalBus
=============================================================================
