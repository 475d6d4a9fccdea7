---- MODULE MCOmniRoute ----
(* Two providers with one model each, routed to with every outcome reported. *)
EXTENDS OmniRoute

MCCandidates == <<"p1", "p2">>
====
