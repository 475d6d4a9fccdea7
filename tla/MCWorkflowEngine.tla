-------------------------- MODULE MCWorkflowEngine --------------------------
(***************************************************************************)
(* WorkflowEngine on three nodes with many graphs and one loop, where the  *)
(* order of the nodes matters, and on two nodes with two or three loops,   *)
(* where the interference of clients and loops does.                       *)
(***************************************************************************)
EXTENDS WorkflowEngine

Three == {"a", "b", "c"}
ThreeAndOne == Three \union {"x"}
Anywhere == ThreeAndOne \union {None}
Two == {"a", "b"}
FromTheStart == {None}
Gate == {"b"}

Chain == {<<"a", "b">>, <<"b", "c">>}
Fork == {<<"a", "b">>, <<"a", "c">>}
Join == {<<"a", "c">>, <<"b", "c">>}
Shortcut == Chain \union {<<"a", "c">>}
Cycle == Chain \union {<<"c", "b">>}
Dangling == {<<"a", "x">>, <<"b", "c">>}
Stray == Chain \union {<<"x", "x">>}
ThreeGraphs == {Chain, Fork, Join, Shortcut, Cycle, Dangling, Stray}
TwoGraphs == {{<<"a", "b">>}, {}}
OneGraph == {{<<"a", "b">>}}
=============================================================================
