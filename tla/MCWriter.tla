------------------------------ MODULE MCWriter ------------------------------
(* A small instance of Writer: two events of one transaction and one of a  *)
(* later slot; one of the events comes with and without its trade.         *)
EXTENDS Writer, TLC

CONSTANTS e1, e2, e3, s1, s2

MCIds == {e1, e2, e3}
MCSlotOf == (e1 :> 1) @@ (e2 :> 1) @@ (e3 :> 2)
MCSigOf == (e1 :> s1) @@ (e2 :> s1) @@ (e3 :> s2)
MCRows ==
    {[id |-> e1, trade |-> TRUE], [id |-> e2, trade |-> FALSE],
     [id |-> e2, trade |-> TRUE], [id |-> e3, trade |-> FALSE]}
=============================================================================
