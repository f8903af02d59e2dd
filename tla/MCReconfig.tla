----------------------------- MODULE MCReconfig -----------------------------
(* An instance of Reconfig for TLC: connection a is renamed to b, or back. *)
EXTENDS Reconfig

CONSTANTS p1, i1, a, b

Renamed == {<<a>>, <<b>>}
Nothing == {}
Once == [i \in Items |-> 1]
=============================================================================
