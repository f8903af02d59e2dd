------------------------------ MODULE MCServe ------------------------------
(* Instances of Serve for TLC: an old release beside the current one. *)
EXTENDS Serve

CONSTANTS old, new

ReleaseOf == [p \in {old, new} |-> IF p = old THEN 1 ELSE 2]

TwoSyncs == <<"movies", "shows">>
=============================================================================
