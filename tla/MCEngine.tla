------------------------------ MODULE MCEngine ------------------------------
(* Instances of Engine for TLC, with the definitions of its proofs. *)
EXTENDS EngineRefinement, EngineSerial, TLC

CONSTANTS p1, p2, i1, i2, i3, a, b, c, d

OnlyA == {<<a>>}
\* A target next to one that is down, and next to one that omits an item.
OneBadTarget == {<<a, b>>, <<a, c>>}
\* d fails to disown an item next to b, which is down; c omits one and mixes
\* another up with it; a is listed twice (config.Validate allows it).
ThreeLists == {<<d, b>>, <<a, c>>, <<a, a>>}

Nothing == {}
\* Neither c nor d knows i2.  c names it by an identifier that i1 has as well,
\* and d has none to name it by.
CAndDReject2 == {<<c, i2>>, <<d, i2>>}
CMixesUp1 == {<<c, i1, i2>>}
DDoesNotName2 == {<<d, i2>>}

\* A window lists an item once, or the first one twice.
Once == [i \in Items |-> 1]
FirstTwice == [i \in Items |-> IF i = i1 THEN 2 ELSE 1]

(* No action reads how often an item was sent, and the properties of the   *)
(* pair ask only whether it was: states that differ in the number alone    *)
(* are one state to them.                                                  *)
Reached ==
    <<clock, source, names, cursor, seen, {x \in DOMAIN sent : sent[x] > 0},
      unreported, faults, run>>

(* Processes are alike, and so are items when no target singles one out. *)
Alike == Permutations(Procs) \cup Permutations(Items)
=============================================================================
