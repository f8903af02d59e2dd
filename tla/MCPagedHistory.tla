---------------------------- MODULE MCPagedHistory ----------------------------
(* Instances of PagedHistory for TLC: two films and a show. *)
EXTENDS PagedHistory

CONSTANTS m1, m2, s1

KindOf == [t \in {m1, m2, s1} |-> IF t = s1 THEN 2 ELSE 1]

Shape(api, size, cap) == [name |-> api, size |-> size, cap |-> cap, chunk |-> 1]

(* Both films fit two pages exactly, or are one too many for a single page; *)
(* at Ryot also one page that takes two requests for details.              *)
Services ==
    {Shape("trakt", 1, 2), Shape("trakt", 1, 1),
     Shape("ryot", 1, 2), Shape("ryot", 1, 1), Shape("ryot", 2, 1)}
=============================================================================
