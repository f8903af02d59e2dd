------------------------------ MODULE MCSimkl ------------------------------
(* Instances of SimklHistory for TLC: one film, one episode, one anime. *)
EXTENDS SimklHistory

CONSTANTS film, show, anime

CategoryOf ==
    [i \in {film, show, anime} |->
        CASE i = film -> "movies" [] i = show -> "shows" [] i = anime -> "anime"]
=============================================================================
