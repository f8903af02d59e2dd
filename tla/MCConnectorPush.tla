-------------------------- MODULE MCConnectorPush --------------------------
(* Instances of ConnectorPush for TLC: a film, three episodes of one show, *)
(* an episode of a show that no service finds and whose TMDB number is the *)
(* film's, an item without TMDB number, and one with a Simkl id alone.     *)
EXTENDS ConnectorPush

CONSTANTS film, e1, e2, e3, lost, bare, nameless

ItemsOf == {film, e1, e2, e3, lost, bare, nameless}

All == {"ryot", "yamtrack", "trakt", "simkl"}

(* Ryot and Yamtrack go by the TMDB number alone. *)
PayloadOf ==
    [c \in All |-> IF c \in {"ryot", "yamtrack"} THEN ItemsOf \ {bare, nameless}
                   ELSE ItemsOf]

CategoryOf == [i \in ItemsOf |-> IF i \in {film, bare, nameless} THEN "movies" ELSE "episodes"]

BucketOf ==
    [i \in ItemsOf |->
        CASE i \in {e1, e2, e3} -> "show" [] i = lost -> "unknown" [] OTHER -> "movie"]

(* Episodes carry the TMDB number of their show; a Trakt payload has no    *)
(* place for Simkl's id.                                                   *)
TMDB(i) == IF i \in {e1, e2, e3} THEN "tmdb 2" ELSE "tmdb 1"

IdsOf ==
    [c \in All |-> [i \in ItemsOf |->
        CASE i = bare -> {"imdb"}
          [] i = nameless -> IF c = "trakt" THEN {} ELSE {"simkl"}
          [] OTHER -> {TMDB(i)}]]

(* Simkl knows the show but not its second episode; Trakt cannot know an   *)
(* item without identifiers.                                               *)
UnknownOf ==
    [c \in All |-> {lost} \cup CASE c = "simkl" -> {e2}
                                 [] c = "trakt" -> {nameless}
                                 [] OTHER -> {}]

(* Windows shorter than, equal to and longer than a chunk, some with an    *)
(* item twice, some with what a service does not know among them.          *)
WindowsOf ==
    {<<>>, <<bare>>, <<lost>>, <<film, film>>, <<film, bare, e1, e1>>,
     <<film, e1, e2, e3>>, <<e1, lost, e2, bare, film>>, <<lost, e1, film, e2, e3>>,
     <<e1, e2, e1>>, <<film, nameless, lost>>}

Siblings == {<<e1, e2, e3>>}
=============================================================================
