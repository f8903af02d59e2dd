---------------------------- MODULE PushContract ----------------------------
(***************************************************************************)
(* What the engine relies on when it calls a connector's Push.  A call in  *)
(* good order brings the service all it takes, and reports it, but for     *)
(* what is confused with an item the service does not know; it also        *)
(* reports such items where it cannot name them.  A call that meets a      *)
(* failure brings the service some of it, and reports some of that.  The   *)
(* outcomes of Engine's one-step Push are those of this contract.          *)
(***************************************************************************)
CONSTANT Pending        \* no report yet

VARIABLES takes,        \* items of the call that the service takes
          withheld,     \* those of them that the report leaves out
          unnamed,      \* items it does not take, and the report holds
          failing,      \* something went wrong in this call
          received,     \* items that have reached the service
          report        \* Push's result, or Pending

vars == <<takes, withheld, unnamed, failing, received, report>>

Init == received = {} /\ report = Pending /\ ~failing

Next ==
    /\ report = Pending
    /\ received \subseteq received' /\ received' \subseteq takes
    /\ failing => failing'
    /\ UNCHANGED <<takes, withheld, unnamed>>
    /\ \/ report' = Pending
       \/ ~failing' /\ received' = takes /\ report' = (takes \ withheld) \cup unnamed
       \/ failing' /\ report' \subseteq received' \cup unnamed

Spec == Init /\ [][Next]_vars
=============================================================================
