-------------------------------- MODULE Requests --------------------------------
(***************************************************************************)
(* The requests whose difficulty is in their data: TaskForm and TaskList.  *)
(* They share no state, so a behaviour is about one of them.               *)
(***************************************************************************)
EXTENDS TaskForm, TaskList

VARIABLE route   \* "form" or "list"

vars == <<formVars, listVars, route>>

Init == FormInit /\ ListInit /\ route \in {"form", "list"}

Next ==
  /\ UNCHANGED route
  /\ \/ route = "form" /\ FormNext /\ UNCHANGED listVars
     \/ route = "list" /\ ListNext /\ UNCHANGED formVars

Spec == Init /\ [][Next]_vars

==============================================================================
