------------------------------- MODULE MCRequests -------------------------------
(* Instances of Requests for TLC: words of the bytes a and b, a word with a  *)
(* comma, limits at and around their bounds.                                 *)
EXTENDS Requests

CONSTANTS n1, n2, c1, c2

Word == {<<97>>, <<98>>, <<97, 98>>}

Words == {<<>>} \cup {<<u>> : u \in Word} \cup {<<u, v>> : u, v \in Word}

WithComma == <<97, 44, 98>>

\* Either variables and command vary, or the limits.
MCForms ==
  {[model |-> m, envs |-> e, cmd |-> c, cpu |-> 0, timeout |-> 0] :
     m \in {<<97>>}, e \in Words \cup {<<WithComma>>}, c \in {w \in Words : Len(w) < 2}}
  \cup
  {[model |-> <<97, 97>>, envs |-> <<>>, cmd |-> <<>>, cpu |-> u, timeout |-> t] :
     u \in {-1, 1, 3, 4}, t \in {0}}
  \cup
  {[model |-> <<97, 97>>, envs |-> <<>>, cmd |-> <<>>, cpu |-> 0, timeout |-> t] :
     t \in {-1, 1, 3, 4, 12}}

MCFileParts == {[name |-> n1, content |-> c1], [name |-> n2, content |-> c2],
                [name |-> n1, content |-> c2]}

MCPageSizes == {-1, 1, 2, 3, 5, 9}

==============================================================================
