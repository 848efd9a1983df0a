-------------------------------- MODULE Registry --------------------------------
(***************************************************************************)
(* Models, their images and the containers started from them: the requests *)
(* of ModelService and the starts of ContainerStart over one docker daemon.*)
(***************************************************************************)
EXTENDS ContainerStart, FiniteSets

vars == <<modelVars, startVars>>

RegistryTypeOK == ModelTypeOK /\ StartTypeOK

Init == ModelInit /\ StartInit

Next ==
  \/ ModelNext /\ UNCHANGED startVars
  \/ StartNext /\ UNCHANGED <<models, removing, req, restarts, strained>>

Spec == Init /\ [][Next]_vars

-----------------------------------------------------------------------------
(* Properties *)

Quiet(m) == ~Busy(m) /\ m \notin strained

\* A model whose image the service built has that image, if its client waited
\* for every answer, for the background removal too, and no call failed -- over
\* rebuilds, updates and deletions of this and, concurrently, of other models.
BuiltModelHasImage ==
  \A m \in Models : Quiet(m) /\ models[m] = m => m \in images

\* Under the same conditions no image outlives its model: every way a row stops
\* naming the image (delete, update to another image) removes it.
NoImageLeftOver ==
  \A m \in Models : Quiet(m) /\ m \in images => models[m] = m

Count(s, state) == Cardinality({k \in 1 .. 2 : box[s][k] = state})

Outcome == INSTANCE StartOutcome WITH
  outcome <- [s \in Starts |-> IF start[s].pc \in {"started", "failed"}
                               THEN start[s].pc ELSE "pending"],
  left <- [s \in Starts |->
             IF start[s].pc \in {"started", "failed"}
             THEN [created |-> Count(s, "created"), running |-> Count(s, "running")]
             ELSE [created |-> 0, running |-> 0]]

\* StartContainer is one step to its caller, with the outcomes TaskWorker gives
\* it: images that vanish, a context that ends, a GPU that is refused and calls
\* that fail between its calls leave no container unless something disturbed it.
StartIsOneStep == Outcome!OutcomeSpec

==============================================================================
