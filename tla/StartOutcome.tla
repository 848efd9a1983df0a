------------------------------ MODULE StartOutcome ------------------------------
(***************************************************************************)
(* What a caller of Manager.StartContainer may rely on, as one step: it    *)
(* gets a running container, or an error and no container; only if a call  *)
(* failed or the context ended on the way may a container be left behind.  *)
(* TaskWorker takes its actions Start, StartFails and StartCutShort from   *)
(* this; ContainerStart implements it.                                     *)
(***************************************************************************)
EXTENDS Naturals

CONSTANTS
  Starts,      \* calls of StartContainer
  GpuStarts    \* those that ask for a GPU

VARIABLES
  outcome,     \* outcome[s]: pending, started or failed
  left,        \* left[s]: containers the call made and left, by state
  disturbed    \* disturbed[s]: a call failed, or the context ended

outcomeVars == <<outcome, left, disturbed>>

Nothing == [created |-> 0, running |-> 0]

OutcomeInit ==
  /\ outcome = [s \in Starts |-> "pending"]
  /\ left = [s \in Starts |-> Nothing]
  /\ disturbed = [s \in Starts |-> FALSE]

Returns(s, how, boxes) ==
  /\ outcome[s] = "pending"
  /\ outcome' = [outcome EXCEPT ![s] = how]
  /\ left' = [left EXCEPT ![s] = boxes]

Disturb(s) ==
  /\ outcome[s] = "pending"
  /\ disturbed' = [disturbed EXCEPT ![s] = TRUE]
  /\ UNCHANGED <<outcome, left>>

Start(s) ==
  /\ Returns(s, "started", [Nothing EXCEPT !.running = 1])
  /\ UNCHANGED disturbed

\* The first container of a GPU start that fell back may not have gone.
StartTwice(s) ==
  /\ s \in GpuStarts /\ disturbed[s]
  /\ Returns(s, "started", [created |-> 1, running |-> 1])
  /\ UNCHANGED disturbed

StartFails(s) ==
  /\ Returns(s, "failed", Nothing)
  /\ disturbed' \in {disturbed, [disturbed EXCEPT ![s] = TRUE]}

\* One container stays behind, two at most when a GPU start fell back.
StartCutShort(s) ==
  /\ \E c \in 0 .. 2, r \in 0 .. 1 :
       /\ c + r \in 1 .. (IF s \in GpuStarts THEN 2 ELSE 1)
       /\ Returns(s, "failed", [created |-> c, running |-> r])
  /\ disturbed' = [disturbed EXCEPT ![s] = TRUE]

OutcomeNext ==
  \E s \in Starts : \/ Disturb(s) \/ Start(s) \/ StartTwice(s)
                    \/ StartFails(s) \/ StartCutShort(s)

OutcomeSpec == OutcomeInit /\ [][OutcomeNext]_outcomeVars

==============================================================================
