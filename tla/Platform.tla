------------------------------- MODULE Platform -------------------------------
(***************************************************************************)
(* What the service works on and what outlives its process: the task table,*)
(* the docker daemon's containers, the workspace directories and the object*)
(* store.  Also the life of the process itself, as far as every component  *)
(* sees it: whether the context of main.run has been cancelled.            *)
(*                                                                         *)
(* The components call these through operators; one call is one step.  A   *)
(* call may fail at most MaxFaults times in a behaviour: a failed call had *)
(* no effect, or had its effect and lost the reply.                        *)
(***************************************************************************)
EXTENDS TaskStore, Sequences

CONSTANTS
  MaxFaults,    \* bound: calls that fail without a reason the model knows
  MaxClock      \* bound: last value of the clock

ASSUME PlatformAssumption == MaxFaults \in Nat /\ MaxClock \in Nat

VARIABLES
  rows,     \* the table
  inserts,  \* number of INSERTs so far: the source of created_at
  conts,    \* docker: the task label and the state of every container
  ws,       \* ws[t]: what the workspace directory of t holds; {} if there is none
  store,    \* store[t]: files under the prefix tasks/<t>/ of the bucket
  clock,    \* time, as coarse as ScheduledAt
  faults,   \* failed calls so far
  phase     \* the process, see Phases

platformVars == <<rows, inserts, conts, ws, store, clock, faults, phase>>

\* down: not running.  gc: inside gc.Cleanup.  serving: worker, scheduler and
\* HTTP server run.  closing: SIGTERM cancelled the context.  panicked: a
\* goroutine without recover panicked, the runtime is about to exit.
Phases == {"down", "gc", "serving", "closing", "panicked"}

ContStates == {"unused", "created", "running", "exited0", "failed", "removed"}

Unused == [task |-> NoTask, st |-> "unused"]

PlatformTypeOK ==
  /\ rows \in [Tasks -> Rows]
  /\ inserts \in Nat
  /\ conts \in [Conts -> [task : Tasks \cup {NoTask}, st : ContStates]]
  /\ ws \in [Tasks -> SUBSET (Files \cup {"input"})]
  /\ store \in [Tasks -> SUBSET Files]
  /\ clock \in Nat
  /\ faults \in 0 .. MaxFaults
  /\ phase \in Phases

PlatformInit ==
  /\ rows = [t \in Tasks |-> NoRow]
  /\ inserts = 0
  /\ conts = [c \in Conts |-> Unused]
  /\ ws = [t \in Tasks |-> {}]
  /\ store = [t \in Tasks |-> {}]
  /\ clock = 0
  /\ faults = 0
  /\ phase = "down"

-----------------------------------------------------------------------------
(* Calls *)

\* The call answers.
Answered == UNCHANGED faults

\* The call fails for a reason of its own: network, disk, daemon, database.
Fault == faults < MaxFaults /\ faults' = faults + 1

\* A call made with a context that may be done.
AnsweredIn(done) == ~done /\ Answered
FailsIn(done) == (done /\ UNCHANGED faults) \/ (~done /\ Fault)

Up == phase \in {"serving", "closing"}

-----------------------------------------------------------------------------
(* Workspace and object store *)

\* A program writes into the directory only while it exists.
Wrote(dir, files) == IF dir = {} THEN {} ELSE dir \cup files

\* workspace.Cleanup.  An error is logged, and the directory stays.
Cleaned(t) ==
  \/ Answered /\ ws' = [ws EXCEPT ![t] = {}]
  \/ Fault /\ UNCHANGED ws

\* UploadToStorage takes one file of the result directory.
Results(t) == ws[t] \cap Files

-----------------------------------------------------------------------------
(* Docker *)

SetState(c, st) == [conts EXCEPT ![c].st = st]

\* Containers "docker ps --all" lists.
Present(c) == conts[c].st \notin {"unused", "removed"}

\* ContainerStop: SIGTERM, then SIGKILL.  The program may catch SIGTERM and
\* exit with 0; it may leave an unfinished result.  No effect if not running.
Stopped(c) ==
  IF c \in Conts /\ conts[c].st = "running"
  THEN \E st \in {"exited0", "failed"}, files \in {{}, {"partial"}} :
         /\ conts' = SetState(c, st)
         /\ ws' = [ws EXCEPT ![conts[c].task] = Wrote(@, files)]
  ELSE UNCHANGED <<conts, ws>>

\* ContainerRemove without Force refuses a running container.
Removed(c) ==
  IF c \in Conts /\ conts[c].st \in {"created", "exited0", "failed"}
  THEN conts' = SetState(c, "removed")
  ELSE UNCHANGED conts

\* The program ends by itself: with its result, without one, or with an error
\* (a non-zero code or out of memory) after writing some of it.
ContainerExit(c) ==
  /\ conts[c].st = "running"
  /\ \E end \in {<<"exited0", {"full"}>>, <<"exited0", {}>>,
                 <<"failed", {}>>, <<"failed", {"partial"}>>} :
       /\ conts' = SetState(c, end[1])
       /\ ws' = [ws EXCEPT ![conts[c].task] = Wrote(@, end[2])]
  /\ UNCHANGED <<rows, inserts, store, clock, faults, phase>>

ClockTick ==
  /\ clock < MaxClock
  /\ clock' = clock + 1
  /\ UNCHANGED <<rows, inserts, conts, ws, store, faults, phase>>

==============================================================================
