------------------------------ MODULE PinnConnect ------------------------------
(***************************************************************************)
(* The service: worker, HTTP handlers, garbage collector and scheduler over*)
(* one platform, and the life of the process that runs them                *)
(* (cmd/server/main.go).  The process may be killed or told to shut down   *)
(* MaxKills times, and may panic; it is started again every time.          *)
(***************************************************************************)
EXTENDS GarbageCollector, TaskApi, Scheduler

CONSTANT MaxKills   \* bound: SIGKILLs and SIGTERMs

ASSUME KillAssumption == MaxKills \in Nat

VARIABLES
  kills,       \* signals so far
  deletions,   \* history: tasks a DeleteTask has begun to remove the traces of
  restarted    \* history: the process has ended at least once

histVars == <<deletions, restarted>>

vars == <<platformVars, workerVars, gcVars, apiVars, schedVars, kills, histVars>>

TypeOK ==
  /\ PlatformTypeOK /\ WorkerTypeOK /\ GcTypeOK /\ ApiTypeOK /\ SchedTypeOK
  /\ kills \in 0 .. MaxKills
  /\ deletions \subseteq Tasks
  /\ restarted \in BOOLEAN

Init ==
  /\ PlatformInit /\ WorkerInit /\ GcInit /\ ApiInit /\ SchedInit
  /\ kills = 0
  /\ deletions = {}
  /\ restarted = FALSE

-----------------------------------------------------------------------------
(* The process *)

\* All that the process kept in memory is gone; the platform stays.
ProcessEnds ==
  /\ phase' = "down"
  /\ WorkerReset /\ GcReset /\ ApiReset /\ SchedReset
  /\ UNCHANGED <<rows, inserts, conts, ws, store, clock, faults, deletions>>
  /\ restarted' = TRUE

\* run() up to gc.Cleanup.
Boot ==
  /\ phase = "down"
  /\ phase' = "gc"
  /\ UNCHANGED <<rows, inserts, conts, ws, store, clock, faults>>
  /\ UNCHANGED <<workerVars, gcVars, apiVars, schedVars, kills, histVars>>

\* SIGKILL, a lost host; also SIGTERM before the signal is looked at.
Crash ==
  /\ phase \in {"gc", "serving", "closing"} /\ kills < MaxKills
  /\ kills' = kills + 1
  /\ ProcessEnds

\* The runtime ends a process in which a goroutine panicked.
Abort ==
  /\ phase = "panicked"
  /\ UNCHANGED kills
  /\ ProcessEnds

\* SIGTERM: the context is done for every goroutine at once.
Terminate ==
  /\ phase = "serving" /\ kills < MaxKills
  /\ kills' = kills + 1
  /\ phase' = "closing"
  /\ UNCHANGED <<rows, inserts, conts, ws, store, clock, faults>>
  /\ UNCHANGED <<workerVars, gcVars, apiVars, schedVars, histVars>>

\* Server.Run returned nil: no handler is in flight; then wg.Wait: the worker
\* loop and the goroutines it started have returned.
Exit ==
  /\ phase = "closing" /\ InFlight = {}
  /\ worker.pc = "stopped" /\ Live = {}
  /\ UNCHANGED kills
  /\ ProcessEnds

\* Shutdown gave up on a handler after 10 seconds: Run returns an error, and
\* run() returns before wg.Wait.
ExitEarly ==
  /\ phase = "closing" /\ InFlight # {}
  /\ UNCHANGED kills
  /\ ProcessEnds

-----------------------------------------------------------------------------

\* What the steps of one part leave alone, and what follows from them.
WorkerFrame == UNCHANGED <<gcVars, apiVars, schedVars, kills, histVars>>

GcFrame == UNCHANGED <<apiVars, schedVars, kills, histVars>>

ApiFrame ==
  /\ UNCHANGED <<workerVars, gcVars, schedVars, kills, restarted>>
  /\ deletions' = deletions \cup {t \in Tasks : del[t] = "artifacts" /\ del'[t] # del[t]}

SchedFrame == UNCHANGED <<workerVars, gcVars, apiVars, kills, histVars>>

EnvFrame == UNCHANGED <<workerVars, gcVars, apiVars, schedVars, kills, histVars>>

Environment == ClockTick \/ \E c \in Conts : ContainerExit(c)

Process == Boot \/ Crash \/ Abort \/ Terminate \/ Exit \/ ExitEarly

WorkerPart == WorkerNext /\ WorkerFrame
GcPart     == GcNext /\ GcFrame
ApiPart    == ApiNext /\ ApiFrame
SchedPart  == SchedNext /\ SchedFrame
EnvPart    == Environment /\ EnvFrame

Next == WorkerPart \/ GcPart \/ ApiPart \/ SchedPart \/ EnvPart \/ Process

Spec == Init /\ [][Next]_vars

-----------------------------------------------------------------------------
(* Fairness.  The Go scheduler runs every goroutine that can go on, tickers *)
(* tick, calls return, and a task that is not done by then times out.       *)
(* Go's select picks at random among the cases that are ready: the loop does*)
(* not go on for ever after its context is done.  Nothing makes a program   *)
(* end, a client ask or the process die.                                    *)

Fairness ==
  /\ WF_vars(Boot) /\ WF_vars(Abort) /\ WF_vars(Exit)
  /\ WF_vars(GcPart)
  /\ WF_vars(LoopNext /\ WorkerFrame) /\ SF_vars(Drain /\ WorkerFrame)
  /\ \A g \in Goroutines : /\ WF_vars(Step(g) /\ WorkerFrame)
                           /\ WF_vars(Expire(g) /\ WorkerFrame)
  /\ \A t \in Tasks : /\ WF_vars(RunStep(t) /\ ApiFrame)
                      /\ WF_vars(StopStep(t) /\ ApiFrame)
                      /\ WF_vars(DeleteStep(t) /\ ApiFrame)
                      /\ WF_vars(Register(t) /\ SchedFrame)
                      /\ WF_vars((Fire(t) \/ Enqueue(t)) /\ SchedFrame)
  /\ WF_vars(ReadUpcoming /\ SchedFrame)
  /\ WF_vars(ClockTick /\ EnvFrame)

FairSpec == Spec /\ Fairness

-----------------------------------------------------------------------------
(* Safety *)

\* The worker loop has t in its hands: it claimed t and has not passed it on.
InHand(t) == worker.pc \in {"lookup", "cached"} /\ worker.task = t

InRecoverQ(t) == \E i \in 1 .. Len(recoverQ) : recoverQ[i].task = t

RunBy(t) == {g \in Live : gor[g].task = t}

\* The slots the loop holds: one while it has a task in hand or asks for one,
\* and those it filled at the end.
LoopSlots ==
  worker.filled + (IF worker.pc \in {"claim", "lookup", "cached"} THEN 1 ELSE 0)

\* The channel sem holds one token for the loop while it claims, one for every
\* goroutine of a claimed task and, at the end, those the loop put there to
\* wait for them: no slot leaks on any path of processQueue, and none is given
\* back twice.
SlotAccounting ==
  /\ sem <= MaxWorkers
  /\ sem = Cardinality(Holders) + LoopSlots

\* A task is in one pair of hands: the loop's, one goroutine's or the queue of
\* recovered tasks -- although the scheduler, the collector and the claim all
\* move rows to and fro between queued and running.
OneRunnerPerTask ==
  \A t \in Tasks :
    /\ \A g, h \in RunBy(t) : g = h
    /\ InHand(t) => RunBy(t) = {} /\ ~InRecoverQ(t)
    /\ InRecoverQ(t) => RunBy(t) = {}

\* In the life of one process a completed task names the complete result of a
\* program that ended well, and the object is there unless the task that owns
\* it is being deleted: a result is never published before it is uploaded, nor
\* taken from a container that was stopped or failed (waitAndSaveTask).
CompletedServesResult ==
  \A t \in Tasks : rows[t].status = "completed" /\ ~restarted =>
    \E o \in Tasks : /\ rows[t].path = <<o, "full">>
                     /\ "full" \in store[o] \/ o \in deletions

\* A task that waits to be run still has its input, over crashes and recovery, as
\* long as no call failed: cleanups reach only tasks that will not run again.
QueuedHasInput ==
  \A t \in Tasks :
    /\ rows[t].status \in {"queued", "scheduled"} /\ t \notin deletions
    /\ faults = 0
    => "input" \in ws[t]

\* In the life of one process a row says running only while someone is at work
\* on the task: every way out of processQueue and processTask settles the row.
\* Excepted are a call that failed after its effect and a shutdown: the claim and
\* the mark "running" may have reached the table although they returned an error.
RunningHasAgent ==
  \A t \in Tasks :
    rows[t].status = "running" /\ ~restarted /\ faults = 0 /\ phase # "closing"
    => InHand(t) \/ RunBy(t) # {}

\* After a restart, the container of a running task that still runs is waited
\* for, as long as no call failed: Cleanup hands over every one of them.
LiveContainerIsWatched ==
  \A t \in Tasks : /\ Up /\ rows[t].status = "running" /\ rows[t].cid # NoCont
                   /\ conts[rows[t].cid].st = "running" /\ faults = 0
                   => InRecoverQ(t) \/ RunBy(t) # {} \/ InHand(t)

\* In the life of one process, a running container belongs to a goroutine that
\* will wait for it and remove it, as long as no call failed.  Exempt is a container
\* whose StartContainer was cut short by a timeout or a shutdown, or whose task was
\* deleted before the mark "running": RemoveContainer does not remove it, because
\* it runs.
ContainersOwned ==
  \A c \in Conts : /\ conts[c].st = "running"
                   /\ conts[c].task \notin TimedTasks \cup deletions
                   /\ faults = 0 /\ phase # "closing" /\ ~restarted
                   => \E g \in Live : gor[g].cid = c

\* "all active tasks finished": the loop stops after every goroutine that holds
\* a slot has returned.
DrainComplete == worker.pc = "stopped" => Holders = {}

\* A timer that is about to mark its task queued finds it still scheduled, so
\* it never puts back a task that was claimed, stopped or finished meanwhile;
\* the map keeps a second timer from being set until the first is through.
TimersSound ==
  \A t \in Tasks : firing[t] > 0 =>
    firing[t] = 1 /\ rows[t].status \in {"scheduled", "absent"}

\* In the life of one process a finished task is not made active again.
TerminalNotRevived ==
  [][\A t \in Tasks : rows[t].status \in Terminal /\ ~restarted =>
       rows'[t].status \in Terminal \cup {"absent"}]_vars

\* The parts of the process that may have t to work on.
Held(t) == InHand(t) \/ RunBy(t) # {} \/ InRecoverQ(t) \/ rescue[t].pc # "idle"

Lifecycle == INSTANCE TaskLifecycle WITH
  status <- [t \in Tasks |-> rows[t].status],
  result <- [t \in Tasks |-> rows[t].path],
  held   <- [t \in Tasks |-> Held(t)]

\* The service implements TaskLifecycle: whatever the loop, the goroutines, the
\* handlers, the timers and the collector write in whatever order, over failing
\* calls and ends of the process, a row only takes the steps described there.
LifecycleRefined == Lifecycle!LifeSpec

(* Liveness *)

\* A task that waits for its time leaves that state, over restarts of the process:
\* the map of the scheduler and its timers are rebuilt from the table.
ScheduledWake ==
  \A t \in Tasks : (rows[t].status = "scheduled") ~> (rows[t].status # "scheduled")

\* Every task that is scheduled, queued or running comes to an end in the life of
\* the process that took it on.
TasksSettle ==
  \A t \in Tasks : (rows[t].status \in {"scheduled", "queued", "running"})
    ~> (rows[t].status \in Terminal \cup {"absent"} \/ restarted)

-----------------------------------------------------------------------------
(* What comments, messages, tests and the README say and the code does not  *)
(* keep: each is refuted by a run of its own.                               *)

\* garbagecollector.go:57 "Cleanup starts a cleanup for dead running tasks."  When
\* it has returned, a running row is someone's.  A process that died between
\* GetNextQueuedTask and the mark "running" leaves a row without a container id,
\* which GetRunningTasksContainers does not list.
DeadClaimsCleaned ==
  \A t \in Tasks : phase = "serving" /\ rows[t].status = "running" /\ rows[t].cid = NoCont
                   => InHand(t) \/ RunBy(t) # {}

\* server/task.go:136, the status is "the current status" of a task.  A goroutine
\* that returns does not leave its task running; that of a recovered task, for
\* which no deferred call marks it failed, does.
GoroutineSettlesRow ==
  [][\A g \in Live : gor'[g].pc = "idle" /\ phase' = phase =>
       rows'[gor[g].task].status # "running"]_vars

\* server/task.go:211 "cannot delete running task, need to stop it first".  A task
\* a goroutine is at work on keeps its row; but the answer of the status check is
\* old by the time the row is deleted, and a stopped task is still being run.
RunningTaskNotDeleted ==
  [][\A t \in Tasks : Exists(rows, t) /\ ~Exists(rows', t) => RunBy(t) = {}]_vars

\* README.md:146, stop "stops the container and marks the task stopped".  The mark
\* completed of waitAndSaveTask follows its check of the status by an upload.
StoppedIsFinal ==
  [][\A t \in Tasks : rows[t].status = "stopped" =>
       rows'[t].status \in {"stopped", "absent"}]_vars

\* task_test.go:854 "expected error for non-zero exit code": what a failed container
\* leaves is not a result, and does not complete the task.  The collector does that.
CompletedResultIsFull ==
  \A t \in Tasks : rows[t].status = "completed" => rows[t].path[2] = "full"

==============================================================================
