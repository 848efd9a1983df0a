------------------------------ MODULE TaskWorker ------------------------------
(***************************************************************************)
(* The worker of internal/service/task.go: the loop of StartWorker and     *)
(* processQueue, which takes a semaphore slot, claims a task and starts a  *)
(* goroutine for it; the goroutines of processTask and waitAndSaveTask;    *)
(* and the queue of recovered tasks that the garbage collector fills.      *)
(***************************************************************************)
EXTENDS Platform, FiniteSets

CONSTANTS
  Goroutines,   \* the goroutines processQueue may have started
  MaxWorkers,   \* config Worker.MaxWorkers: capacity of the semaphore
  TimedTasks    \* tasks that may outlast their timeout_sec

ASSUME WorkerAssumption ==
  /\ IsFiniteSet(Goroutines)
  /\ MaxWorkers \in Nat \ {0}
  /\ TimedTasks \subseteq Tasks

VARIABLES
  sem,        \* values in the channel sem
  worker,     \* the loop: where it is, the task in hand, slots filled at the end
  recoverQ,   \* recoverTaskQueue
  gor         \* the goroutines

workerVars == <<sem, worker, recoverQ, gor>>

(* The loop.  tick: in the select.  loop: at the top of processQueue's for. *)
(* claim, lookup, cached: holding a slot, before GetNextQueuedTask,         *)
(* FindCachedTask and the mark of a cached task.  drain: ctx is done,       *)
(* filling the semaphore.  stopped: "all active tasks finished".            *)
LoopPCs == {"tick", "loop", "claim", "lookup", "cached", "drain", "stopped"}

(* A goroutine is before the call its pc names; wait covers WaitContainer   *)
(* and, after a failure, getErrLogs.  stopc and marks are the two calls of  *)
(* the timeout branch; remove, markfail and cleanup are the deferred ones.  *)
ContextPCs == {"check", "start", "markrun", "wait", "recheck", "upload", "complete"}
ExitPCs    == {"stopc", "marks", "remove", "markfail", "cleanup"}

Goroutine ==
  [pc : ContextPCs \cup ExitPCs \cup {"idle"}, kind : {"claimed", "recovered"},
   task : Tasks \cup {NoTask}, cid : Conts \cup {NoCont},
   path : Paths \cup {NoPath}, err : BOOLEAN, expired : BOOLEAN]

Idle == [pc |-> "idle", kind |-> "claimed", task |-> NoTask, cid |-> NoCont,
         path |-> NoPath, err |-> FALSE, expired |-> FALSE]

WorkerTypeOK ==
  /\ sem \in Nat
  /\ worker \in [pc : LoopPCs, task : Tasks \cup {NoTask},
                 path : Paths \cup {NoPath}, filled : Nat]
  /\ recoverQ \in Seq([task : Tasks, cid : Conts])
  /\ gor \in [Goroutines -> Goroutine]

LoopStart == [pc |-> "tick", task |-> NoTask, path |-> NoPath, filled |-> 0]

\* What a process starts with.
WorkerReset ==
  /\ sem' = 0
  /\ worker' = LoopStart
  /\ recoverQ' = <<>>
  /\ gor' = [g \in Goroutines |-> Idle]

WorkerInit ==
  /\ sem = 0
  /\ worker = LoopStart
  /\ recoverQ = <<>>
  /\ gor = [g \in Goroutines |-> Idle]

Live == {g \in Goroutines : gor[g].pc # "idle"}

Holders == {g \in Live : gor[g].kind = "claimed"}

-----------------------------------------------------------------------------
(* The loop: StartWorker and processQueue *)

Closing == phase = "closing"

To(pc) == [LoopStart EXCEPT !.pc = pc]

\* select: the ticker.
Tick ==
  /\ Up /\ worker.pc = "tick"
  /\ worker' = To("loop")
  /\ UNCHANGED <<platformVars, sem, recoverQ, gor>>

\* select on sem, default: every slot is taken.
NoSlot ==
  /\ Up /\ worker.pc = "loop" /\ sem = MaxWorkers
  /\ worker' = To("tick")
  /\ UNCHANGED <<platformVars, sem, recoverQ, gor>>

Spawned(g, kind, t, c, pc) ==
  [gor EXCEPT ![g] = [pc |-> pc, kind |-> kind, task |-> t, cid |-> c,
                      path |-> NoPath, err |-> FALSE, expired |-> FALSE]]

\* Faulty variant: the recovered task stays at the head of the queue.
TakeRecoveredTwice(g) ==
  /\ Up /\ worker.pc = "loop" /\ sem < MaxWorkers
  /\ recoverQ # <<>> /\ gor[g].pc = "idle"
  /\ gor' = Spawned(g, "recovered", Head(recoverQ).task, Head(recoverQ).cid, "wait")
  /\ worker' = To("tick")
  /\ UNCHANGED <<platformVars, sem, recoverQ>>

\* Faulty variant: the slot taken for the recovered task is not given back.
TakeRecoveredKeepsSlot(g) ==
  /\ Up /\ worker.pc = "loop" /\ sem < MaxWorkers
  /\ recoverQ # <<>> /\ gor[g].pc = "idle"
  /\ gor' = Spawned(g, "recovered", Head(recoverQ).task, Head(recoverQ).cid, "wait")
  /\ recoverQ' = Tail(recoverQ)
  /\ sem' = sem + 1
  /\ worker' = To("tick")
  /\ UNCHANGED platformVars

\* A recovered task is waited for by a goroutine that holds no slot: the slot
\* taken for it is given back at once.
TakeRecovered(g) ==
  /\ Up /\ worker.pc = "loop" /\ sem < MaxWorkers
  /\ recoverQ # <<>> /\ gor[g].pc = "idle"
  /\ gor' = Spawned(g, "recovered", Head(recoverQ).task, Head(recoverQ).cid, "wait")
  /\ recoverQ' = Tail(recoverQ)
  /\ worker' = To("tick")
  /\ UNCHANGED <<platformVars, sem>>

\* Faulty variant: the loop goes on without a slot.
TakeNoSlot ==
  /\ Up /\ worker.pc = "loop" /\ sem < MaxWorkers /\ recoverQ = <<>>
  /\ worker' = To("claim")
  /\ UNCHANGED <<platformVars, sem, recoverQ, gor>>

TakeSlot ==
  /\ Up /\ worker.pc = "loop" /\ sem < MaxWorkers /\ recoverQ = <<>>
  /\ sem' = sem + 1
  /\ worker' = To("claim")
  /\ UNCHANGED <<platformVars, recoverQ, gor>>

Return == sem' = sem - 1 /\ worker' = To("tick")

\* Faulty variant: an empty queue or an error keeps the slot.
ClaimKeepsSlot ==
  /\ Up /\ worker.pc = "claim"
  /\ \/ \E t \in NextQueued(rows, clock) :
          /\ rows' = Claimed(rows, t) /\ AnsweredIn(Closing)
          /\ worker' = [To("lookup") EXCEPT !.task = t]
     \/ /\ (NextQueued(rows, clock) = {} /\ Answered) \/ FailsIn(Closing)
        /\ worker' = To("tick") /\ UNCHANGED rows
  /\ UNCHANGED <<inserts, conts, ws, store, clock, phase, sem, recoverQ, gor>>

\* GetNextQueuedTask: one UPDATE ... RETURNING.
Claim ==
  /\ Up /\ worker.pc = "claim"
  /\ \/ \E t \in NextQueued(rows, clock) :
          /\ rows' = Claimed(rows, t)
          /\ \/ /\ AnsweredIn(Closing)
                /\ worker' = [To("lookup") EXCEPT !.task = t]
                /\ UNCHANGED sem
             \/ FailsIn(Closing) /\ Return
     \/ NextQueued(rows, clock) = {} /\ AnsweredIn(Closing) /\ Return /\ UNCHANGED rows
     \/ FailsIn(Closing) /\ Return /\ UNCHANGED rows
  /\ UNCHANGED <<inserts, conts, ws, store, clock, phase, recoverQ, gor>>

\* FindCachedTask: a hit is marked, anything else starts a goroutine.
LookupHit ==
  /\ Up /\ worker.pc = "lookup" /\ AnsweredIn(Closing)
  /\ \E p \in CachedPaths(rows, Sig[worker.task]) \ {NoPath} :
       worker' = [worker EXCEPT !.pc = "cached", !.path = p]
  /\ UNCHANGED <<rows, inserts, conts, ws, store, clock, phase, sem, recoverQ, gor>>

StartTask(g) ==
  /\ Up /\ worker.pc = "lookup" /\ gor[g].pc = "idle"
  /\ \/ NoPath \in CachedPaths(rows, Sig[worker.task]) /\ AnsweredIn(Closing)
     \/ FailsIn(Closing)
  /\ gor' = Spawned(g, "claimed", worker.task, NoCont, "check")
  /\ worker' = To("loop")
  /\ UNCHANGED <<rows, inserts, conts, ws, store, clock, phase, sem, recoverQ>>

\* Faulty variant: a cache hit keeps the slot.
MarkCachedKeepsSlot ==
  /\ Up /\ worker.pc = "cached" /\ AnsweredIn(Closing)
  /\ rows' = MarkCompleted(rows, worker.task, worker.path)
  /\ worker' = To("tick")
  /\ UNCHANGED <<inserts, conts, ws, store, clock, phase, sem, recoverQ, gor>>

\* The error of this mark is not looked at.
MarkCached ==
  /\ Up /\ worker.pc = "cached"
  /\ \/ AnsweredIn(Closing) /\ rows' = MarkCompleted(rows, worker.task, worker.path)
     \/ FailsIn(Closing) /\ rows' \in {rows, MarkCompleted(rows, worker.task, worker.path)}
  /\ Return
  /\ UNCHANGED <<inserts, conts, ws, store, clock, phase, recoverQ, gor>>

\* select: ctx.Done.
Drain ==
  /\ Closing /\ worker.pc = "tick"
  /\ worker' = To("drain")
  /\ UNCHANGED <<platformVars, sem, recoverQ, gor>>

FillSlot ==
  /\ Closing /\ worker.pc = "drain" /\ worker.filled < MaxWorkers /\ sem < MaxWorkers
  /\ sem' = sem + 1
  /\ worker' = [worker EXCEPT !.filled = @ + 1]
  /\ UNCHANGED <<platformVars, recoverQ, gor>>

\* Faulty variant: the last slot is not waited for.
DrainedEarly ==
  /\ Closing /\ worker.pc = "drain" /\ worker.filled >= MaxWorkers - 1
  /\ worker' = [worker EXCEPT !.pc = "stopped"]
  /\ UNCHANGED <<platformVars, sem, recoverQ, gor>>

Drained ==
  /\ Closing /\ worker.pc = "drain" /\ worker.filled = MaxWorkers
  /\ worker' = [worker EXCEPT !.pc = "stopped"]
  /\ UNCHANGED <<platformVars, sem, recoverQ, gor>>

LoopNext ==
  \/ Tick \/ NoSlot \/ TakeSlot \/ Claim \/ LookupHit \/ MarkCached
  \/ Drain \/ FillSlot \/ Drained
  \/ \E g \in Goroutines : TakeRecovered(g) \/ StartTask(g)

-----------------------------------------------------------------------------
(* The goroutines: processTask and waitAndSaveTask *)

\* The goroutine's context: the task's timeout, or cancelled with the process.
Done(g) == Closing \/ gor[g].expired

At(g, pc) == Up /\ gor[g].pc = pc

Goto(g, pc) == gor' = [gor EXCEPT ![g].pc = pc]

\* Returning from the body.  A recovered task has no deferred calls, and its
\* error is dropped.  RemoveContainer is deferred once a container is started.
Leave(g, err) ==
  gor' = [gor EXCEPT ![g] =
    IF @.kind = "recovered" THEN Idle
    ELSE [@ EXCEPT !.err = err,
                   !.pc = IF gor[g].cid = NoCont THEN "markfail" ELSE "remove"]]

\* A nil dereference in a goroutine ends the process.
Panic == phase' = "panicked"

\* timeout_sec is over.
Expire(g) ==
  /\ Up /\ gor[g].pc \in ContextPCs /\ gor[g].kind = "claimed"
  /\ gor[g].task \in TimedTasks /\ ~gor[g].expired
  /\ gor' = [gor EXCEPT ![g].expired = TRUE]
  /\ UNCHANGED <<platformVars, sem, worker, recoverQ>>

\* GetTaskById; the claimed row may be gone, or stopped.
Check(g) ==
  /\ At(g, "check")
  /\ LET t == gor[g].task IN
     \/ AnsweredIn(Done(g)) /\ ~Exists(rows, t) /\ Panic /\ UNCHANGED gor
     \/ /\ AnsweredIn(Done(g)) /\ Exists(rows, t) /\ UNCHANGED phase
        /\ IF rows[t].status = "stopped" THEN Leave(g, TRUE) ELSE Goto(g, "start")
     \/ FailsIn(Done(g)) /\ Leave(g, TRUE) /\ UNCHANGED phase
  /\ UNCHANGED <<rows, inserts, conts, ws, store, clock, sem, worker, recoverQ>>

\* Faulty variant: the row gets the container id before the task is running.
StartRecordsId(g) ==
  /\ At(g, "start") /\ AnsweredIn(Done(g)) /\ ws[gor[g].task] # {}
  /\ \E c \in Conts :
       /\ conts[c].st = "unused"
       /\ conts' = [conts EXCEPT ![c] = [task |-> gor[g].task, st |-> "running"]]
       /\ gor' = [gor EXCEPT ![g].pc = "markrun", ![g].cid = c]
       /\ rows' = [rows EXCEPT ![gor[g].task].cid = c]
  /\ UNCHANGED <<inserts, ws, store, clock, phase, sem, worker, recoverQ>>

\* StartContainer.  A bind mount needs its source directory.
Start(g) ==
  /\ At(g, "start") /\ AnsweredIn(Done(g)) /\ ws[gor[g].task] # {}
  /\ \E c \in Conts :
       /\ conts[c].st = "unused"
       /\ conts' = [conts EXCEPT ![c] = [task |-> gor[g].task, st |-> "running"]]
       /\ gor' = [gor EXCEPT ![g].pc = "markrun", ![g].cid = c]
  /\ UNCHANGED <<rows, inserts, ws, store, clock, phase, sem, worker, recoverQ>>

\* StartContainer fails: no image, no directory, any other error; what was
\* created is removed.
StartFails(g) ==
  /\ At(g, "start") /\ Answered
  /\ Leave(g, TRUE)
  /\ UNCHANGED <<rows, inserts, conts, ws, store, clock, phase, sem, worker, recoverQ>>

\* StartContainer is cut short: the context ends, or a call fails after it had its
\* effect.  A container that was created is not known, or RemoveContainer gets the
\* same dead context; one that was started is not removed because it runs.
StartCutShort(g) ==
  /\ At(g, "start") /\ FailsIn(Done(g)) /\ ws[gor[g].task] # {}
  /\ \E c \in Conts, st \in {"created", "running"} :
       /\ conts[c].st = "unused"
       /\ conts' = [conts EXCEPT ![c] = [task |-> gor[g].task, st |-> st]]
  /\ Leave(g, TRUE)
  /\ UNCHANGED <<rows, inserts, ws, store, clock, phase, sem, worker, recoverQ>>

\* A row that is gone makes the UPDATE return no row: an error.
MarkRun(g) ==
  /\ At(g, "markrun")
  /\ LET t == gor[g].task
         marked == MarkRunning(rows, t, gor[g].cid)
     IN  \/ /\ AnsweredIn(Done(g)) /\ rows' = marked
            /\ IF Exists(rows, t) THEN Goto(g, "wait") ELSE Leave(g, TRUE)
         \/ FailsIn(Done(g)) /\ rows' \in {rows, marked} /\ Leave(g, TRUE)
  /\ UNCHANGED <<inserts, conts, ws, store, clock, phase, sem, worker, recoverQ>>

\* Faulty variant: the wait ends as soon as the task is marked stopped.
WaitUntilStopped(g) ==
  /\ At(g, "wait") /\ Answered
  /\ IF rows[gor[g].task].status = "stopped" THEN Leave(g, FALSE)
     ELSE conts[gor[g].cid].st = "exited0" /\ Goto(g, "recheck")
  /\ UNCHANGED <<rows, inserts, conts, ws, store, clock, phase, sem, worker, recoverQ>>

\* WaitContainer returns: exit code 0; another code, no container or a failed
\* call, each an error; or the context is done.
Wait(g) ==
  /\ At(g, "wait")
  /\ LET st == conts[gor[g].cid].st IN
     \/ st = "exited0" /\ Answered /\ Goto(g, "recheck")
     \/ st \in {"failed", "removed"} /\ Answered /\ Leave(g, TRUE)
     \/ Fault /\ Leave(g, TRUE)
     \/ Done(g) /\ Answered /\ Goto(g, "stopc")
  /\ UNCHANGED <<rows, inserts, conts, ws, store, clock, phase, sem, worker, recoverQ>>

\* The two calls of the timeout branch; their errors are logged.
StopExpired(g) ==
  /\ At(g, "stopc")
  /\ \/ Answered /\ Stopped(gor[g].cid)
     \/ Fault /\ UNCHANGED <<conts, ws>>
  /\ Goto(g, "marks")
  /\ UNCHANGED <<rows, inserts, store, clock, phase, sem, worker, recoverQ>>

MarkExpired(g) ==
  /\ At(g, "marks")
  /\ \/ Answered /\ rows' = MarkStopped(rows, gor[g].task)
     \/ Fault /\ UNCHANGED rows
  /\ Leave(g, TRUE)
  /\ UNCHANGED <<inserts, conts, ws, store, clock, phase, sem, worker, recoverQ>>

\* Faulty variant: the status is not looked at.
RecheckSkipped(g) ==
  /\ At(g, "recheck") /\ AnsweredIn(Done(g))
  /\ Goto(g, "upload")
  /\ UNCHANGED <<rows, inserts, conts, ws, store, clock, phase, sem, worker, recoverQ>>

\* "if task was stopped -> stop worker"
Recheck(g) ==
  /\ At(g, "recheck")
  /\ LET t == gor[g].task IN
     \/ AnsweredIn(Done(g)) /\ ~Exists(rows, t) /\ Panic /\ UNCHANGED gor
     \/ /\ AnsweredIn(Done(g)) /\ Exists(rows, t) /\ UNCHANGED phase
        /\ IF rows[t].status = "stopped" THEN Leave(g, FALSE) ELSE Goto(g, "upload")
     \/ FailsIn(Done(g)) /\ Leave(g, TRUE) /\ UNCHANGED phase
  /\ UNCHANGED <<rows, inserts, conts, ws, store, clock, sem, worker, recoverQ>>

\* Faulty variant: a failed upload is logged, and the task completed.
UploadErrorIgnored(g) ==
  /\ At(g, "upload")
  /\ LET t == gor[g].task IN
     \E f \in Results(t) :
       /\ gor' = [gor EXCEPT ![g].pc = "complete", ![g].path = <<t, f>>]
       /\ \/ Answered /\ store' = [store EXCEPT ![t] = @ \cup {f}]
          \/ Fault /\ UNCHANGED store
  /\ UNCHANGED <<rows, inserts, conts, ws, clock, phase, sem, worker, recoverQ>>

Upload(g) ==
  /\ At(g, "upload")
  /\ LET t == gor[g].task IN
     \/ \E f \in Results(t) :
          /\ store' = [store EXCEPT ![t] = @ \cup {f}]
          /\ \/ /\ AnsweredIn(Done(g))
                /\ gor' = [gor EXCEPT ![g].pc = "complete", ![g].path = <<t, f>>]
             \/ FailsIn(Done(g)) /\ Leave(g, TRUE)
     \/ /\ (Results(t) = {} /\ Answered) \/ FailsIn(Done(g))
        /\ Leave(g, TRUE) /\ UNCHANGED store
  /\ UNCHANGED <<rows, inserts, conts, ws, clock, phase, sem, worker, recoverQ>>

Complete(g) ==
  /\ At(g, "complete")
  /\ LET t == gor[g].task
         marked == MarkCompleted(rows, t, gor[g].path)
     IN  \/ AnsweredIn(Done(g)) /\ rows' = marked /\ Leave(g, ~Exists(rows, t))
         \/ FailsIn(Done(g)) /\ rows' \in {rows, marked} /\ Leave(g, TRUE)
  /\ UNCHANGED <<inserts, conts, ws, store, clock, phase, sem, worker, recoverQ>>

(* The deferred calls, in the order they run.  Their errors are logged. *)

\* Faulty variant: err is shadowed, so nothing is marked failed afterwards.
RemoveContShadowsErr(g) ==
  /\ At(g, "remove")
  /\ (Answered /\ Removed(gor[g].cid)) \/ (Fault /\ UNCHANGED conts)
  /\ Goto(g, "cleanup")
  /\ UNCHANGED <<rows, inserts, ws, store, clock, phase, sem, worker, recoverQ>>

RemoveCont(g) ==
  /\ At(g, "remove")
  /\ (Answered /\ Removed(gor[g].cid)) \/ (Fault /\ UNCHANGED conts)
  /\ Goto(g, IF gor[g].err THEN "markfail" ELSE "cleanup")
  /\ UNCHANGED <<rows, inserts, ws, store, clock, phase, sem, worker, recoverQ>>

MarkFail(g) ==
  /\ At(g, "markfail")
  /\ (Answered /\ rows' = MarkFailed(rows, gor[g].task)) \/ (Fault /\ UNCHANGED rows)
  /\ Goto(g, "cleanup")
  /\ UNCHANGED <<inserts, conts, ws, store, clock, phase, sem, worker, recoverQ>>

\* workspace.Cleanup, then the slot is given back.
Finish(g) ==
  /\ At(g, "cleanup")
  /\ Cleaned(gor[g].task)
  /\ gor' = [gor EXCEPT ![g] = Idle]
  /\ sem' = sem - 1
  /\ UNCHANGED <<rows, inserts, conts, store, clock, phase, worker, recoverQ>>

Step(g) ==
  \/ Check(g) \/ Start(g) \/ StartFails(g) \/ StartCutShort(g) \/ MarkRun(g)
  \/ Wait(g) \/ StopExpired(g) \/ MarkExpired(g) \/ Recheck(g) \/ Upload(g)
  \/ Complete(g) \/ RemoveCont(g) \/ MarkFail(g) \/ Finish(g)

WorkerNext == LoopNext \/ \E g \in Goroutines : Step(g) \/ Expire(g)

==============================================================================
