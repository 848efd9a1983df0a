--------------------------- MODULE GarbageCollector ---------------------------
(***************************************************************************)
(* internal/gc/garbagecollector.go: Cleanup runs once, before the worker,  *)
(* the scheduler and the server are started.  It lists the running tasks   *)
(* and deals with each in a goroutine of its own, while the caller removes *)
(* the containers of inactive tasks; it returns when all of them have.     *)
(* A call that fails ends the goroutine it is made in; the context of 20   *)
(* seconds is one reason for a call to fail.                               *)
(***************************************************************************)
EXTENDS TaskWorker

VARIABLES
  rescue,     \* rescue[t]: the goroutine of cleanupTask(t)
  sweep       \* the caller: Cleanup itself, then cleanupOrphans

gcVars == <<rescue, sweep>>

(* gone and redo are the two marks "queued" of cleanupTask.                 *)
RescuePCs == {"idle", "exists", "gone", "state", "remove", "redo", "upload",
              "complete", "cleanup"}

NoRescue == [pc |-> "idle", cid |-> NoCont, path |-> NoPath]

SweepStart == [pc |-> "tasks", conts |-> {}]

GcTypeOK ==
  /\ rescue \in [Tasks -> [pc : RescuePCs, cid : Conts \cup {NoCont},
                           path : Paths \cup {NoPath}]]
  /\ sweep \in [pc : {"tasks", "list", "active", "orphans", "over"},
                conts : SUBSET Conts]

GcInit ==
  /\ rescue = [t \in Tasks |-> NoRescue]
  /\ sweep = SweepStart

GcReset ==
  /\ rescue' = [t \in Tasks |-> NoRescue]
  /\ sweep' = SweepStart

Collecting == phase = "gc"

-----------------------------------------------------------------------------
(* Cleanup and cleanupOrphans *)

\* GetRunningTasks, then one goroutine per task.
ListRunning ==
  /\ Collecting /\ sweep.pc = "tasks"
  /\ \/ /\ Answered
        /\ rescue' = [t \in Tasks |->
             IF t \in RunningWithContainer(rows)
             THEN [NoRescue EXCEPT !.pc = "exists", !.cid = rows[t].cid]
             ELSE NoRescue]
        /\ sweep' = [sweep EXCEPT !.pc = "list"]
     \/ Fault /\ sweep' = [sweep EXCEPT !.pc = "over"] /\ UNCHANGED rescue
  /\ UNCHANGED <<rows, inserts, conts, ws, store, clock, phase, workerVars>>

ListConts ==
  /\ Collecting /\ sweep.pc = "list"
  /\ \/ /\ Answered
        /\ sweep' = [pc |-> "active", conts |-> {c \in Conts : Present(c)}]
     \/ Fault /\ sweep' = [sweep EXCEPT !.pc = "over"]
  /\ UNCHANGED <<rows, inserts, conts, ws, store, clock, phase, workerVars, rescue>>

ListActive ==
  /\ Collecting /\ sweep.pc = "active"
  /\ \/ /\ Answered
        /\ sweep' = [pc |-> "orphans",
                     conts |-> {c \in sweep.conts : conts[c].task \notin Active(rows)}]
     \/ Fault /\ sweep' = [sweep EXCEPT !.pc = "over"]
  /\ UNCHANGED <<rows, inserts, conts, ws, store, clock, phase, workerVars, rescue>>

\* Removing the container may fail; the workspace is removed all the same.
SweepOne(c) ==
  /\ Collecting /\ sweep.pc = "orphans" /\ c \in sweep.conts
  /\ \/ Removed(c) /\ Cleaned(conts[c].task)
     \/ Fault /\ UNCHANGED conts /\ ws' = [ws EXCEPT ![conts[c].task] = {}]
  /\ sweep' = [sweep EXCEPT !.conts = @ \ {c}]
  /\ UNCHANGED <<rows, inserts, store, clock, phase, workerVars, rescue>>

Swept ==
  /\ Collecting /\ sweep.pc = "orphans" /\ sweep.conts = {}
  /\ sweep' = [sweep EXCEPT !.pc = "over"]
  /\ UNCHANGED <<platformVars, workerVars, rescue>>

-----------------------------------------------------------------------------
(* cleanupTask *)

RescueAt(t, pc) == Collecting /\ rescue[t].pc = pc

RescueGoto(t, pc) == rescue' = [rescue EXCEPT ![t].pc = pc]

RescueEnds(t) == rescue' = [rescue EXCEPT ![t] = NoRescue]

RescueExists(t) ==
  /\ RescueAt(t, "exists")
  /\ \/ Answered /\ RescueGoto(t, IF Present(rescue[t].cid) THEN "state" ELSE "gone")
     \/ Fault /\ RescueEnds(t)
  /\ UNCHANGED <<rows, inserts, conts, ws, store, clock, phase, workerVars, sweep>>

RescueGone(t) ==
  /\ RescueAt(t, "gone")
  /\ \/ Answered /\ rows' = MarkQueued(rows, t)
     \/ Fault /\ rows' \in {rows, MarkQueued(rows, t)}
  /\ RescueEnds(t)
  /\ UNCHANGED <<inserts, conts, ws, store, clock, phase, workerVars, sweep>>

\* Faulty variant: a running container is not handed over.
RescueStateDropsRunning(t) ==
  /\ RescueAt(t, "state") /\ Answered
  /\ LET st == conts[rescue[t].cid].st IN
     CASE st = "failed" -> RescueGoto(t, "remove")
       [] st = "exited0" -> RescueGoto(t, "upload")
       [] OTHER -> RescueEnds(t)
  /\ UNCHANGED <<rows, inserts, conts, ws, store, clock, phase, workerVars, sweep>>

\* A container that is still running is handed to the worker.
RescueState(t) ==
  /\ RescueAt(t, "state")
  /\ LET st == conts[rescue[t].cid].st IN
     \/ st = "running" /\ Answered /\ RescueEnds(t)
        /\ recoverQ' = Append(recoverQ, [task |-> t, cid |-> rescue[t].cid])
     \/ st = "failed" /\ Answered /\ RescueGoto(t, "remove") /\ UNCHANGED recoverQ
     \/ st \in {"created", "exited0"} /\ Answered /\ RescueGoto(t, "upload")
        /\ UNCHANGED recoverQ
     \/ st \notin {"created", "running", "exited0", "failed"} /\ Answered /\ RescueEnds(t)
        /\ UNCHANGED recoverQ
     \/ Fault /\ RescueEnds(t) /\ UNCHANGED recoverQ
  /\ UNCHANGED <<rows, inserts, conts, ws, store, clock, phase, sem, worker, gor, sweep>>

\* Removing what is gone is an error like any other.
RescueRemove(t) ==
  /\ RescueAt(t, "remove")
  /\ \/ /\ Answered /\ Removed(rescue[t].cid)
        /\ IF Present(rescue[t].cid) THEN RescueGoto(t, "redo") ELSE RescueEnds(t)
     \/ Fault /\ UNCHANGED conts /\ RescueEnds(t)
  /\ UNCHANGED <<rows, inserts, ws, store, clock, phase, workerVars, sweep>>

\* There is no return after this mark: the goroutine goes on to the upload.
RescueRedo(t) ==
  /\ RescueAt(t, "redo")
  /\ \/ Answered /\ rows' = MarkQueued(rows, t) /\ RescueGoto(t, "upload")
     \/ Fault /\ rows' \in {rows, MarkQueued(rows, t)} /\ RescueEnds(t)
  /\ UNCHANGED <<inserts, conts, ws, store, clock, phase, workerVars, sweep>>

RescueUpload(t) ==
  /\ RescueAt(t, "upload")
  /\ \/ \E f \in Results(t) :
          /\ store' = [store EXCEPT ![t] = @ \cup {f}]
          /\ \/ /\ Answered
                /\ rescue' = [rescue EXCEPT ![t].pc = "complete", ![t].path = <<t, f>>]
             \/ Fault /\ RescueEnds(t)
     \/ /\ (Results(t) = {} /\ Answered) \/ Fault
        /\ RescueEnds(t) /\ UNCHANGED store
  /\ UNCHANGED <<rows, inserts, conts, ws, clock, phase, workerVars, sweep>>

RescueComplete(t) ==
  /\ RescueAt(t, "complete")
  /\ LET marked == MarkCompleted(rows, t, rescue[t].path) IN
     \/ Answered /\ rows' = marked /\ RescueGoto(t, "cleanup")
     \/ Fault /\ rows' \in {rows, marked} /\ RescueEnds(t)
  /\ UNCHANGED <<inserts, conts, ws, store, clock, phase, workerVars, sweep>>

RescueCleanup(t) ==
  /\ RescueAt(t, "cleanup")
  /\ Cleaned(t)
  /\ RescueEnds(t)
  /\ UNCHANGED <<rows, inserts, conts, store, clock, phase, workerVars, sweep>>

-----------------------------------------------------------------------------
(* wg.Wait returns, and main goes on to start everything else. *)

GcOver ==
  /\ Collecting /\ sweep.pc = "over" /\ \A t \in Tasks : rescue[t].pc = "idle"
  /\ phase' = "serving"
  /\ UNCHANGED <<rows, inserts, conts, ws, store, clock, faults, workerVars, rescue, sweep>>

RescueStep(t) ==
  \/ RescueExists(t) \/ RescueGone(t) \/ RescueState(t) \/ RescueRemove(t)
  \/ RescueRedo(t) \/ RescueUpload(t) \/ RescueComplete(t) \/ RescueCleanup(t)

GcNext ==
  \/ ListRunning \/ ListConts \/ ListActive \/ Swept \/ GcOver
  \/ \E c \in Conts : SweepOne(c)
  \/ \E t \in Tasks : RescueStep(t)

==============================================================================
