------------------------------- MODULE Scheduler -------------------------------
(***************************************************************************)
(* StartScheduler of internal/service/task.go.  On every tick it reads the *)
(* tasks that are due within TaskExpires and sets a timer for each that is *)
(* not in the map "scheduled" yet; when a timer fires, a goroutine of the  *)
(* runtime reads the task again and marks it queued.                       *)
(***************************************************************************)
EXTENDS Platform

CONSTANT TaskExpires   \* config Scheduler.TaskExpires: how far ahead a tick looks

ASSUME SchedulerAssumption == TaskExpires \in Nat

VARIABLES
  batch,       \* tasks read by the current tick and not looked at yet
  scheduled,   \* the map
  armed,       \* armed[t]: timers of t that have not fired
  firing       \* firing[t]: timers of t that have read t and will mark it queued

schedVars == <<batch, scheduled, armed, firing>>

SchedTypeOK ==
  /\ batch \subseteq Tasks
  /\ scheduled \subseteq Tasks
  /\ armed \in [Tasks -> Nat]
  /\ firing \in [Tasks -> Nat]

SchedInit ==
  /\ batch = {}
  /\ scheduled = {}
  /\ armed = [t \in Tasks |-> 0]
  /\ firing = [t \in Tasks |-> 0]

SchedReset ==
  /\ batch' = {}
  /\ scheduled' = {}
  /\ armed' = [t \in Tasks |-> 0]
  /\ firing' = [t \in Tasks |-> 0]

\* A tick: GetScheduledTasks.  If it fails, the next tick tries again.  Once
\* the context is done the loop has returned, or its query fails.
ReadUpcoming ==
  /\ phase = "serving" /\ batch = {}
  /\ batch' = Upcoming(rows, clock + TaskExpires)
  /\ UNCHANGED <<platformVars, scheduled, armed, firing>>

\* Faulty variant: the map is not looked at.
RegisterAlways(t) ==
  /\ Up /\ t \in batch
  /\ batch' = batch \ {t}
  /\ scheduled' = scheduled \cup {t}
  /\ armed' = [armed EXCEPT ![t] = 1]
  /\ UNCHANGED <<platformVars, firing>>

\* The body of the loop, under the mutex.
Register(t) ==
  /\ Up /\ t \in batch
  /\ batch' = batch \ {t}
  /\ IF t \in scheduled THEN UNCHANGED <<scheduled, armed>>
     ELSE /\ scheduled' = scheduled \cup {t}
          /\ armed' = [armed EXCEPT ![t] = @ + 1]
  /\ UNCHANGED <<platformVars, firing>>

\* Faulty variant: the task leaves the map before it is marked, not after.
FireForgetsFirst(t) ==
  /\ Up /\ armed[t] > 0 /\ clock >= ScheduledAt[t] /\ Exists(rows, t) /\ Answered
  /\ armed' = [armed EXCEPT ![t] = @ - 1]
  /\ firing' = IF rows[t].status = "scheduled"
               THEN [firing EXCEPT ![t] = @ + 1] ELSE firing
  /\ scheduled' = scheduled \ {t}
  /\ UNCHANGED <<rows, inserts, conts, ws, store, clock, phase, batch>>

\* time.AfterFunc: GetTaskById.  After an error, or when the task is no longer
\* scheduled, t stays in the map.  A row that is gone is a nil dereference.
Fire(t) ==
  /\ Up /\ armed[t] > 0 /\ clock >= ScheduledAt[t]
  /\ armed' = [armed EXCEPT ![t] = @ - 1]
  /\ LET done == phase = "closing" IN
     \/ AnsweredIn(done) /\ ~Exists(rows, t) /\ phase' = "panicked" /\ UNCHANGED firing
     \/ /\ AnsweredIn(done) /\ Exists(rows, t) /\ UNCHANGED phase
        /\ firing' = IF rows[t].status = "scheduled"
                     THEN [firing EXCEPT ![t] = @ + 1] ELSE firing
     \/ FailsIn(done) /\ UNCHANGED <<firing, phase>>
  /\ UNCHANGED <<rows, inserts, conts, ws, store, clock, batch, scheduled>>

\* The error of the mark is dropped; t leaves the map either way.
Enqueue(t) ==
  /\ Up /\ firing[t] > 0
  /\ firing' = [firing EXCEPT ![t] = @ - 1]
  /\ LET done == phase = "closing" IN
     \/ AnsweredIn(done) /\ rows' = MarkQueued(rows, t)
     \/ FailsIn(done) /\ rows' \in {rows, MarkQueued(rows, t)}
  /\ scheduled' = scheduled \ {t}
  /\ UNCHANGED <<inserts, conts, ws, store, clock, phase, batch, armed>>

SchedNext ==
  \/ ReadUpcoming
  \/ \E t \in Tasks : Register(t) \/ Fire(t) \/ Enqueue(t)

==============================================================================
