------------------------------ MODULE TaskStore ------------------------------
(***************************************************************************)
(* The table "tasks" and the statements the service runs against it        *)
(* (internal/db/query.sql.go, reached through internal/repository/task.go).*)
(* A statement is an operator from a table to a table or to a result; the  *)
(* modules that EXTEND this one keep the table in a variable.              *)
(*                                                                         *)
(* A task is the UUID of one run request.  What the request fixes once and *)
(* for all -- its signature and the moment it asks to be run -- is a       *)
(* constant function of the task; what the service changes is the row.     *)
(***************************************************************************)
EXTENDS Naturals

CONSTANTS
  Tasks,        \* UUIDs of run requests
  Conts,        \* identifiers docker gives to containers
  NoTask,       \* "no task"
  NoCont,       \* the empty container id (NULL in the table)
  NoPath,       \* the empty result path
  Sig,          \* Sig[t]: signature of t, from model, environment, command, file
  ScheduledAt,  \* ScheduledAt[t]: requested start, or NoTime (NULL)
  NoTime

ASSUME StoreAssumption ==
  /\ NoTask \notin Tasks
  /\ NoCont \notin Conts
  /\ NoTime \notin Nat
  /\ ScheduledAt \in [Tasks -> Nat \cup {NoTime}]

\* The two kinds of result file the properties tell apart: the complete output
\* of a program that exited with 0, and what an aborted one left behind.
Files == {"full", "partial"}

\* An object key "tasks/<task>/<file>".
Paths == Tasks \X Files

ASSUME PathAssumption == NoPath \notin Paths

Statuses == {"scheduled", "queued", "running", "completed", "failed", "stopped"}

Terminal == {"completed", "failed", "stopped"}

\* "absent" is the task that has no row.  created orders rows by created_at.
Rows == [status : Statuses \cup {"absent"}, cid : Conts \cup {NoCont},
         path : Paths \cup {NoPath}, created : Nat]

NoRow == [status |-> "absent", cid |-> NoCont, path |-> NoPath, created |-> 0]

Exists(tb, t) == tb[t].status # "absent"

-----------------------------------------------------------------------------
(* Reads *)

\* ORDER BY scheduled_at ASC puts NULL last.
DueNoLater(t, u) ==
  \/ ScheduledAt[u] = NoTime
  \/ ScheduledAt[t] # NoTime /\ ScheduledAt[t] <= ScheduledAt[u]

Due(t, now) == ScheduledAt[t] = NoTime \/ ScheduledAt[t] <= now

Queued(tb, now) == {t \in Tasks : tb[t].status = "queued" /\ Due(t, now)}

\* The rows GetNextQueuedTask may pick: the database is free among equals.
NextQueued(tb, now) ==
  {t \in Queued(tb, now) : \A u \in Queued(tb, now) : DueNoLater(t, u)}

\* Completed rows with a signature and a path, the newest of them.
CacheHits(tb, sig) ==
  LET hits == {t \in Tasks : /\ tb[t].status = "completed"
                             /\ tb[t].path # NoPath
                             /\ Sig[t] = sig}
  IN  {t \in hits : \A u \in hits : tb[u].created <= tb[t].created}

\* The results FindCachedTask may return; NoPath when no row matches.
CachedPaths(tb, sig) ==
  IF CacheHits(tb, sig) = {} THEN {NoPath}
  ELSE {tb[t].path : t \in CacheHits(tb, sig)}

\* Faulty variant: only the tasks that came into the window with this tick.
UpcomingInWindow(tb, horizon) ==
  {t \in Tasks : tb[t].status = "scheduled" /\ ScheduledAt[t] = horizon}

Upcoming(tb, horizon) ==
  {t \in Tasks : /\ tb[t].status = "scheduled"
                 /\ ScheduledAt[t] # NoTime
                 /\ ScheduledAt[t] <= horizon}

RunningWithContainer(tb) ==
  {t \in Tasks : tb[t].status = "running" /\ tb[t].cid # NoCont}

\* Faulty variant: queued tasks are forgotten.
ActiveButQueued(tb) == {t \in Tasks : tb[t].status \in {"running", "scheduled"}}

Active(tb) == {t \in Tasks : tb[t].status \in {"running", "scheduled", "queued"}}

-----------------------------------------------------------------------------
(* Writes.  An UPDATE or DELETE of an absent row changes nothing; the      *)
(* UPDATEs are ":one" queries, so the caller then gets an error.           *)

Insert(tb, t, status, path, now) ==
  [tb EXCEPT ![t] = [status |-> status, cid |-> NoCont, path |-> path,
                     created |-> now]]

SetStatus(tb, t, status) ==
  IF Exists(tb, t) THEN [tb EXCEPT ![t].status = status] ELSE tb

\* The claim inside GetNextQueuedTask; the row keeps the container id it had.
Claimed(tb, t) == SetStatus(tb, t, "running")

MarkQueued(tb, t) == SetStatus(tb, t, "queued")

MarkStopped(tb, t) == SetStatus(tb, t, "stopped")

\* Faulty variant: a task that was stopped is marked failed all the same.
MarkFailedAlways(tb, t) == SetStatus(tb, t, "failed")

MarkFailed(tb, t) ==
  IF tb[t].status = "stopped" THEN tb ELSE SetStatus(tb, t, "failed")

MarkRunning(tb, t, c) ==
  IF Exists(tb, t)
  THEN [tb EXCEPT ![t].status = "running", ![t].cid = c] ELSE tb

MarkCompleted(tb, t, path) ==
  IF Exists(tb, t)
  THEN [tb EXCEPT ![t].status = "completed", ![t].path = path] ELSE tb

Deleted(tb, t) == [tb EXCEPT ![t] = NoRow]

==============================================================================
