-------------------------------- MODULE TaskApi --------------------------------
(***************************************************************************)
(* The HTTP handlers that change tasks (internal/server/task.go) with the  *)
(* service methods they call (SaveInput, CreateTask, StopTask, DeleteTask  *)
(* of internal/service/task.go).  Every handler runs in its own goroutine; *)
(* a step is one call to the database, docker, the object store or the     *)
(* workspace.  A nil dereference in a handler is recovered by net/http.    *)
(*                                                                         *)
(* At most one stop and one delete of a task are in flight at a time, and  *)
(* a behaviour has at most MaxStops and MaxDeletes of them.                *)
(***************************************************************************)
EXTENDS Platform

CONSTANTS
  MaxStops,     \* bound: stop requests
  MaxDeletes    \* bound: delete requests

ASSUME ApiAssumption == MaxStops \in Nat /\ MaxDeletes \in Nat

VARIABLES
  run,        \* run[t]: the request that t is the UUID of
  stop,       \* stop[t]: the stop request for t, with the container id it read
  del,        \* del[t]: the delete request for t
  requests    \* stop and delete requests so far

apiVars == <<run, stop, del, requests>>

(* new: not sent yet.  image, cache, insert, hit, undo: before the call of  *)
(* the same name in CreateTask; undo is its deferred cleanup.  over: done.  *)
RunPCs == {"new", "image", "cache", "insert", "hit", "undo", "over"}

ApiTypeOK ==
  /\ run \in [Tasks -> [pc : RunPCs, path : Paths \cup {NoPath}]]
  /\ stop \in [Tasks -> [pc : {"none", "read", "mark", "stop"},
                         cid : Conts \cup {NoCont}]]
  /\ del \in [Tasks -> {"none", "read", "artifacts", "workspace", "row"}]
  /\ requests \in [stops : 0 .. MaxStops, deletes : 0 .. MaxDeletes]

NewRun == [pc |-> "new", path |-> NoPath]
RunOver == [pc |-> "over", path |-> NoPath]
NoStop == [pc |-> "none", cid |-> NoCont]

ApiInit ==
  /\ run = [t \in Tasks |-> NewRun]
  /\ stop = [t \in Tasks |-> NoStop]
  /\ del = [t \in Tasks |-> "none"]
  /\ requests = [stops |-> 0, deletes |-> 0]

\* The process ends: requests in flight are gone, and so are their UUIDs.
ApiReset ==
  /\ run' = [t \in Tasks |-> IF run[t].pc = "new" THEN NewRun ELSE RunOver]
  /\ stop' = [t \in Tasks |-> NoStop]
  /\ del' = [t \in Tasks |-> "none"]
  /\ UNCHANGED requests

InFlight == {t \in Tasks : \/ run[t].pc \notin {"new", "over"}
                           \/ stop[t].pc # "none" \/ del[t] # "none"}

Serving == phase = "serving"

-----------------------------------------------------------------------------
(* POST /task/run *)

RunAt(t, pc) == Up /\ run[t].pc = pc

RunGoto(t, pc) == run' = [run EXCEPT ![t].pc = pc]

RunEnds(t) == run' = [run EXCEPT ![t] = RunOver]

\* The file part: Prepare and SaveInput.  The rest of the body may be missing
\* or broken, or the copy may fail: the handler returns, the directory stays.
SaveInput(t) ==
  /\ Serving /\ run[t].pc = "new"
  /\ ws' = [ws EXCEPT ![t] = {"input"}]
  /\ RunGoto(t, "image") \/ RunEnds(t)
  /\ UNCHANGED <<rows, inserts, conts, store, clock, faults, phase, stop, del, requests>>

\* GetImageByID: no such model, or an error.
FindImage(t) ==
  /\ RunAt(t, "image")
  /\ RunGoto(t, "cache") \/ RunGoto(t, "undo")
  /\ UNCHANGED <<platformVars, stop, del, requests>>

\* A lookup that fails is logged and taken for a miss.
FindCached(t) ==
  /\ RunAt(t, "cache")
  /\ \/ /\ Answered
        /\ \E p \in CachedPaths(rows, Sig[t]) :
             run' = [run EXCEPT ![t].pc = "insert", ![t].path = p]
     \/ Fault /\ RunGoto(t, "insert")
  /\ UNCHANGED <<rows, inserts, conts, ws, store, clock, phase, stop, del, requests>>

FirstStatus(t) ==
  IF run[t].path # NoPath THEN "completed"
  ELSE IF ScheduledAt[t] # NoTime /\ ScheduledAt[t] > clock THEN "scheduled"
  ELSE "queued"

\* The INSERT may take effect although the handler sees an error; it then
\* removes the directory of a task that is in the table.
Inserted(t) ==
  /\ rows' = Insert(rows, t, FirstStatus(t), run[t].path, inserts + 1)
  /\ inserts' = inserts + 1

InsertRow(t) ==
  /\ RunAt(t, "insert")
  /\ \/ /\ Answered /\ Inserted(t)
        /\ IF run[t].path # NoPath THEN RunGoto(t, "hit") ELSE RunEnds(t)
     \/ /\ Fault /\ RunGoto(t, "undo")
        /\ Inserted(t) \/ UNCHANGED <<rows, inserts>>
  /\ UNCHANGED <<conts, ws, store, clock, phase, stop, del, requests>>

\* cleanupWorkspace: after a cache hit, or in the deferred function.
RunCleanup(t) ==
  /\ RunAt(t, "hit") \/ RunAt(t, "undo")
  /\ Cleaned(t)
  /\ RunEnds(t)
  /\ UNCHANGED <<rows, inserts, conts, store, clock, phase, stop, del, requests>>

-----------------------------------------------------------------------------
(* POST /task/{id}/stop *)

StopAt(t, pc) == Up /\ stop[t].pc = pc

StopEnds(t) == stop' = [stop EXCEPT ![t] = NoStop]

\* Only a client that has been given the id, or once had it, asks.
StopRequest(t) ==
  /\ Serving /\ stop[t].pc = "none" /\ requests.stops < MaxStops /\ run[t].pc = "over"
  /\ stop' = [stop EXCEPT ![t].pc = "read"]
  /\ requests' = [requests EXCEPT !.stops = @ + 1]
  /\ UNCHANGED <<platformVars, run, del>>

\* GetTaskById; the status is not looked at.  Without a row the handler
\* panics, without a container id it returns an error.
StopRead(t) ==
  /\ StopAt(t, "read")
  /\ \/ /\ Answered /\ rows[t].cid # NoCont
        /\ stop' = [stop EXCEPT ![t] = [pc |-> "mark", cid |-> rows[t].cid]]
     \/ (Answered /\ rows[t].cid = NoCont) /\ StopEnds(t)
     \/ Fault /\ StopEnds(t)
  /\ UNCHANGED <<rows, inserts, conts, ws, store, clock, phase, run, del, requests>>

StopMark(t) ==
  /\ StopAt(t, "mark")
  /\ \/ /\ Answered /\ rows' = MarkStopped(rows, t)
        /\ IF Exists(rows, t) THEN stop' = [stop EXCEPT ![t].pc = "stop"] ELSE StopEnds(t)
     \/ Fault /\ rows' \in {rows, MarkStopped(rows, t)} /\ StopEnds(t)
  /\ UNCHANGED <<inserts, conts, ws, store, clock, phase, run, del, requests>>

StopCont(t) ==
  /\ StopAt(t, "stop")
  /\ \/ Answered /\ Stopped(stop[t].cid)
     \/ Fault /\ UNCHANGED <<conts, ws>>
  /\ StopEnds(t)
  /\ UNCHANGED <<rows, inserts, store, clock, phase, run, del, requests>>

-----------------------------------------------------------------------------
(* DELETE /task/{id} *)

DelAt(t, pc) == Up /\ del[t] = pc

DelGoto(t, pc) == del' = [del EXCEPT ![t] = pc]

DeleteRequest(t) ==
  /\ Serving /\ del[t] = "none" /\ requests.deletes < MaxDeletes /\ run[t].pc = "over"
  /\ DelGoto(t, "read")
  /\ requests' = [requests EXCEPT !.deletes = @ + 1]
  /\ UNCHANGED <<platformVars, run, stop>>

\* "cannot delete running task, need to stop it first"
DeleteRead(t) ==
  /\ DelAt(t, "read")
  /\ \/ /\ Answered
        /\ DelGoto(t, IF rows[t].status \in {"absent", "running"}
                      THEN "none" ELSE "artifacts")
     \/ Fault /\ DelGoto(t, "none")
  /\ UNCHANGED <<rows, inserts, conts, ws, store, clock, phase, run, stop, requests>>

DeleteArtifacts(t) ==
  /\ DelAt(t, "artifacts")
  /\ \/ Answered /\ store' = [store EXCEPT ![t] = {}] /\ DelGoto(t, "workspace")
     \/ Fault /\ store' \in {store, [store EXCEPT ![t] = {}]} /\ DelGoto(t, "none")
  /\ UNCHANGED <<rows, inserts, conts, ws, clock, phase, run, stop, requests>>

DeleteWorkspace(t) ==
  /\ DelAt(t, "workspace")
  /\ \/ Answered /\ ws' = [ws EXCEPT ![t] = {}] /\ DelGoto(t, "row")
     \/ Fault /\ UNCHANGED ws /\ DelGoto(t, "none")
  /\ UNCHANGED <<rows, inserts, conts, store, clock, phase, run, stop, requests>>

DeleteRow(t) ==
  /\ DelAt(t, "row")
  /\ \/ Answered /\ rows' = Deleted(rows, t)
     \/ Fault /\ rows' \in {rows, Deleted(rows, t)}
  /\ DelGoto(t, "none")
  /\ UNCHANGED <<inserts, conts, ws, store, clock, phase, run, stop, requests>>

-----------------------------------------------------------------------------

RunStep(t) ==
  SaveInput(t) \/ FindImage(t) \/ FindCached(t) \/ InsertRow(t) \/ RunCleanup(t)
StopStep(t) ==
  StopRead(t) \/ StopMark(t) \/ StopCont(t)
DeleteStep(t) ==
  DeleteRead(t) \/ DeleteArtifacts(t) \/ DeleteWorkspace(t) \/ DeleteRow(t)

ApiNext ==
  \E t \in Tasks : \/ RunStep(t) \/ StopStep(t) \/ DeleteStep(t)
                   \/ StopRequest(t) \/ DeleteRequest(t)

==============================================================================
