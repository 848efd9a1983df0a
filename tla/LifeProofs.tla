------------------------------ MODULE LifeProofs ------------------------------
(***************************************************************************)
(* What holds in the life of one process, up to its first end, for every   *)
(* set of tasks, containers and goroutines: a completed task names a       *)
(* complete result that is there, a finished task is not made active again,*)
(* and, as long as no call failed and no shutdown has begun, a running task*)
(* has a goroutine and a running container is somebody's.                  *)
(*                                                                         *)
(* In that time a task is claimed once: until then it has no container, so *)
(* no container id a stop request could have read (Clean).  From the start *)
(* of its container on, that container is the only one of the task, and an *)
(* unfinished result can only come from it (ResultFits): either it was     *)
(* stopped, and then the row says so before the goroutine looks again, or  *)
(* it failed, and then the goroutine does not look at all.                 *)
(***************************************************************************)
EXTENDS ContainerProofs

\* Nobody has been given t to run yet.
Waiting(t) ==
  Pending(t) \/ rows[t].status \in {"queued", "scheduled"} \/ InHand(t)

\* There is and was no container for t.
Clean(t) ==
  /\ rows[t].cid = NoCont /\ rows[t].status # "stopped"
  /\ \A c \in Conts : ~Started(c, t)
  /\ "partial" \notin ws[t]

\* p names a complete result, which is there unless its task is being deleted.
Served(p) ==
  \E o \in Tasks : p = <<o, "full">> /\ ("full" \in store[o] \/ o \in deletions)

\* c cannot be found to have ended well any more.
NoResult(c) == c \in Conts /\ conts[c].st \notin {"unused", "running", "exited0"}

\* The results in the directory of t are those of a program that ended well, or
\* the goroutine g will not take them.
ResultFits(g, t) ==
  "partial" \in ws[t] =>
    /\ gor[g].pc \notin {"upload", "complete"}
    /\ gor[g].pc = "recheck" => rows[t].status \in {"stopped", "absent"}
    /\ gor[g].pc \in {"markrun", "wait"} =>
         rows[t].status \in {"stopped", "absent"} \/ NoResult(gor[g].cid)

\* g runs t.
AtWork(g, t) ==
  /\ gor[g].pc \in {"check", "start"} => Clean(t)
  /\ gor[g].pc = "markrun" => rows[t].cid = NoCont /\ rows[t].status # "stopped"
  /\ gor[g].pc \in WatchPCs \cup {"markrun"} =>
       \A c \in Conts : Started(c, t) => c = gor[g].cid
  /\ ResultFits(g, t)
  /\ gor[g].pc = "complete" => Served(gor[g].path)
  /\ gor[g].expired => t \in TimedTasks

\* A stop request has the id of a container only after the mark "running", and stops
\* it after its own mark.
StopAsked(t) ==
  /\ stop[t].pc \in {"mark", "stop"} => rows[t].status = "absent" \/ rows[t].cid # NoCont
  /\ stop[t].pc = "stop" => rows[t].status \in {"stopped", "absent"} \/ Quiet(stop[t].cid)

LifeFits(t) ==
  /\ Waiting(t) => Clean(t)
  /\ \A g \in Goroutines : Runs(g, t) => AtWork(g, t)
  /\ StopAsked(t)
  /\ InHands(t) => rows[t].status # "absent" \/ t \in deletions
  /\ rows[t].status = "completed" => Served(rows[t].path)
  /\ run[t].path # NoPath => Served(run[t].path)

\* The collector finds nothing.
NoRecovery ==
  /\ recoverQ = <<>>
  /\ \A t \in Tasks : rescue[t].pc = "idle"
  /\ \A g \in Goroutines : gor[g].kind = "claimed"
  /\ phase \in {"down", "gc"} => \A t \in Tasks : run[t].pc = "new"

AllWell == faults = 0 /\ phase # "closing"

\* After the body of processTask the container does not run any more.
Left(g) ==
  /\ gor[g].pc \in DeferredPCs \cup {"marks"} /\ gor[g].cid # NoCont
  /\ gor[g].task \notin TimedTasks \cup deletions
  => Quiet(gor[g].cid)

Agents ==
  /\ \A t \in Tasks : rows[t].status = "running" => InHands(t)
  /\ \A g \in Goroutines : Left(g)
  /\ \A c \in Conts : conts[c].st = "running" /\ conts[c].task \notin TimedTasks \cup deletions
       => \E g \in Goroutines : gor[g].pc # "idle" /\ gor[g].cid = c

FirstLife ==
  /\ NoRecovery
  /\ \A t \in Tasks : LifeFits(t)
  /\ worker.pc = "cached" => Served(worker.path)
  /\ AllWell => Agents

\* The inductive invariant.
LifeInv == ContInv /\ (~restarted => FirstLife)

-----------------------------------------------------------------------------
(* What a step does to the store and the containers *)

\* A complete result goes only when its task is being deleted.
StoreMoves ==
  \A o \in Tasks : "full" \in store[o] => "full" \in store'[o] \/ o \in deletions'

NoneStarted == \A c \in Conts : conts[c].st = "unused" => conts'[c].st = "unused"

\* No unfinished result is left in the directory of u.
ResultKept(u) == "partial" \in ws'[u] => "partial" \in ws[u]

\* A finished task is not made active.
NoneRevived ==
  \A t \in Tasks : rows[t].status \in Terminal => rows'[t].status \in Terminal \cup {"absent"}

\* The assumptions about a step, other than the end of a process, in the first life.
Lives == LifeInv /\ FirstLife /\ Moves /\ StoreMoves

\* The store loses a result only to DeleteArtifacts (minio.go:62).
LEMMA NextMovesStore ==
  ASSUME SlotInv, Next
  PROVE  StoreMoves
<1>1. store \in [Tasks -> SUBSET Files]
  BY DEF SlotInv, TypeOK, PlatformTypeOK
<1>2. UNCHANGED store \/ (\E t \in Tasks : \E f : store' = [store EXCEPT ![t] = @ \cup {f}])
        => StoreMoves
  BY <1>1 DEF StoreMoves
<1>3. CASE WorkerPart
  <2>1. UNCHANGED store \/ (\E t \in Tasks : \E f : store' = [store EXCEPT ![t] = @ \cup {f}])
    <3>1. LoopNext \/ (\E g \in Goroutines : Expire(g)) => UNCHANGED store
      BY DEF LoopNext, Tick, NoSlot, TakeSlot, Claim, LookupHit, MarkCached, Drain,
             FillSlot, Drained, TakeRecovered, StartTask, Expire, platformVars
    <3>2. ASSUME NEW g \in Goroutines, Step(g), ~Upload(g) PROVE UNCHANGED store
      BY <3>2 DEF Step, Check, Start, StartFails, StartCutShort, MarkRun, Wait, StopExpired,
             MarkExpired, Recheck, Complete, RemoveCont, MarkFail, Finish
    <3>3. ASSUME NEW g \in Goroutines, Upload(g)
          PROVE  \/ UNCHANGED store
                 \/ \E t \in Tasks : \E f : store' = [store EXCEPT ![t] = @ \cup {f}]
      <4>1. gor[g].task \in Tasks
        BY <3>3 DEF SlotInv, Handles, GoroutinesOK, Upload, At
      <4> QED
        BY <3>3, <4>1 DEF Upload
    <3> QED
      BY <1>3, <3>1, <3>2, <3>3 DEF WorkerPart, WorkerNext
  <2> QED
    BY <1>2, <2>1
<1>4. CASE GcPart
  <2>1. UNCHANGED store \/ (\E t \in Tasks : \E f : store' = [store EXCEPT ![t] = @ \cup {f}])
    BY <1>4 DEF GcPart, GcNext, ListRunning, ListConts, ListActive, Swept, GcOver, SweepOne,
                RescueStep, RescueExists, RescueGone, RescueState, RescueRemove, RescueRedo,
                RescueUpload, RescueComplete, RescueCleanup, platformVars
  <2> QED
    BY <1>2, <2>1
<1>5. CASE ApiPart
  <2>1. \/ UNCHANGED store
        \/ \E t \in Tasks : DeleteArtifacts(t)
    BY <1>5 DEF ApiPart, ApiNext, RunStep, StopStep, DeleteStep, SaveInput, FindImage,
                FindCached, InsertRow, RunCleanup, StopRead, StopMark, StopCont, DeleteRead,
                DeleteWorkspace, DeleteRow, StopRequest, DeleteRequest, platformVars
  <2>2. ASSUME NEW t \in Tasks, DeleteArtifacts(t) PROVE StoreMoves
    <3>1. /\ del[t] = "artifacts" /\ del'[t] # "artifacts"
          /\ store' \in {store, [store EXCEPT ![t] = {}]}
      BY <2>2 DEF DeleteArtifacts, DelAt, DelGoto, SlotInv, TypeOK, ApiTypeOK
    <3>2. t \in deletions'
      BY <1>5, <3>1 DEF ApiPart, ApiFrame
    <3> QED
      BY <1>1, <3>1, <3>2 DEF StoreMoves
  <2> QED
    BY <1>2, <2>1, <2>2
<1>6. SchedPart \/ Process \/ EnvPart => UNCHANGED store
  BY DEF SchedPart, SchedNext, ReadUpcoming, Register, Fire, Enqueue, Process, ProcessEnds,
         Boot, Crash, Abort, Terminate, Exit, ExitEarly, EnvPart, Environment, ClockTick,
         ContainerExit, platformVars
<1> QED
  BY <1>2, <1>3, <1>4, <1>5, <1>6 DEF Next

\* A result that is there stays so, or its task is deleted.
LEMMA ServedKept ==
  ASSUME StoreMoves, deletions \subseteq deletions', NEW p, Served(p)
  PROVE  \E o \in Tasks : p = <<o, "full">> /\ ("full" \in store'[o] \/ o \in deletions')
  BY DEF Served, StoreMoves

-----------------------------------------------------------------------------
(* A task whose goroutine and container are left alone *)

\* What may become of the row of u: nothing; it is deleted; it is marked stopped, by
\* somebody who has the id of its container; or whoever has it in hand writes it.
RowGoes(u) ==
  \/ rows'[u] = rows[u]
  \/ rows'[u] = NoRow /\ u \in deletions'
  \/ rows[u].cid # NoCont /\ rows'[u].cid = rows[u].cid /\ rows'[u].status = "stopped"
  \/ /\ Waiting(u) /\ \A g \in Goroutines : ~Runs(g, u)'
     /\ rows[u].status = "absent" => stop[u].pc = "none"
     /\ rows'[u].cid = NoCont
     /\ rows'[u].status \in {"scheduled", "queued", "running", "completed"}
     /\ rows'[u].status = "completed" => Served(rows[u].path)'

\* The goroutine g has u as before, or has just been given it.
RunGoes(g, u) ==
  \/ /\ Runs(g, u) /\ gor'[g].pc = gor[g].pc
     /\ gor'[g].cid = gor[g].cid /\ gor'[g].path = gor[g].path
     /\ gor'[g].expired => gor[g].expired \/ u \in TimedTasks
  \/ /\ Waiting(u) /\ rows'[u] = rows[u]
     /\ gor'[g].pc = "check" /\ ~gor'[g].expired

LifeMoves(u) ==
  /\ RowGoes(u)
  /\ \A g \in Goroutines : Runs(g, u)' => RunGoes(g, u)
  /\ InHand(u)' \/ Pending(u)' => Waiting(u)
  /\ InHands(u)' => InHands(u) \/ rows'[u].status # "absent"
  /\ stop'[u] = stop[u] \/ StopAsked(u)'
  /\ run'[u].path = run[u].path \/ (run'[u].path # NoPath => Served(run[u].path)')
  /\ ResultKept(u)
  /\ \A c \in Conts : Started(c, u)' => Started(c, u)

\* What the row of a task that waits says.
LEMMA WaitingRow ==
  ASSUME NEW u \in Tasks, RowFits(u), LifeFits(u), Waiting(u)
  PROVE  /\ rows[u].status \in {"absent", "scheduled", "queued", "running"}
         /\ Clean(u)
<1>1. Clean(u)
  BY DEF LifeFits
<1>2. rows[u].status \in {"absent", "scheduled", "queued", "running"}
  BY <1>1 DEF RowFits, Waiting, Clean, Open, NoRow
<1> QED
  BY <1>1, <1>2

\* While a goroutine runs a task, it does not wait.
LEMMA RunsNotWaiting ==
  ASSUME NEW u \in Tasks, RowFits(u), OneHand(u), NEW g \in Goroutines, Runs(g, u)
  PROVE  ~Waiting(u) /\ rows[u].status \in Over
<1>1. rows[u].status \in Over
  BY DEF RowFits, Over
<1> QED
  BY <1>1 DEF RowFits, OneHand, Waiting, InHands, Over, Open

\* A container that cannot be found to have ended well never will be.
LEMMA NoResultKept ==
  ASSUME ContsMove, NEW c, NoResult(c)
  PROVE  NoResult(c)'
BY DEF ContsMove, NoResult

\* The goroutine of u goes on with its part of the invariant.
LEMMA AtWorkKept ==
  ASSUME Lives, NEW u \in Tasks, LifeMoves(u), NEW g \in Goroutines, Runs(g, u)'
  PROVE  AtWork(g, u)'
<1>1. /\ LifeFits(u) /\ RowFits(u) /\ OneHand(u) /\ ContsMove /\ StoreMoves
      /\ deletions \subseteq deletions'
  BY DEF Lives, LifeInv, FirstLife, ContInv, OwnInv, Ownership, Owned, Moves
<1>2. ASSUME Waiting(u), rows'[u] = rows[u], gor'[g].pc = "check", ~gor'[g].expired
      PROVE  AtWork(g, u)'
  <2>1. Clean(u)
    BY <1>1, <1>2 DEF LifeFits
  <2>2. Clean(u)'
    BY <1>2, <2>1 DEF Clean, LifeMoves, ResultKept
  <2> QED
    BY <1>2, <2>2 DEF AtWork, ResultFits, WatchPCs
<1>3. ASSUME Runs(g, u), gor'[g].pc = gor[g].pc, gor'[g].cid = gor[g].cid,
             gor'[g].path = gor[g].path, gor'[g].expired => gor[g].expired \/ u \in TimedTasks
      PROVE  AtWork(g, u)'
  <2>1. AtWork(g, u) /\ ~Waiting(u)
    BY <1>1, <1>3, RunsNotWaiting DEF LifeFits
  <2>2. \/ rows'[u] = rows[u]
        \/ rows'[u].status = "absent" /\ rows'[u].cid = NoCont
        \/ rows[u].cid # NoCont /\ rows'[u].status = "stopped"
    BY <2>1 DEF LifeMoves, RowGoes, NoRow
  <2>3. gor[g].pc \in {"check", "start"} => Clean(u)'
    BY <2>1, <2>2 DEF AtWork, Clean, LifeMoves, ResultKept
  <2>4. gor[g].pc = "markrun" => rows'[u].cid = NoCont /\ rows'[u].status # "stopped"
    BY <2>1, <2>2 DEF AtWork
  <2>5. gor[g].pc \in WatchPCs \cup {"markrun"} =>
          \A c \in Conts : Started(c, u)' => c = gor[g].cid
    BY <2>1 DEF AtWork, LifeMoves
  <2>6. ResultFits(g, u)'
    <3>1. NoResult(gor[g].cid) => NoResult(gor[g].cid)'
      BY <1>1, <1>3, NoResultKept DEF NoResult
    <3> QED
      BY <1>3, <2>1, <2>2, <3>1 DEF AtWork, ResultFits, LifeMoves, ResultKept
  <2>7. gor[g].pc = "complete" => Served(gor[g].path)'
    BY <1>1, <1>3, <2>1, ServedKept DEF AtWork, Served
  <2> QED
    BY <1>3, <2>1, <2>3, <2>4, <2>5, <2>6, <2>7 DEF AtWork
<1> QED
  BY <1>2, <1>3 DEF LifeMoves, RunGoes

\* So does the task.
LEMMA LifeKept ==
  ASSUME Lives, NEW u \in Tasks, LifeMoves(u)
  PROVE  /\ LifeFits(u)'
         /\ rows[u].status \in Terminal => rows'[u].status \in Terminal \cup {"absent"}
<1>1. /\ LifeFits(u) /\ RowFits(u) /\ OneHand(u) /\ ContsMove /\ StoreMoves
      /\ deletions \subseteq deletions' /\ CidFits(u)
  BY DEF Lives, LifeInv, FirstLife, ContInv, OwnInv, Ownership, Owned, Moves, Containers,
         ContFits
<1>2. Waiting(u)' => Clean(u)'
  <2>1. ASSUME Waiting(u)' PROVE Waiting(u)
    <3>1. CASE InHand(u)' \/ Pending(u)'
      BY <3>1 DEF LifeMoves
    <3>2. CASE rows'[u].status \in {"queued", "scheduled"}
      BY <3>2 DEF LifeMoves, RowGoes, Waiting, NoRow
    <3> QED
      BY <2>1, <3>1, <3>2 DEF Waiting
  <2>2. ASSUME Waiting(u) PROVE Clean(u)'
    <3>1. Clean(u)
      BY <1>1, <2>2 DEF LifeFits
    <3>2. rows'[u].cid = NoCont /\ rows'[u].status # "stopped"
      BY <3>1 DEF LifeMoves, RowGoes, Clean, NoRow
    <3> QED
      BY <3>1, <3>2 DEF Clean, LifeMoves, ResultKept
  <2> QED
    BY <2>1, <2>2
<1>3. \A g \in Goroutines : Runs(g, u)' => AtWork(g, u)'
  BY AtWorkKept
<1>4. StopAsked(u)'
  <2>1. ASSUME stop'[u] = stop[u], rows'[u] = rows[u] PROVE StopAsked(u)'
    <3>1. Quiet(stop[u].cid) => Quiet(stop[u].cid)'
      BY <1>1, <2>1, StartedKept DEF Quiet
    <3> QED
      BY <1>1, <2>1, <3>1 DEF LifeFits, StopAsked
  <2>2. CASE rows'[u].status = "absent"
    BY <2>2 DEF StopAsked
  <2>3. CASE rows[u].cid # NoCont /\ rows'[u].cid = rows[u].cid /\ rows'[u].status = "stopped"
    BY <2>3 DEF StopAsked
  <2>4. ASSUME stop'[u] = stop[u], Waiting(u), rows[u].status = "absent" => stop[u].pc = "none"
        PROVE  StopAsked(u)'
    <3>1. Clean(u)
      BY <1>1, <2>4 DEF LifeFits
    <3>2. stop[u].pc \in {"mark", "stop"} => rows[u].status = "absent"
      BY <1>1, <3>1 DEF LifeFits, StopAsked, Clean
    <3>3. CASE stop[u].pc \notin {"mark", "stop"}
      BY <2>4, <3>3 DEF StopAsked
    <3> QED
      BY <2>4, <3>2, <3>3
  <2> QED
    BY <2>1, <2>2, <2>3, <2>4 DEF LifeMoves, RowGoes, NoRow
<1>5. InHands(u)' => rows'[u].status # "absent" \/ u \in deletions'
  BY <1>1 DEF LifeMoves, RowGoes, LifeFits, NoRow
<1>6. rows'[u].status = "completed" => Served(rows[u].path)'
  <2>1. CASE rows'[u] = rows[u]
    BY <1>1, <2>1, ServedKept DEF LifeFits, Served
  <2> QED
    BY <2>1 DEF LifeMoves, RowGoes, NoRow
<1>7. run'[u].path # NoPath => Served(run[u].path)'
  BY <1>1, ServedKept DEF LifeFits, LifeMoves, Served
<1>8. rows[u].status \in Terminal => rows'[u].status \in Terminal \cup {"absent"}
  BY <1>1, WaitingRow DEF LifeMoves, RowGoes, Terminal, NoRow
<1> QED
  BY <1>2, <1>3, <1>4, <1>5, <1>6, <1>7, <1>8 DEF LifeFits

-----------------------------------------------------------------------------
(* All tasks together *)

\* The goroutines that are at work go on, others may be started.
GorStill ==
  \A g \in Goroutines :
    IF gor[g].pc = "idle" THEN gor'[g].pc = "idle" \/ gor'[g].cid = NoCont
    ELSE /\ gor'[g].pc = gor[g].pc /\ gor'[g].cid = gor[g].cid
         /\ gor'[g].task = gor[g].task

\* Who is at work goes on.
LEMMA AgentsKept ==
  ASSUME Lives, NoneStarted, GorStill, AllWell => Agents, AllWell' => AllWell,
         AllWell' => \A t \in Tasks : rows'[t].status = "running" => InHands(t)'
  PROVE  AllWell' => Agents'
<1> SUFFICES ASSUME AllWell' PROVE Agents'
  OBVIOUS
<1>1. Agents /\ ContsMove /\ deletions \subseteq deletions'
  BY DEF Lives, Moves
<1>2. ASSUME NEW g \in Goroutines PROVE Left(g)'
  <2>1. Quiet(gor[g].cid) /\ gor'[g].cid = gor[g].cid => Quiet(gor[g].cid)'
    BY <1>1, StartedKept DEF Quiet
  <2>2. Left(g)
    BY <1>1 DEF Agents
  <2> QED
    BY <1>1, <2>1, <2>2 DEF Left, GorStill, DeferredPCs
<1>3. ASSUME NEW c \in Conts, conts'[c].st = "running",
             conts'[c].task \notin TimedTasks \cup deletions'
      PROVE  \E g \in Goroutines : gor'[g].pc # "idle" /\ gor'[g].cid = c
  <2>1. conts[c].st = "running" /\ conts[c].task = conts'[c].task
    BY <1>1, <1>3 DEF NoneStarted, ContsMove
  <2>2. PICK g \in Goroutines : gor[g].pc # "idle" /\ gor[g].cid = c
    BY <1>1, <1>3, <2>1 DEF Agents
  <2> QED
    BY <2>2 DEF GorStill
<1> QED
  BY <1>2, <1>3 DEF Agents

\* The collector goes on finding nothing.
LEMMA NoRecoveryKept ==
  ASSUME Lives, UNCHANGED recoverQ, \A t \in Tasks : rescue'[t].pc = "idle",
         \A g \in Goroutines : gor'[g].kind \in {gor[g].kind, "claimed"},
         UNCHANGED run \/ Up
  PROVE  NoRecovery'
<1>1. UNCHANGED run \/ phase' \notin {"down", "gc"}
  BY DEF Lives, Moves, Up
<1>2. phase' \in {"down", "gc"} => \A t \in Tasks : run'[t].pc = "new"
  BY <1>1 DEF Lives, Moves, FirstLife, NoRecovery
<1> QED
  BY <1>2 DEF Lives, FirstLife, NoRecovery

\* What has to be shown of a step.
LEMMA LifeStep ==
  ASSUME Lives, NoRecovery', worker'.pc = "cached" => Served(worker.path)',
         AllWell' => Agents',
         \A u \in Tasks :
           \/ LifeMoves(u)
           \/ /\ LifeFits(u)'
              /\ rows[u].status \in Terminal => rows'[u].status \in Terminal \cup {"absent"}
  PROVE  FirstLife' /\ NoneRevived
BY LifeKept DEF FirstLife, NoneRevived

\* A step of anybody but the loop and the goroutines leaves the hands as they are.
LEMMA HandsOff ==
  ASSUME Lives, UNCHANGED <<worker, recoverQ, gor>>, NoneStarted, NEW u \in Tasks,
         RowGoes(u), Pending(u)' => Waiting(u),
         stop'[u] = stop[u] \/ StopAsked(u)',
         run'[u].path = run[u].path \/ (run'[u].path # NoPath => Served(run[u].path)'),
         ResultKept(u)
  PROVE  LifeMoves(u)
<1>1. ContsMove
  BY DEF Lives, Moves
<1>2. \A c \in Conts : Started(c, u)' => Started(c, u)
  BY <1>1 DEF ContsMove, NoneStarted, Started
<1>3. \A g \in Goroutines : Runs(g, u)' => RunGoes(g, u)
  BY DEF Runs, RunGoes
<1>4. InHand(u)' => Waiting(u)
  BY HandsKept DEF Waiting
<1>5. InHands(u)' => InHands(u)
  BY HandsKept
<1> QED
  BY <1>2, <1>3, <1>4, <1>5 DEF LifeMoves

\* The worker loop's answer to a cache lookup stays good.
LEMMA PathKept ==
  ASSUME Lives, worker' = worker
  PROVE  worker'.pc = "cached" => Served(worker.path)'
BY ServedKept DEF Lives, FirstLife, Moves, Served

\* A step of anybody but the loop and the goroutines.
LEMMA OutsideLife ==
  ASSUME Lives, UNCHANGED <<worker, recoverQ, gor>>, NoneStarted,
         \A t \in Tasks : rescue'[t].pc = "idle", UNCHANGED run \/ Up, AllWell' => AllWell,
         \A t \in Tasks : rows'[t].status = "running" => rows[t].status = "running",
         \A u \in Tasks :
           \/ LifeMoves(u)
           \/ /\ LifeFits(u)'
              /\ rows[u].status \in Terminal => rows'[u].status \in Terminal \cup {"absent"}
  PROVE  FirstLife' /\ NoneRevived
<1>1. NoRecovery'
  BY NoRecoveryKept
<1>2. AllWell' => Agents'
  <2>1. AllWell => Agents
    BY DEF Lives, FirstLife
  <2>2. GorStill
    BY DEF GorStill
  <2>3. AllWell' => \A t \in Tasks : rows'[t].status = "running" => InHands(t)'
    BY <2>1, HandsKept DEF Agents
  <2> QED
    BY <2>1, <2>2, <2>3, AgentsKept
<1> QED
  BY <1>1, <1>2, PathKept, LifeStep

-----------------------------------------------------------------------------
(* Programs, the clock and the process *)

\* A program that ends by itself with an error leaves an unfinished result; the only
\* goroutine that waits for it does not take it (task.go:487).
LEMMA ExitLife ==
  ASSUME Lives, EnvFrame, NEW c \in Conts, ContainerExit(c)
  PROVE  FirstLife' /\ NoneRevived
<1>1. /\ PlatformTypeOK /\ ContsMove /\ FirstLife
      /\ \A t \in Tasks : LifeFits(t) /\ CidFits(t) /\ Owned(t)
      /\ \A g \in Goroutines : GorCid(g)
  BY DEF Lives, LifeInv, FirstLife, ContInv, OwnInv, SlotInv, TypeOK, Ownership, Containers,
         ContFits, Moves
<1>2. PICK end \in {<<"exited0", {"full"}>>, <<"exited0", {}>>,
                    <<"failed", {}>>, <<"failed", {"partial"}>>} :
        /\ conts' = SetState(c, end[1])
        /\ ws' = [ws EXCEPT ![conts[c].task] = Wrote(@, end[2])]
  BY DEF ContainerExit
<1>3. /\ UNCHANGED <<rows, phase, faults, worker, recoverQ, gor, rescue, run, stop, deletions, store>>
      /\ conts[c].st = "running"
  BY DEF ContainerExit, EnvFrame, workerVars, gcVars, apiVars, histVars
<1>4. NoneStarted /\ conts'[c].st = end[1] /\ (\A d \in Conts \ {c} : conts'[d] = conts[d])
  BY <1>1, <1>2, <1>3 DEF PlatformTypeOK, SetState, NoneStarted
<1>5. ASSUME NEW u \in Tasks PROVE LifeMoves(u) \/ (LifeFits(u)' /\ rows'[u] = rows[u])
  <2>1. CASE ResultKept(u)
    BY <1>3, <1>4, <2>1, HandsOff DEF RowGoes, Waiting, Pending
  <2>2. CASE ~ResultKept(u)
    <3>1. /\ conts[c].task = u /\ end[1] = "failed" /\ ws'[u] # {}
      BY <1>1, <1>2, <2>2 DEF PlatformTypeOK, ResultKept, Wrote
    <3>2. Started(c, u)
      BY <1>3, <3>1 DEF Started
    <3>3. ~Waiting(u)
      BY <1>1, <3>2 DEF LifeFits, Clean
    <3>4. ~Waiting(u)'
      BY <1>3, <3>3, HandsKept DEF Waiting, Pending
    <3>5. ASSUME NEW g \in Goroutines, Runs(g, u) PROVE AtWork(g, u)'
      <4>1. AtWork(g, u) /\ gor' = gor
        BY <1>1, <1>3, <3>5 DEF LifeFits
      <4>2. gor[g].pc \notin {"check", "start"}
        BY <3>2, <4>1 DEF AtWork, Clean
      <4>3. gor[g].pc \in WatchPCs \cup {"markrun"} => c = gor[g].cid
        BY <3>2, <4>1 DEF AtWork
      <4>4. gor[g].pc \notin SavePCs
        <5>1. gor[g].pc \in SavePCs => Quiet(gor[g].cid) /\ c = gor[g].cid
          BY <1>1, <3>5, <4>3 DEF GorCid, Runs, SavePCs, WatchPCs
        <5> QED
          BY <1>3, <5>1 DEF Quiet
      <4>5. NoResult(c)'
        BY <1>4, <3>1 DEF NoResult
      <4>6. \A d \in Conts : Started(d, u)' => Started(d, u)
        BY <1>1, <1>4 DEF ContsMove, NoneStarted, Started
      <4>7. ResultFits(g, u)'
        BY <4>1, <4>3, <4>4, <4>5 DEF ResultFits, SavePCs, WatchPCs, NoResult
      <4>8. gor' = gor /\ rows' = rows
        BY <1>3
      <4>9. gor[g].pc \in WatchPCs \cup {"markrun"} =>
              \A d \in Conts : Started(d, u)' => d = gor[g].cid
        BY <4>1, <4>6 DEF AtWork
      <4> QED
        BY <4>1, <4>2, <4>4, <4>7, <4>8, <4>9 DEF AtWork, SavePCs
    <3>6. StopAsked(u)'
      <4>1. Quiet(stop[u].cid) => Quiet(stop[u].cid)'
        BY <1>1, <1>3, StartedKept DEF Quiet
      <4> QED
        BY <1>1, <1>3, <4>1 DEF LifeFits, StopAsked
    <3>7. (rows[u].status = "completed" => Served(rows[u].path)')
          /\ (run[u].path # NoPath => Served(run[u].path)')
      BY <1>1, <1>3 DEF LifeFits, Served
    <3>8. InHands(u)' => InHands(u)
      BY <1>3, HandsKept
    <3>9. \A g \in Goroutines : Runs(g, u)' => AtWork(g, u)'
      BY <1>3, <3>5 DEF Runs
    <3> QED
      BY <1>1, <1>3, <3>4, <3>6, <3>7, <3>8, <3>9 DEF LifeFits
  <2> QED
    BY <2>1, <2>2
<1>6. \A t \in Tasks : rescue'[t].pc = "idle"
  BY <1>1, <1>3 DEF FirstLife, NoRecovery
<1>7. AllWell' => AllWell
  BY <1>3 DEF AllWell
<1> QED
  BY <1>3, <1>4, <1>5, <1>6, <1>7, OutsideLife

\* Programs and the clock.
LEMMA EnvLife ==
  ASSUME Lives, EnvPart
  PROVE  FirstLife' /\ NoneRevived
<1>1. CASE ClockTick
  <2>1. UNCHANGED <<rows, phase, faults, worker, recoverQ, gor, rescue, run, stop, ws, conts>>
    BY <1>1 DEF EnvPart, ClockTick, EnvFrame, workerVars, gcVars, apiVars
  <2>2. NoneStarted /\ (AllWell' => AllWell) /\ \A t \in Tasks : rescue'[t].pc = "idle"
    BY <2>1 DEF NoneStarted, AllWell, Lives, FirstLife, NoRecovery
  <2>3. \A u \in Tasks : LifeMoves(u)
    BY <2>1, <2>2, HandsOff DEF RowGoes, Waiting, Pending, ResultKept
  <2> QED
    BY <2>1, <2>2, <2>3, OutsideLife
<1> QED
  BY <1>1, ExitLife DEF EnvPart, Environment

\* The start of the process, and the signal to shut down.
LEMMA ProcessLife ==
  ASSUME Lives, Process
  PROVE  (~restarted' => FirstLife') /\ NoneRevived
<1>1. CASE Boot \/ Terminate
  <2>1. UNCHANGED <<rows, faults, worker, recoverQ, gor, rescue, run, stop, ws, conts>>
    BY <1>1 DEF Boot, Terminate, workerVars, gcVars, apiVars
  <2>2. NoneStarted /\ (\A t \in Tasks : rescue'[t].pc = "idle")
    BY <2>1 DEF NoneStarted, Lives, FirstLife, NoRecovery
  <2>3. AllWell' => AllWell
    BY <1>1, <2>1 DEF Boot, Terminate, AllWell
  <2>4. \A u \in Tasks : LifeMoves(u)
    BY <2>1, <2>2, HandsOff DEF RowGoes, Waiting, Pending, ResultKept
  <2> QED
    BY <2>1, <2>2, <2>3, <2>4, OutsideLife
<1>2. CASE ProcessEnds
  BY <1>2 DEF ProcessEnds, NoneRevived
<1> QED
  BY <1>1, <1>2 DEF Process, Crash, Abort, Exit, ExitEarly

-----------------------------------------------------------------------------
(* The collector and the scheduler *)

\* The collector of the first life has nothing to do: no request has been made.
LEMMA GcLife ==
  ASSUME Lives, GcPart
  PROVE  FirstLife' /\ NoneRevived
<1>1. /\ PlatformTypeOK /\ GcTypeOK /\ ContsMove /\ FirstLife /\ NoRecovery
      /\ \A t \in Tasks : Owned(t)
  BY DEF Lives, LifeInv, FirstLife, ContInv, OwnInv, SlotInv, TypeOK, Ownership, Moves
<1>2. phase = "gc"
  BY DEF GcPart, GcNext, ListRunning, ListConts, ListActive, Swept, GcOver, SweepOne,
         RescueStep, RescueExists, RescueGone, RescueState, RescueRemove, RescueRedo,
         RescueUpload, RescueComplete, RescueCleanup, RescueAt, Collecting
<1>3. \A t \in Tasks : rows[t] = NoRow /\ ~RescueStep(t)
  <2>1. ASSUME NEW t \in Tasks PROVE rows[t] = NoRow
    BY <1>1, <1>2 DEF NoRecovery, Owned, RowFits, Pending
  <2>2. ASSUME NEW t \in Tasks, RescueStep(t) PROVE FALSE
    BY <1>1, <2>2 DEF NoRecovery, RescueStep, RescueExists, RescueGone, RescueState,
           RescueRemove, RescueRedo, RescueUpload, RescueComplete, RescueCleanup, RescueAt
  <2> QED
    BY <2>1, <2>2
<1>4. UNCHANGED <<rows, worker, recoverQ, gor, run, stop>>
  BY <1>3 DEF GcPart, GcNext, GcFrame, ListRunning, ListConts, ListActive, Swept, GcOver,
         SweepOne, workerVars, apiVars, platformVars
<1>5. \A t \in Tasks : rescue'[t].pc = "idle"
  <2>1. CASE ListRunning
    <3>1. RunningWithContainer(rows) = {}
      BY <1>3 DEF RunningWithContainer, NoRow
    <3> QED
      BY <1>1, <2>1, <3>1 DEF ListRunning, NoRecovery, NoRescue
  <2>2. ListRunning \/ UNCHANGED rescue
    BY <1>3 DEF GcPart, GcNext, ListConts, ListActive, Swept, GcOver, SweepOne
  <2> QED
    BY <1>1, <2>1, <2>2 DEF NoRecovery
<1>6. NoneStarted /\ \A u \in Tasks : ResultKept(u)
  <2>1. CASE UNCHANGED <<conts, ws>>
    BY <2>1 DEF NoneStarted, ResultKept
  <2>2. ASSUME NEW c \in Conts, SweepOne(c)
        PROVE  NoneStarted /\ \A u \in Tasks : ResultKept(u)
    BY <1>1, <2>2
       DEF SweepOne, Removed, SetState, Cleaned, PlatformTypeOK, NoneStarted, ResultKept
  <2>3. UNCHANGED <<conts, ws>> \/ \E c \in Conts : SweepOne(c)
    BY <1>3 DEF GcPart, GcNext, ListRunning, ListConts, ListActive, Swept, GcOver,
           platformVars
  <2> QED
    BY <2>1, <2>2, <2>3
<1>7. AllWell' => AllWell
  BY <1>2 DEF AllWell, Lives, Moves
<1>8. \A u \in Tasks : LifeMoves(u)
  BY <1>4, <1>6, HandsOff DEF RowGoes, Waiting, Pending
<1> QED
  BY <1>4, <1>5, <1>6, <1>7, <1>8, OutsideLife

\* A timer that marks its task queued finds it scheduled.
LEMMA SchedLife ==
  ASSUME Lives, SchedPart
  PROVE  FirstLife' /\ NoneRevived
<1>1. /\ rows \in Tables /\ FirstLife /\ (\A t \in Tasks : Owned(t) /\ LifeFits(t))
      /\ firing \in [Tasks -> Nat]
  BY DEF Lives, LifeInv, FirstLife, ContInv, OwnInv, SlotInv, TypeOK, PlatformTypeOK, Tables,
         SchedTypeOK, Ownership
<1>2. UNCHANGED <<conts, ws, worker, recoverQ, gor, rescue, run, stop>>
  BY DEF SchedPart, SchedNext, SchedFrame, ReadUpcoming, Register, Fire, Enqueue,
         workerVars, gcVars, apiVars, platformVars
<1>3. NoneStarted /\ (\A t \in Tasks : rescue'[t].pc = "idle")
  BY <1>1, <1>2 DEF NoneStarted, FirstLife, NoRecovery
<1>4. AllWell' => AllWell
  <2>1. phase' = phase \/ phase # "closing"
    BY DEF SchedPart, SchedNext, ReadUpcoming, Register, Fire, Enqueue, AnsweredIn,
           platformVars
  <2> QED
    BY <2>1 DEF AllWell, Lives, Moves
<1>5. ASSUME NEW t \in Tasks, Enqueue(t)
      PROVE  \A u \in Tasks : RowGoes(u) /\ (rows'[u].status = "running" => rows[u].status = "running")
  <2>1. rows' = rows \/ rows' = SetStatus(rows, t, "queued")
    BY <1>5 DEF Enqueue, MarkQueued
  <2>2. rows[t].status \in {"scheduled", "absent"}
    BY <1>1, <1>5 DEF Enqueue, Owned, TimerFits
  <2>3. CASE rows' = rows
    BY <2>3 DEF RowGoes
  <2>4. CASE rows' = SetStatus(rows, t, "queued") /\ rows[t].status = "scheduled"
    <3>1. Waiting(t) /\ rows[t].cid = NoCont
      BY <1>1, <2>4 DEF Waiting, LifeFits, Clean
    <3>2. \A g \in Goroutines : ~Runs(g, t)'
      BY <1>1, <1>2, <2>4 DEF Owned, RowFits, Runs, Over, Open
    <3>3. /\ rows'[t].status = "queued" /\ rows'[t].cid = NoCont
          /\ \A u \in Tasks \ {t} : rows'[u] = rows[u]
      BY <1>1, <2>4, <3>1, StatusMark
    <3> QED
      BY <2>4, <3>1, <3>2, <3>3 DEF RowGoes
  <2>5. CASE rows[t].status = "absent"
    BY <1>1, <2>1, <2>3, <2>5, StatusMark
  <2> QED
    BY <2>1, <2>2, <2>3, <2>4, <2>5
<1>6. \A u \in Tasks : RowGoes(u) /\ (rows'[u].status = "running" => rows[u].status = "running")
  <2>1. UNCHANGED rows \/ \E t \in Tasks : Enqueue(t)
    BY DEF SchedPart, SchedNext, ReadUpcoming, Register, Fire, platformVars
  <2> QED
    BY <1>5, <2>1 DEF RowGoes
<1>7. \A u \in Tasks : LifeMoves(u)
  BY <1>2, <1>3, <1>6, HandsOff DEF Waiting, Pending, ResultKept
<1> QED
  BY <1>2, <1>3, <1>4, <1>6, <1>7, OutsideLife

-----------------------------------------------------------------------------
(* The handlers *)

\* A handler that starts no container and leaves no unfinished result.
LEMMA HandlerLife ==
  ASSUME Lives, ApiPart, UNCHANGED conts, NEW t \in Tasks, RowGoes(t),
         rows'[t].status = "running" => rows[t].status = "running",
         Pending(t)' => Waiting(t),
         stop'[t] = stop[t] \/ StopAsked(t)',
         run'[t].path = run[t].path \/ (run'[t].path # NoPath => Served(run[t].path)'),
         \A u \in Tasks : ResultKept(u),
         \A u \in Tasks \ {t} : rows'[u] = rows[u] /\ stop'[u] = stop[u] /\ run'[u] = run[u]
  PROVE  FirstLife' /\ NoneRevived
<1>1. /\ UNCHANGED <<worker, recoverQ, gor, rescue, phase>> /\ Up
  BY DEF ApiPart, ApiFrame, ApiNext, workerVars, gcVars, platformVars, RunStep, StopStep,
         DeleteStep, SaveInput, FindImage, FindCached, InsertRow, RunCleanup, StopRead,
         StopMark, StopCont, DeleteRead, DeleteArtifacts, DeleteWorkspace, DeleteRow,
         StopRequest, DeleteRequest, RunAt, StopAt, DelAt, Up, Serving
<1>2. NoneStarted /\ (\A u \in Tasks : rescue'[u].pc = "idle") /\ (AllWell' => AllWell)
  BY <1>1 DEF NoneStarted, Lives, FirstLife, NoRecovery, AllWell, Moves
<1>3. \A u \in Tasks : LifeMoves(u)
  <2>1. LifeMoves(t)
    BY <1>1, <1>2, HandsOff
  <2>2. ASSUME NEW u \in Tasks \ {t} PROVE LifeMoves(u)
    BY <1>1, <1>2, HandsOff DEF RowGoes, Waiting, Pending
  <2> QED
    BY <2>1, <2>2
<1> QED
  BY <1>1, <1>2, <1>3, OutsideLife

\* The mark of a stop request (task.go:189): whoever has the id of the container does
\* not stop a task that has not been given one.
LEMMA StopMarkLife ==
  ASSUME Lives, ApiPart, NEW t \in Tasks, StopMark(t)
  PROVE  FirstLife' /\ NoneRevived
<1>1. /\ rows \in Tables /\ LifeFits(t) /\ stop \in [Tasks -> [pc : {"none", "read", "mark", "stop"},
                         cid : Conts \cup {NoCont}]]
  BY DEF Lives, LifeInv, FirstLife, ContInv, OwnInv, SlotInv, TypeOK, PlatformTypeOK, Tables,
         ApiTypeOK
<1>2. /\ stop[t].pc = "mark" /\ UNCHANGED <<conts, ws, run>>
      /\ rows' = rows \/ rows' = SetStatus(rows, t, "stopped")
      /\ \/ /\ rows' = SetStatus(rows, t, "stopped") /\ rows[t].status # "absent"
            /\ stop' = [stop EXCEPT ![t].pc = "stop"]
         \/ StopEnds(t)
  BY DEF StopMark, StopAt, MarkStopped, Exists
<1>3. rows[t].status = "absent" \/ rows[t].cid # NoCont
  BY <1>1, <1>2 DEF LifeFits, StopAsked
<1>4. RowGoes(t) /\ (rows'[t].status = "running" => rows[t].status = "running")
      /\ \A u \in Tasks \ {t} : rows'[u] = rows[u]
  BY <1>1, <1>2, <1>3, StatusMark DEF RowGoes
<1>5. StopAsked(t)' /\ \A u \in Tasks \ {t} : stop'[u] = stop[u]
  <2>1. CASE StopEnds(t)
    BY <1>1, <2>1 DEF StopEnds, NoStop, StopAsked
  <2>2. CASE /\ rows' = SetStatus(rows, t, "stopped") /\ rows[t].status # "absent"
             /\ stop' = [stop EXCEPT ![t].pc = "stop"]
    <3>1. rows'[t].status = "stopped" /\ rows'[t].cid = rows[t].cid
      BY <1>1, <2>2, StatusMark
    <3>2. stop'[t].pc = "stop" /\ \A u \in Tasks \ {t} : stop'[u] = stop[u]
      BY <1>1, <2>2
    <3> QED
      BY <1>3, <2>2, <3>1, <3>2 DEF StopAsked
  <2> QED
    BY <1>2, <2>1, <2>2
<1>6. \A u \in Tasks : ResultKept(u)
  BY <1>2 DEF ResultKept
<1> QED
  BY <1>2, <1>4, <1>5, <1>6, HandlerLife DEF Waiting, Pending

\* The row of a new task (query.sql.go:56): a result it has was found complete.
LEMMA InsertLife ==
  ASSUME Lives, ApiPart, NEW t \in Tasks, InsertRow(t)
  PROVE  FirstLife' /\ NoneRevived
<1>1. /\ rows \in Tables /\ LifeFits(t) /\ Owned(t) /\ StoreMoves /\ deletions \subseteq deletions'
      /\ run \in [Tasks -> [pc : RunPCs, path : Paths \cup {NoPath}]]
  BY DEF Lives, LifeInv, FirstLife, ContInv, OwnInv, SlotInv, TypeOK, PlatformTypeOK, Tables,
         ApiTypeOK, Ownership, Moves
<1>2. /\ run[t].pc = "insert" /\ UNCHANGED <<conts, ws, stop>>
      /\ rows' = rows \/ rows' = Insert(rows, t, FirstStatus(t), run[t].path, inserts + 1)
      /\ RunEnds(t) \/ RunGoto(t, "hit") \/ RunGoto(t, "undo")
      /\ UNCHANGED <<worker, recoverQ, gor>>
  BY DEF InsertRow, RunAt, Inserted, ApiPart, ApiFrame, workerVars
<1>3. /\ Waiting(t) /\ rows[t] = NoRow /\ ~InHands(t) /\ stop[t].pc = "none"
  BY <1>1, <1>2 DEF Owned, RowFits, TimerFits, Waiting, Pending
<1>4. /\ \A u \in Tasks \ {t} : run'[u] = run[u]
      /\ run'[t].path \in {NoPath, run[t].path}
  BY <1>1, <1>2 DEF RunEnds, RunOver, RunGoto
<1>5. CASE rows' = rows
  BY <1>2, <1>3, <1>4, <1>5, HandlerLife DEF RowGoes, ResultKept
<1>6. CASE rows' = Insert(rows, t, FirstStatus(t), run[t].path, inserts + 1)
  <2>1. /\ rows'[t].status = FirstStatus(t) /\ rows'[t].cid = NoCont /\ rows'[t].path = run[t].path
        /\ \A u \in Tasks \ {t} : rows'[u] = rows[u]
    BY <1>1, <1>6 DEF Insert, Tables
  <2>2. /\ rows'[t].status \in {"completed", "scheduled", "queued"}
        /\ rows'[t].status = "completed" => run[t].path # NoPath
    BY <2>1 DEF FirstStatus
  <2>3. rows'[t].status = "completed" => Served(rows[t].path)'
    BY <1>1, <2>1, <2>2, ServedKept DEF LifeFits, Served
  <2>4. \A g \in Goroutines : ~Runs(g, t)'
    BY <1>2, <1>3 DEF InHands, Runs
  <2>5. RowGoes(t)
    BY <1>3, <2>1, <2>2, <2>3, <2>4 DEF RowGoes
  <2> QED
    BY <1>2, <1>3, <1>4, <2>1, <2>2, <2>5, HandlerLife DEF ResultKept
<1> QED
  BY <1>2, <1>5, <1>6

\* The other steps of the request that makes a task.
LEMMA RunLife ==
  ASSUME Lives, ApiPart, NEW t \in Tasks,
         SaveInput(t) \/ FindImage(t) \/ FindCached(t) \/ RunCleanup(t)
  PROVE  FirstLife' /\ NoneRevived
<1>1. /\ LifeFits(t) /\ StoreMoves /\ deletions \subseteq deletions'
      /\ run \in [Tasks -> [pc : RunPCs, path : Paths \cup {NoPath}]]
      /\ ws \in [Tasks -> SUBSET (Files \cup {"input"})]
      /\ FirstLife
  BY DEF Lives, LifeInv, FirstLife, ContInv, OwnInv, SlotInv, TypeOK, PlatformTypeOK,
         ApiTypeOK, Moves
<1>2. UNCHANGED <<rows, conts, stop, store>> /\ \A u \in Tasks \ {t} : run'[u] = run[u]
  BY <1>1 DEF SaveInput, FindImage, FindCached, RunCleanup, RunGoto, RunEnds, platformVars
<1>3. /\ Pending(t)' => Pending(t)
      /\ \/ run'[t].path = run[t].path \/ run'[t].path = NoPath
         \/ \E p \in CachedPaths(rows, Sig[t]) : run'[t].path = p
  BY <1>1 DEF SaveInput, FindImage, FindCached, RunCleanup, RunGoto, RunEnds, RunOver, RunAt,
         Pending
<1>4. \A u \in Tasks : ResultKept(u)
  <2>1. ws' = ws \/ ws' = [ws EXCEPT ![t] = {"input"}] \/ ws' = [ws EXCEPT ![t] = {}]
    BY DEF SaveInput, FindImage, FindCached, RunCleanup, Cleaned, platformVars
  <2> QED
    BY <1>1, <2>1 DEF ResultKept
<1>5. ASSUME NEW p \in CachedPaths(rows, Sig[t]), run'[t].path = p, p # NoPath
      PROVE  Served(run[t].path)'
  <2>1. PICK u \in Tasks : rows[u].status = "completed" /\ rows[u].path = p
    BY <1>5 DEF CachedPaths, CacheHits
  <2>2. Served(p)
    BY <1>1, <2>1 DEF FirstLife, LifeFits
  <2> QED
    BY <1>1, <1>5, <2>2, ServedKept DEF Served
<1> QED
  BY <1>2, <1>3, <1>4, <1>5, HandlerLife DEF RowGoes, Waiting

\* ContainerStop may leave an unfinished result; by then the row says stopped, and the
\* goroutine that waits for the container reads it again (task.go:495).
LEMMA StopContLife ==
  ASSUME Lives, ApiPart, NEW t \in Tasks, StopCont(t)
  PROVE  FirstLife' /\ NoneRevived
<1>1. /\ PlatformTypeOK /\ ContsMove /\ FirstLife
      /\ \A u \in Tasks : LifeFits(u) /\ CidFits(u) /\ Owned(u)
      /\ \A g \in Goroutines : GorCid(g)
      /\ stop \in [Tasks -> [pc : {"none", "read", "mark", "stop"}, cid : Conts \cup {NoCont}]]
  BY DEF Lives, LifeInv, FirstLife, ContInv, OwnInv, SlotInv, TypeOK, Ownership, Containers,
         ContFits, Moves, ApiTypeOK
<1> DEFINE c == stop[t].cid
<1>2. /\ stop[t].pc = "stop" /\ StopEnds(t) /\ Up
      /\ Stopped(c) \/ UNCHANGED <<conts, ws>>
      /\ UNCHANGED <<rows, phase, worker, recoverQ, gor, rescue, run, store>>
  BY DEF StopCont, StopAt, ApiPart, ApiFrame, workerVars, gcVars
<1>3. stop'[t].pc = "none" /\ \A u \in Tasks \ {t} : stop'[u] = stop[u]
  BY <1>1, <1>2 DEF StopEnds, NoStop
<1>4. Started(c, t) /\ (rows[t].status \in {"stopped", "absent"} \/ Quiet(c))
  BY <1>1, <1>2 DEF CidFits, LifeFits, StopAsked
<1>5. NoneStarted /\ \A u \in Tasks \ {t} : ResultKept(u)
  BY <1>1, <1>2, <1>4 DEF Stopped, SetState, PlatformTypeOK, NoneStarted, ResultKept, Started
<1>6. \A u \in Tasks \ {t} : LifeMoves(u)
  BY <1>2, <1>3, <1>5, HandsOff DEF RowGoes, Waiting, Pending
<1>7. StopAsked(t)'
  BY <1>3 DEF StopAsked
<1>8. LifeMoves(t) \/ (LifeFits(t)' /\ rows'[t] = rows[t])
  <2>1. CASE ResultKept(t)
    BY <1>2, <1>5, <1>7, <2>1, HandsOff DEF RowGoes, Waiting, Pending
  <2>2. CASE ~ResultKept(t)
    <3>1. conts[c].st = "running" /\ rows[t].status \in {"stopped", "absent"}
      BY <1>2, <1>4, <2>2 DEF Stopped, ResultKept, Quiet
    <3>3. ~Waiting(t)
      BY <1>1, <1>4 DEF LifeFits, Clean, Started
    <3>4. ~Waiting(t)'
      BY <1>2, <3>3, HandsKept DEF Waiting, Pending
    <3>5. ASSUME NEW g \in Goroutines, Runs(g, t) PROVE AtWork(g, t)'
      <4>1. AtWork(g, t) /\ gor' = gor /\ rows' = rows
        BY <1>1, <1>2, <3>5 DEF LifeFits
      <4>2. gor[g].pc \notin {"check", "start"}
        BY <1>4, <4>1 DEF AtWork, Clean, Started
      <4>3. gor[g].pc \notin SavePCs
        <5>1. gor[g].pc \in SavePCs => Quiet(gor[g].cid) /\ c = gor[g].cid
          BY <1>1, <1>4, <3>5, <4>1 DEF GorCid, Runs, SavePCs, WatchPCs, AtWork, Started
        <5> QED
          BY <3>1, <5>1 DEF Quiet
      <4>4. \A d \in Conts : Started(d, t)' => Started(d, t)
        BY <1>1, <1>5 DEF ContsMove, NoneStarted, Started
      <4>5. ResultFits(g, t)'
        BY <3>1, <4>1, <4>3 DEF ResultFits, SavePCs
      <4>6. gor[g].pc \in WatchPCs \cup {"markrun"} =>
              \A d \in Conts : Started(d, t)' => d = gor[g].cid
        BY <4>1, <4>4 DEF AtWork
      <4> QED
        BY <4>1, <4>2, <4>3, <4>5, <4>6 DEF AtWork, SavePCs
    <3>7. (rows[t].status = "completed" => Served(rows[t].path)')
          /\ (run[t].path # NoPath => Served(run[t].path)')
      BY <1>1, <1>2, ServedKept DEF LifeFits, Served, Lives, Moves
    <3>8. InHands(t)' => InHands(t)
      BY <1>2, HandsKept
    <3>9. \A g \in Goroutines : Runs(g, t)' => AtWork(g, t)'
      BY <1>2, <3>5 DEF Runs
    <3>10. deletions \subseteq deletions'
      BY DEF Lives, Moves
    <3> QED
      BY <1>1, <1>2, <1>7, <3>4, <3>7, <3>8, <3>9, <3>10 DEF LifeFits
  <2> QED
    BY <2>1, <2>2
<1>9. (\A u \in Tasks : rescue'[u].pc = "idle") /\ (AllWell' => AllWell)
  BY <1>1, <1>2 DEF FirstLife, NoRecovery, AllWell, Lives, Moves
<1> QED
  BY <1>2, <1>5, <1>6, <1>8, <1>9, OutsideLife

\* The row of a task that is deleted goes last (task.go:262); whoever runs the task
\* then knows that it was being deleted.
LEMMA DeleteLife ==
  ASSUME Lives, ApiPart, NEW t \in Tasks, DeleteStep(t) \/ StopRead(t)
                                          \/ StopRequest(t) \/ DeleteRequest(t)
  PROVE  FirstLife' /\ NoneRevived
<1>1. /\ rows \in Tables /\ ws \in [Tasks -> SUBSET (Files \cup {"input"})]
      /\ \A u \in Tasks : LifeFits(u)
      /\ InputFits(t) /\ deletions \subseteq deletions'
      /\ stop \in [Tasks -> [pc : {"none", "read", "mark", "stop"}, cid : Conts \cup {NoCont}]]
  BY DEF Lives, LifeInv, FirstLife, ContInv, OwnInv, SlotInv, TypeOK, PlatformTypeOK,
         Tables, ApiTypeOK, Containers, ContFits, Moves
<1>2. UNCHANGED <<conts, run>> /\ \A u \in Tasks \ {t} : stop'[u] = stop[u]
  BY <1>1 DEF DeleteStep, DeleteRead, DeleteArtifacts, DeleteWorkspace, DeleteRow, StopRead,
         StopRequest, DeleteRequest, StopEnds, platformVars
<1>3. \A u \in Tasks : ResultKept(u)
  <2>1. ws' = ws \/ ws' = [ws EXCEPT ![t] = {}]
    BY DEF DeleteStep, DeleteRead, DeleteArtifacts, DeleteWorkspace, DeleteRow, StopRead,
         StopRequest, DeleteRequest, platformVars
  <2> QED
    BY <1>1, <2>1 DEF ResultKept
<1>4. RowGoes(t) /\ (\A u \in Tasks \ {t} : rows'[u] = rows[u])
      /\ (rows'[t].status = "running" => rows[t].status = "running")
  <2>1. CASE rows' = rows
    BY <2>1 DEF RowGoes
  <2>2. CASE DeleteRow(t) /\ rows' = Deleted(rows, t)
    <3>1. rows'[t] = NoRow /\ \A u \in Tasks \ {t} : rows'[u] = rows[u]
      BY <1>1, <2>2 DEF Deleted, Tables
    <3>2. t \in deletions'
      BY <1>1, <2>2 DEF DeleteRow, DelAt, InputFits
    <3> QED
      BY <3>1, <3>2 DEF RowGoes, NoRow
  <2>3. rows' = rows \/ (DeleteRow(t) /\ rows' = Deleted(rows, t))
    BY DEF DeleteStep, DeleteRead, DeleteArtifacts, DeleteWorkspace, DeleteRow, StopRead,
         StopRequest, DeleteRequest, platformVars
  <2> QED
    BY <2>1, <2>2, <2>3
<1>5. stop'[t] = stop[t] \/ StopAsked(t)'
  <2>1. CASE StopRead(t)
    BY <1>1, <2>1 DEF StopRead, StopAsked, StopEnds, NoStop
  <2>2. CASE StopRequest(t)
    BY <1>1, <2>2 DEF StopRequest, StopAsked
  <2> QED
    BY <2>1, <2>2 DEF DeleteStep, DeleteRead, DeleteArtifacts, DeleteWorkspace, DeleteRow,
                      DeleteRequest
<1> QED
  BY <1>2, <1>3, <1>4, <1>5, HandlerLife DEF Waiting, Pending

\* Every handler.
LEMMA ApiLife ==
  ASSUME Lives, ApiPart
  PROVE  FirstLife' /\ NoneRevived
BY RunLife, InsertLife, StopMarkLife, StopContLife, DeleteLife
   DEF ApiPart, ApiNext, RunStep, StopStep

-----------------------------------------------------------------------------
(* The loop *)

\* A step of the loop: it starts no container and goes near no directory.
LEMMA LoopLife ==
  ASSUME Lives, WorkerFrame, Up, UNCHANGED <<recoverQ, conts, ws, phase>>,
         \A g \in Goroutines :
           gor'[g] = gor[g] \/ (/\ gor[g].pc = "idle" /\ gor'[g].kind = "claimed"
                                /\ gor'[g].cid = NoCont),
         \A u \in Tasks :
           /\ RowGoes(u) /\ (InHand(u)' => Waiting(u))
           /\ InHands(u)' => InHands(u) \/ rows'[u].status # "absent"
           /\ \A g \in Goroutines : Runs(g, u)' => gor'[g] = gor[g] \/ RunGoes(g, u),
         worker'.pc = "cached" => Served(worker.path)',
         AllWell' => \A t \in Tasks : rows'[t].status = "running" => InHands(t)'
  PROVE  FirstLife' /\ NoneRevived
<1>1. UNCHANGED <<rescue, run, stop>>
  BY DEF WorkerFrame, gcVars, apiVars
<1>2. NoneStarted /\ GorStill /\ (AllWell' => AllWell) /\ (AllWell => Agents)
  BY DEF NoneStarted, GorStill, AllWell, Lives, Moves, FirstLife
<1>3. AllWell' => Agents'
  BY <1>2, AgentsKept
<1>4. NoRecovery'
  BY <1>1, NoRecoveryKept DEF Lives, FirstLife, NoRecovery
<1>5. ASSUME NEW u \in Tasks PROVE LifeMoves(u)
  <2>1. ASSUME NEW g \in Goroutines, Runs(g, u)', gor'[g] = gor[g] PROVE RunGoes(g, u)
    BY <2>1 DEF Runs, RunGoes
  <2>2. \A g \in Goroutines : Runs(g, u)' => RunGoes(g, u)
    BY <2>1
  <2>3. Pending(u)' => Waiting(u)
    BY <1>1 DEF Pending, Waiting
  <2> QED
    BY <1>1, <2>2, <2>3 DEF LifeMoves, ResultKept, Started
<1> QED
  BY <1>3, <1>4, <1>5, LifeStep

\* The steps of the loop that take nothing and pass nothing on.
LEMMA QuietLoopLife ==
  ASSUME Lives, WorkerFrame,
         Tick \/ NoSlot \/ TakeSlot \/ LookupHit \/ Drain \/ FillSlot \/ Drained
  PROVE  FirstLife' /\ NoneRevived
<1>1. /\ UNCHANGED <<rows, recoverQ, conts, ws, store, phase, gor>> /\ Up
      /\ worker \in [pc : LoopPCs, task : Tasks \cup {NoTask},
                     path : Paths \cup {NoPath}, filled : Nat]
      /\ FirstLife /\ ContInv
  BY DEF Lives, LifeInv, ContInv, OwnInv, SlotInv, TypeOK, WorkerTypeOK, Tick, NoSlot, TakeSlot,
         LookupHit, Drain, FillSlot, Drained, platformVars, Up, Closing
<1>2. /\ \A u \in Tasks : InHand(u)' <=> InHand(u)
      /\ worker'.pc = "cached" =>
           \E p \in CachedPaths(rows, Sig[worker.task]) \ {NoPath} : worker'.path = p
  <2>1. CASE LookupHit
    BY <1>1, <2>1 DEF LookupHit, InHand
  <2>2. CASE Tick \/ NoSlot \/ TakeSlot \/ Drain \/ FillSlot \/ Drained
    <3>1. worker.pc \notin {"lookup", "cached"} /\ worker'.pc \notin {"lookup", "cached"}
      BY <1>1, <2>2 DEF Tick, NoSlot, TakeSlot, Drain, FillSlot, Drained, To, LoopStart
    <3> QED
      BY <3>1 DEF InHand
  <2> QED
    BY <2>1, <2>2
<1>3. ASSUME NEW p \in CachedPaths(rows, Sig[worker.task]) \ {NoPath}, worker'.path = p
      PROVE  Served(worker.path)'
  <2>1. PICK u \in Tasks : rows[u].status = "completed" /\ rows[u].path = p
    BY <1>3 DEF CachedPaths, CacheHits
  <2>2. Served(p)
    BY <1>1, <2>1 DEF FirstLife, LifeFits
  <2> QED
    BY <1>3, <2>2, ServedKept DEF Served, Lives, Moves
<1>4. \A u \in Tasks : InHands(u)' <=> InHands(u)
  BY <1>1, <1>2 DEF InHands, InRecoverQ, Runs
<1>5. AllWell' => \A t \in Tasks : rows'[t].status = "running" => InHands(t)'
  BY <1>1, <1>4 DEF AllWell, FirstLife, Agents, Lives, Moves
<1>6. \A u \in Tasks : RowGoes(u) /\ (InHand(u)' => Waiting(u))
  BY <1>1, <1>2 DEF RowGoes, Waiting
<1> QED
  BY <1>1, <1>2, <1>3, <1>4, <1>5, <1>6, LoopLife

\* GetNextQueuedTask (query.sql.go:281) takes a task that never had a container.
LEMMA ClaimLife ==
  ASSUME Lives, WorkerFrame, Claim
  PROVE  FirstLife' /\ NoneRevived
<1>1. /\ UNCHANGED <<recoverQ, conts, ws, phase, gor>> /\ Up /\ worker.pc = "claim"
      /\ rows \in Tables /\ FirstLife /\ \A u \in Tasks : LifeFits(u) /\ Owned(u)
      /\ PlatformTypeOK
  BY DEF Lives, LifeInv, FirstLife, ContInv, OwnInv, SlotInv, TypeOK, PlatformTypeOK, Tables,
         Ownership, Claim
<1>2. CASE rows' = rows /\ worker'.pc = "tick"
  <2>1. \A u \in Tasks : ~InHand(u)' /\ ~InHand(u)
    BY <1>1, <1>2 DEF InHand
  <2>2. \A u \in Tasks : InHands(u)' <=> InHands(u)
    BY <1>1, <2>1 DEF InHands, InRecoverQ, Runs
  <2>3. AllWell' => \A t \in Tasks : rows'[t].status = "running" => InHands(t)'
    BY <1>1, <1>2, <2>2 DEF AllWell, FirstLife, Agents, Lives, Moves
  <2> QED
    BY <1>1, <1>2, <2>1, <2>2, <2>3, LoopLife DEF RowGoes
<1>3. ASSUME NEW t \in Tasks, rows[t].status = "queued", rows' = SetStatus(rows, t, "running"),
             \/ worker' = [To("lookup") EXCEPT !.task = t]
             \/ worker'.pc = "tick" /\ ~AllWell'
      PROVE  FirstLife' /\ NoneRevived
  <2>1. /\ Waiting(t) /\ rows[t].cid = NoCont
        /\ \A g \in Goroutines : ~Runs(g, t)
    BY <1>1, <1>3 DEF Waiting, LifeFits, Clean, Owned, RowFits, Over, Open
  <2>2. /\ rows'[t].status = "running" /\ rows'[t].cid = NoCont
        /\ \A u \in Tasks \ {t} : rows'[u] = rows[u]
    BY <1>1, <1>3, <2>1, StatusMark
  <2>3. \A g \in Goroutines : ~Runs(g, t)'
    BY <1>1, <2>1 DEF Runs
  <2>4. \A u \in Tasks : RowGoes(u)
    BY <1>3, <2>1, <2>2, <2>3 DEF RowGoes
  <2>5. \A u \in Tasks \ {t} : ~InHand(u)' /\ (InHands(u)' <=> InHands(u))
    BY <1>1, <1>3 DEF InHand, InHands, InRecoverQ, Runs, To, LoopStart
  <2>6. worker'.pc # "cached" /\ (AllWell' => InHand(t)')
    BY <1>3 DEF To, LoopStart, InHand
  <2>7. AllWell' => \A u \in Tasks : rows'[u].status = "running" => InHands(u)'
    <3>1. AllWell' => AllWell
      BY <1>1 DEF AllWell, Lives, Moves
    <3> QED
      BY <1>1, <2>2, <2>5, <2>6, <3>1 DEF FirstLife, Agents, InHands
  <2>8. \A u \in Tasks : \A g \in Goroutines : Runs(g, u)' => gor'[g] = gor[g]
    BY <1>1
  <2> QED
    BY <1>1, <2>1, <2>2, <2>4, <2>5, <2>6, <2>7, <2>8, LoopLife
<1>4. \/ rows' = rows /\ worker'.pc = "tick"
      \/ \E t \in Tasks : /\ rows[t].status = "queued" /\ rows' = SetStatus(rows, t, "running")
                          /\ \/ worker' = [To("lookup") EXCEPT !.task = t]
                             \/ worker'.pc = "tick" /\ ~AllWell'
  <2>1. FailsIn(Closing) => ~AllWell'
    BY <1>1, FaultNoted DEF FailsIn, Closing, AllWell
  <2> QED
    BY <2>1 DEF Claim, Claimed, NextQueued, Queued, Return, To, LoopStart
<1> QED
  BY <1>2, <1>3, <1>4

\* The mark of a cache hit (task.go:368).
LEMMA MarkCachedLife ==
  ASSUME Lives, WorkerFrame, MarkCached
  PROVE  FirstLife' /\ NoneRevived
<1> PICK t \in Tasks : t = worker.task
  BY DEF Lives, LifeInv, ContInv, OwnInv, SlotInv, Handles, LoopHands, MarkCached
<1>1. /\ UNCHANGED <<recoverQ, conts, ws, phase, gor>> /\ Up /\ worker.pc = "cached"
      /\ rows \in Tables /\ FirstLife /\ (\A u \in Tasks : LifeFits(u) /\ Owned(u))
      /\ PlatformTypeOK /\ worker'.pc = "tick" /\ StoreMoves /\ deletions \subseteq deletions'
  BY DEF Lives, LifeInv, FirstLife, ContInv, OwnInv, SlotInv, TypeOK, PlatformTypeOK, Tables,
         Ownership, MarkCached, Return, To, LoopStart, Moves
<1>2. /\ \/ rows' = MarkCompleted(rows, t, worker.path)
         \/ rows' = rows /\ ~AllWell'
  BY <1>1, FaultNoted DEF MarkCached, FailsIn, Closing, AllWell
<1>3. /\ InHand(t) /\ Waiting(t) /\ rows[t].cid = NoCont
      /\ \A g \in Goroutines : ~Runs(g, t)
  BY <1>1 DEF InHand, Waiting, LifeFits, Clean, Owned, OneHand
<1>4. \A g \in Goroutines : ~Runs(g, t)'
  BY <1>1, <1>3 DEF Runs
<1>5. Served(worker.path) /\ StoreMoves
  BY <1>1 DEF FirstLife
<1>6. /\ rows[t].status = "absent" => rows' = rows
      /\ \A u \in Tasks \ {t} : rows'[u] = rows[u]
      /\ rows' = rows \/ (/\ rows[t].status # "absent" /\ rows'[t].status = "completed"
                          /\ rows'[t].path = worker.path /\ rows'[t].cid = NoCont)
  BY <1>1, <1>2, <1>3, CompletedMark
<1>7. rows'[t].path = worker.path => Served(rows[t].path)'
  BY <1>1, <1>5, ServedKept DEF Served
<1>8. \A u \in Tasks : RowGoes(u)
  BY <1>3, <1>4, <1>6, <1>7 DEF RowGoes
<1>9. \A u \in Tasks : ~InHand(u)' /\ (InHands(u)' => InHands(u))
  BY <1>1 DEF InHand, InHands, InRecoverQ, Runs
<1>10. \A u \in Tasks \ {t} : InHands(u) => InHands(u)'
  BY <1>1 DEF InHand, InHands, InRecoverQ, Runs
<1>11. AllWell' => \A u \in Tasks : rows'[u].status = "running" => InHands(u)'
  <2>1. AllWell' => AllWell
    BY <1>1 DEF AllWell, Lives, Moves
  <2>2. AllWell' => rows'[t].status # "running"
    BY <1>1, <1>2, CompletedMark
  <2> QED
    BY <1>1, <1>6, <1>10, <2>1, <2>2 DEF FirstLife, Agents
<1>12. \A u \in Tasks : \A g \in Goroutines : gor'[g] = gor[g]
  BY <1>1
<1> QED
  BY <1>1, <1>8, <1>9, <1>11, <1>12, LoopLife

\* The goroutine of a claimed task (task.go:379).
LEMMA StartTaskLife ==
  ASSUME Lives, WorkerFrame, NEW g \in Goroutines, StartTask(g)
  PROVE  FirstLife' /\ NoneRevived
<1> PICK t \in Tasks : t = worker.task
  BY DEF Lives, LifeInv, ContInv, OwnInv, SlotInv, Handles, LoopHands, StartTask
<1>1. /\ UNCHANGED <<rows, recoverQ, conts, ws, phase>> /\ Up /\ worker.pc = "lookup"
      /\ FirstLife /\ GorType /\ gor[g].pc = "idle"
      /\ worker'.pc = "loop" /\ gor' = Spawned(g, "claimed", t, NoCont, "check")
  BY DEF Lives, LifeInv, FirstLife, ContInv, OwnInv, SlotInv, TypeOK, WorkerTypeOK, GorType,
         StartTask, To, LoopStart
<1>2. /\ \A h \in Goroutines \ {g} : gor'[h] = gor[h]
      /\ gor'[g].pc = "check" /\ gor'[g].task = t /\ gor'[g].cid = NoCont
      /\ gor'[g].kind = "claimed" /\ ~gor'[g].expired
  BY <1>1 DEF GorType, Spawned
<1>3. InHand(t) /\ Waiting(t)
  BY <1>1 DEF InHand, Waiting
<1>4. \A u \in Tasks : RowGoes(u) /\ ~InHand(u)'
  BY <1>1 DEF RowGoes, InHand
<1>5. \A u \in Tasks : InHands(u)' <=> InHands(u)
  <2>1. \A u \in Tasks : Runs(g, u)' <=> u = t
    BY <1>2 DEF Runs
  <2>2. \A u \in Tasks : InHand(u) <=> u = t
    BY <1>1 DEF InHand
  <2>3. \A u \in Tasks : ~Runs(g, u)
    BY <1>1 DEF Runs
  <2>4. \A u \in Tasks : \A h \in Goroutines \ {g} : Runs(h, u)' <=> Runs(h, u)
    BY <1>2 DEF Runs
  <2>5. \A u \in Tasks : InRecoverQ(u)' <=> InRecoverQ(u)
    BY <1>1 DEF InRecoverQ
  <2> QED
    BY <1>4, <2>1, <2>2, <2>3, <2>4, <2>5 DEF InHands
<1>6. \A u \in Tasks : \A h \in Goroutines : Runs(h, u)' => gor'[h] = gor[h] \/ RunGoes(h, u)
  BY <1>1, <1>2, <1>3 DEF Runs, RunGoes
<1>7. AllWell' => \A u \in Tasks : rows'[u].status = "running" => InHands(u)'
  BY <1>1, <1>5 DEF AllWell, FirstLife, Agents, Lives, Moves
<1> QED
  BY <1>1, <1>2, <1>4, <1>5, <1>6, <1>7, LoopLife

\* The end of a timeout only marks the goroutine.
LEMMA ExpireLife ==
  ASSUME Lives, WorkerFrame, NEW g \in Goroutines, Expire(g)
  PROVE  FirstLife' /\ NoneRevived
<1>1. /\ UNCHANGED <<rows, store, recoverQ, conts, ws, phase, worker, rescue, run, stop>> /\ Up
      /\ FirstLife /\ GorType /\ gor[g].pc # "idle" /\ gor[g].task \in TimedTasks
      /\ gor' = [gor EXCEPT ![g].expired = TRUE]
  BY DEF Lives, LifeInv, FirstLife, ContInv, OwnInv, SlotInv, TypeOK, WorkerTypeOK, GorType,
         Expire, ContextPCs, platformVars, WorkerFrame, gcVars, apiVars
<1>2. /\ \A h \in Goroutines \ {g} : gor'[h] = gor[h]
      /\ gor'[g].pc = gor[g].pc /\ gor'[g].task = gor[g].task /\ gor'[g].cid = gor[g].cid
      /\ gor'[g].kind = gor[g].kind /\ gor'[g].path = gor[g].path
  BY <1>1 DEF GorType, Goroutine
<1>3. \A h \in Goroutines, u \in Tasks : Runs(h, u)' <=> Runs(h, u)
  BY <1>2 DEF Runs
<1>4. \A h \in Goroutines, u \in Tasks : Runs(h, u) => RunGoes(h, u)
  BY <1>1, <1>2 DEF Runs, RunGoes
<1>5. \A u \in Tasks : (InHands(u)' <=> InHands(u)) /\ (InHand(u)' <=> InHand(u))
  BY <1>1, <1>3 DEF InHands, InHand, InRecoverQ
<1>6. \A u \in Tasks : LifeMoves(u)
  BY <1>1, <1>3, <1>4, <1>5 DEF LifeMoves, RowGoes, Pending, Waiting, ResultKept, Started
<1>7. NoneStarted /\ GorStill /\ (AllWell' => AllWell) /\ (AllWell => Agents)
  BY <1>1, <1>2 DEF NoneStarted, GorStill, AllWell, Lives, Moves, FirstLife
<1>8. AllWell' => Agents'
  BY <1>1, <1>5, <1>7, AgentsKept DEF Agents
<1>9. NoRecovery'
  BY <1>1, <1>2, NoRecoveryKept DEF FirstLife, NoRecovery
<1> QED
  BY <1>1, <1>6, <1>8, <1>9, PathKept, LifeStep

-----------------------------------------------------------------------------
(* The goroutines *)

\* What is left to be said of the row of t.
RowLives(t) ==
  /\ StopAsked(t)'
  /\ rows'[t].status = "completed" => Served(rows[t].path)'
  /\ rows[t].status \in Terminal => rows'[t].status \in Terminal \cup {"absent"}

\* What a call of processTask or waitAndSaveTask does in the first life.
CallLife(g, t) ==
  /\ gor'[g].pc # "idle" => AtWork(g, t)'
  /\ RowLives(t)
  /\ \A u \in Tasks \ {t} :
       ResultKept(u) /\ \A c \in Conts : Started(c, u)' => Started(c, u)
  /\ gor'[g].kind = "claimed"
  /\ IF gor'[g].pc = "idle" THEN gor[g].pc = "cleanup"
     ELSE gor[g].cid # NoCont => gor'[g].cid = gor[g].cid
  /\ AllWell' =>
       /\ AllWell /\ Left(g)'
       /\ gor'[g].pc = "idle" => rows'[t].status # "running"
       /\ \A c \in Conts : conts'[c].st = "running" /\ conts'[c].task \notin TimedTasks =>
            conts[c].st = "running" \/ (gor'[g].pc # "idle" /\ gor'[g].cid = c)

\* What the proofs about the calls rest on.
CallContext(g, t) ==
  /\ GorType /\ rows \in Tables /\ PlatformTypeOK
  /\ GorCid(g) /\ AtWork(g, t) /\ LifeFits(t) /\ RowFits(t) /\ CidFits(t)
  /\ ContsMove /\ StoreMoves /\ (AllWell => Left(g)) /\ (faults' = 0 => faults = 0)
  /\ gor[g].kind = "claimed" /\ gor[g].pc # "idle"
  /\ faults = 0 /\ Settling(g) => rows[t].status # "running"
  /\ UNCHANGED <<stop, deletions>>
  /\ (UNCHANGED phase \/ AnsweredIn(Done(g))) /\ AllWell' => AllWell
  /\ UNCHANGED phase /\ Done(g) /\ AllWell' => t \in TimedTasks
  /\ UNCHANGED phase /\ FailsIn(Done(g)) /\ AllWell' => t \in TimedTasks

LEMMA CallFacts ==
  ASSUME Lives, WorkerFrame, NEW g \in Goroutines, NEW t \in Tasks, t = gor[g].task, Step(g)
  PROVE  CallContext(g, t)
<1>1. gor[g].pc # "idle"
  BY StepMoves DEF Lives, LifeInv, ContInv
<1>2. /\ GorType /\ rows \in Tables /\ PlatformTypeOK
      /\ GorCid(g) /\ LifeFits(t) /\ RowFits(t) /\ CidFits(t)
      /\ ContsMove /\ StoreMoves /\ (AllWell => Left(g)) /\ (faults' = 0 => faults = 0)
      /\ gor[g].kind = "claimed"
  BY DEF Lives, LifeInv, FirstLife, ContInv, OwnInv, SlotInv, TypeOK, PlatformTypeOK, Tables,
         WorkerTypeOK, GorType, Ownership, Owned, Containers, ContFits, Moves, Agents, NoRecovery
<1>3. AtWork(g, t)
  BY <1>1, <1>2 DEF LifeFits, Runs
<1>4. UNCHANGED <<stop, deletions>>
  BY DEF WorkerFrame, apiVars, histVars
<1>5. (UNCHANGED phase \/ AnsweredIn(Done(g))) /\ AllWell' => AllWell
  BY <1>2 DEF AnsweredIn, Done, Closing, AllWell
<1>6. UNCHANGED phase /\ Done(g) /\ AllWell' => t \in TimedTasks
  BY <1>3 DEF Done, Closing, AllWell, AtWork
<1>7. FailsIn(Done(g)) /\ AllWell' => Done(g)
  BY <1>2, FaultNoted DEF FailsIn, AllWell
<1>8. faults = 0 /\ Settling(g) => rows[t].status # "running"
  BY <1>1 DEF Lives, LifeInv, ContInv, Containers, ContFits, Calm, CalmFits, Runs
<1> QED
  BY <1>1, <1>2, <1>3, <1>4, <1>5, <1>6, <1>7, <1>8 DEF CallContext

\* Nothing is written.
LEMMA RowLivesOn ==
  ASSUME NEW g \in Goroutines, NEW t \in Tasks, CallContext(g, t), rows'[t] = rows[t]
  PROVE  RowLives(t)
<1>1. Quiet(stop[t].cid) => Quiet(stop[t].cid)'
  BY StartedKept DEF CallContext, Quiet
<1>2. Served(rows[t].path) => Served(rows[t].path)'
  BY ServedKept DEF CallContext, Served
<1> QED
  BY <1>1, <1>2 DEF CallContext, RowLives, LifeFits, StopAsked

\* The return from the body.
LEMMA LeaveLife ==
  ASSUME NEW g \in Goroutines, NEW t \in Tasks, CallContext(g, t), NEW err \in BOOLEAN,
         Leave(g, err)
  PROVE  /\ gor'[g].pc \in {"markfail", "remove"} /\ gor'[g].kind = "claimed"
         /\ gor'[g].cid = gor[g].cid /\ gor'[g].task = gor[g].task
         /\ AtWork(g, t)'
<1>1. /\ gor'[g].pc \in {"markfail", "remove"} /\ gor'[g].kind = "claimed"
      /\ gor'[g].cid = gor[g].cid /\ gor'[g].task = gor[g].task
  BY LeaveFacts DEF CallContext
<1>2. gor'[g].expired = gor[g].expired
  <2> DEFINE pc == IF gor[g].cid = NoCont THEN "markfail" ELSE "remove"
  <2>1. gor' = [gor EXCEPT ![g] = [@ EXCEPT !.err = err, !.pc = pc]]
    BY DEF GorType, Leave, CallContext
  <2>2. gor'[g] = [gor[g] EXCEPT !.err = err, !.pc = pc]
    BY <2>1 DEF GorType, CallContext
  <2> QED
    BY <2>1, <2>2 DEF GorType, Goroutine, CallContext
<1> QED
  BY <1>1, <1>2 DEF CallContext, AtWork, ResultFits, WatchPCs

\* The next call.
LEMMA GotoLife ==
  ASSUME NEW g \in Goroutines, NEW t \in Tasks, CallContext(g, t), NEW pc, Goto(g, pc)
  PROVE  /\ gor'[g].pc = pc /\ gor'[g].kind = "claimed" /\ gor'[g].cid = gor[g].cid
         /\ gor'[g].task = gor[g].task /\ gor'[g].path = gor[g].path
         /\ gor'[g].expired => t \in TimedTasks
<1>1. gor'[g].expired = gor[g].expired
  BY DEF CallContext, GorType, Goto, Goroutine
<1> QED
  BY <1>1, GotoFacts DEF CallContext, AtWork

\* The check of the row before anything is started (task.go:418).
LEMMA CheckLife ==
  ASSUME NEW g \in Goroutines, NEW t \in Tasks, t = gor[g].task, CallContext(g, t), Check(g)
  PROVE  CallLife(g, t)
<1>1. /\ UNCHANGED <<rows, conts, ws, store>> /\ gor[g].pc = "check"
      /\ \/ AnsweredIn(Done(g)) /\ UNCHANGED gor
         \/ UNCHANGED phase /\ Goto(g, "start")
         \/ UNCHANGED phase /\ Leave(g, TRUE)
  BY DEF Check, At
<1>2. RowLives(t) /\ (AllWell' => AllWell)
  BY <1>1, RowLivesOn DEF CallContext
<1>3. AtWork(g, t) /\ gor[g].cid = NoCont /\ Clean(t) /\ Clean(t)'
  BY <1>1 DEF CallContext, AtWork, GorCid, Clean, Started
<1>4. /\ gor'[g].pc # "idle" /\ AtWork(g, t)' /\ gor'[g].kind = "claimed"
      /\ gor'[g].cid = gor[g].cid
  <2>1. CASE UNCHANGED gor
    BY <1>1, <1>3, <2>1 DEF CallContext, AtWork, ResultFits, WatchPCs
  <2>2. CASE Goto(g, "start")
    BY <1>3, <2>2, GotoLife DEF AtWork, ResultFits, WatchPCs
  <2>3. CASE Leave(g, TRUE)
    BY <2>3, LeaveLife
  <2> QED
    BY <1>1, <2>1, <2>2, <2>3
<1>5. Left(g)'
  BY <1>3, <1>4 DEF Left
<1> QED
  BY <1>1, <1>2, <1>4, <1>5 DEF CallLife, ResultKept, Started

\* StartContainer (client.go:76): the container it starts is the only one of the task.
LEMMA StartLife ==
  ASSUME NEW g \in Goroutines, NEW t \in Tasks, t = gor[g].task, CallContext(g, t),
         Start(g) \/ StartFails(g) \/ StartCutShort(g)
  PROVE  CallLife(g, t)
<1>1. /\ UNCHANGED <<rows, ws, store, phase>> /\ gor[g].pc = "start"
      /\ gor \in [Goroutines -> Goroutine]
      /\ conts \in [Conts -> [task : Tasks \cup {NoTask}, st : ContStates]]
  BY DEF Start, StartFails, StartCutShort, At, CallContext, GorType, PlatformTypeOK
<1>2. RowLives(t) /\ (AllWell' => AllWell)
  BY <1>1, RowLivesOn DEF CallContext
<1>3. /\ gor[g].cid = NoCont /\ rows[t].cid = NoCont /\ rows[t].status # "stopped"
      /\ "partial" \notin ws[t] /\ (\A c \in Conts : ~Started(c, t))
  BY <1>1 DEF CallContext, AtWork, GorCid, Clean
<1>4. CASE Start(g)
  <2>1. PICK c \in Conts :
          /\ conts[c].st = "unused"
          /\ conts' = [conts EXCEPT ![c] = [task |-> gor[g].task, st |-> "running"]]
          /\ gor' = [gor EXCEPT ![g].pc = "markrun", ![g].cid = c]
    BY <1>4 DEF Start
  <2>2. /\ gor'[g].pc = "markrun" /\ gor'[g].cid = c /\ gor'[g].kind = gor[g].kind
        /\ gor'[g].expired = gor[g].expired
    BY <1>1, <2>1 DEF Goroutine
  <2>3. conts'[c].task = t /\ \A d \in Conts \ {c} : conts'[d] = conts[d]
    BY <1>1, <2>1
  <2>4. AtWork(g, t)'
    <3>1. \A d \in Conts : Started(d, t)' => d = c
      BY <1>3, <2>3 DEF Started
    <3> QED
      BY <1>1, <1>3, <2>2, <3>1 DEF AtWork, ResultFits, CallContext
  <2>5. Left(g)'
    BY <2>2 DEF Left, DeferredPCs
  <2> QED
    BY <1>1, <1>2, <1>3, <2>2, <2>3, <2>4, <2>5 DEF CallLife, ResultKept, Started, CallContext
<1>5. CASE Leave(g, TRUE) /\ (UNCHANGED conts \/ StartCutShort(g))
  <2>1. /\ gor'[g].pc \in {"markfail", "remove"} /\ gor'[g].kind = "claimed"
        /\ gor'[g].cid = gor[g].cid /\ AtWork(g, t)'
    BY <1>5, LeaveLife
  <2>2. Left(g)'
    BY <1>3, <2>1 DEF Left
  <2>3. CASE UNCHANGED conts
    BY <1>1, <1>2, <2>1, <2>2, <2>3 DEF CallLife, ResultKept, Started
  <2>4. CASE StartCutShort(g)
    <3>1. AllWell' => t \in TimedTasks
      BY <1>1, <2>4 DEF StartCutShort, CallContext
    <3>2. PICK c \in Conts, st \in {"created", "running"} :
            conts' = [conts EXCEPT ![c] = [task |-> gor[g].task, st |-> st]]
      BY <2>4 DEF StartCutShort
    <3>3. conts'[c].task = t /\ \A d \in Conts \ {c} : conts'[d] = conts[d]
      BY <1>1, <3>2
    <3> QED
      BY <1>1, <1>2, <2>1, <2>2, <3>1, <3>3 DEF CallLife, ResultKept, Started
  <2> QED
    BY <1>5, <2>3, <2>4
<1> QED
  BY <1>4, <1>5 DEF StartFails, StartCutShort

\* The mark "running": no stop request has an id before it (task.go:183, :448).
LEMMA MarkRunLife ==
  ASSUME NEW g \in Goroutines, NEW t \in Tasks, t = gor[g].task, CallContext(g, t), MarkRun(g)
  PROVE  CallLife(g, t)
<1>1. /\ UNCHANGED <<conts, ws, store, phase>> /\ gor[g].pc = "markrun" /\ rows \in Tables
      /\ rows' = rows \/ rows' = MarkRunning(rows, t, gor[g].cid)
      /\ \/ /\ Goto(g, "wait") /\ rows[t].status # "absent"
            /\ rows' = MarkRunning(rows, t, gor[g].cid)
         \/ Leave(g, TRUE) /\ (rows[t].status = "absent" \/ FailsIn(Done(g)))
  BY DEF MarkRun, At, CallContext, Exists
<1>2. /\ rows[t].cid = NoCont /\ rows[t].status # "stopped" /\ gor[g].cid # NoCont
      /\ (AllWell' => AllWell)
  BY <1>1 DEF CallContext, AtWork, GorCid
<1>3. \/ rows'[t] = rows[t]
      \/ /\ rows[t].status # "absent" /\ rows'[t].status = "running"
         /\ stop[t].pc \notin {"mark", "stop"}
  BY <1>1, <1>2, RunningMark DEF CallContext, LifeFits, StopAsked
<1>4. RowLives(t)
  <2>1. CASE rows'[t] = rows[t]
    BY <2>1, RowLivesOn
  <2>2. CASE /\ rows[t].status # "absent" /\ rows'[t].status = "running"
             /\ stop[t].pc \notin {"mark", "stop"}
    <3>1. rows[t].status \notin Terminal
      BY <1>1, <1>2, <2>2 DEF CallContext, RowFits, Runs, Terminal, Open, DeferredPCs
    <3> QED
      BY <2>2, <3>1 DEF RowLives, StopAsked, CallContext
  <2> QED
    BY <1>3, <2>1, <2>2
<1>5. CASE Goto(g, "wait") /\ rows[t].status # "absent" /\ rows' = MarkRunning(rows, t, gor[g].cid)
  <2>1. /\ gor'[g].pc = "wait" /\ gor'[g].kind = "claimed" /\ gor'[g].cid = gor[g].cid
        /\ gor'[g].expired => t \in TimedTasks
    BY <1>5, GotoLife
  <2>2. AtWork(g, t)'
    <3>1. "partial" \in ws[t] => NoResult(gor[g].cid)
      BY <1>1, <1>2, <1>5 DEF CallContext, AtWork, ResultFits
    <3>2. \A c \in Conts : Started(c, t)' => c = gor[g].cid
      BY <1>1 DEF CallContext, AtWork, Started
    <3> QED
      BY <1>1, <2>1, <3>1, <3>2 DEF AtWork, ResultFits, NoResult
  <2>3. Left(g)'
    BY <2>1 DEF Left, DeferredPCs
  <2> QED
    BY <1>1, <1>2, <1>4, <2>1, <2>2, <2>3 DEF CallLife, ResultKept, Started
<1>6. CASE Leave(g, TRUE) /\ (rows[t].status = "absent" \/ FailsIn(Done(g)))
  <2>1. /\ gor'[g].pc \in {"markfail", "remove"} /\ gor'[g].kind = "claimed"
        /\ gor'[g].cid = gor[g].cid /\ AtWork(g, t)' /\ gor'[g].task = t
    BY <1>6, LeaveLife
  <2>2. rows[t].status = "absent" => t \in deletions'
    BY DEF CallContext, LifeFits, InHands, Runs
  <2>3. AllWell' => Left(g)'
    BY <1>1, <1>6, <2>1, <2>2 DEF Left, CallContext
  <2> QED
    BY <1>1, <1>2, <1>4, <2>1, <2>3 DEF CallLife, ResultKept, Started
<1> QED
  BY <1>1, <1>5, <1>6

\* A goroutine that leaves its body has a container that does not run, or one that is
\* excepted.
LEMMA LeaveCall ==
  ASSUME NEW g \in Goroutines, NEW t \in Tasks, t = gor[g].task, CallContext(g, t),
         NEW err \in BOOLEAN, Leave(g, err),
         UNCHANGED <<conts, ws>>, RowLives(t), AllWell' => AllWell,
         AllWell' => t \in TimedTasks \cup deletions \/ Quiet(gor[g].cid)
  PROVE  CallLife(g, t)
<1>1. /\ gor'[g].pc \in {"markfail", "remove"} /\ gor'[g].kind = "claimed"
      /\ gor'[g].cid = gor[g].cid /\ AtWork(g, t)' /\ gor'[g].task = t
  BY LeaveLife
<1>2. AllWell' => Left(g)'
  BY <1>1 DEF Left, CallContext, Quiet
<1> QED
  BY <1>1, <1>2 DEF CallLife, ResultKept, Started

\* WaitContainer (client.go:143): a container that was stopped or failed is not found to
\* have ended well, unless the row says stopped by then.
LEMMA WaitLife ==
  ASSUME NEW g \in Goroutines, NEW t \in Tasks, t = gor[g].task, CallContext(g, t), Wait(g)
  PROVE  CallLife(g, t)
<1>1. /\ UNCHANGED <<rows, conts, ws, store, phase>> /\ gor[g].pc = "wait"
      /\ Started(gor[g].cid, t) /\ AtWork(g, t)
  BY DEF Wait, At, CallContext, GorCid, WatchPCs
<1>2. RowLives(t) /\ (AllWell' => AllWell)
  BY <1>1, RowLivesOn DEF CallContext
<1>3. ASSUME Leave(g, TRUE), conts[gor[g].cid].st \in {"failed", "removed"} \/ Fault
      PROVE  CallLife(g, t)
  <2>1. AllWell' => Quiet(gor[g].cid)
    BY <1>1, <1>3, FaultNoted DEF CallContext, AllWell, Quiet, Started
  <2> QED
    BY <1>1, <1>2, <1>3, <2>1, LeaveCall
<1>4. ASSUME NEW pc \in {"recheck", "stopc"}, Goto(g, pc),
             pc = "recheck" => conts[gor[g].cid].st = "exited0"
      PROVE  CallLife(g, t)
  <2>1. /\ gor'[g].pc = pc /\ gor'[g].kind = "claimed" /\ gor'[g].cid = gor[g].cid
        /\ gor'[g].expired => t \in TimedTasks
    BY <1>4, GotoLife
  <2>2. ResultFits(g, t)'
    BY <1>1, <1>4, <2>1 DEF AtWork, ResultFits, NoResult
  <2>3. AtWork(g, t)'
    BY <1>1, <2>1, <2>2 DEF AtWork, WatchPCs, Started
  <2>4. Left(g)'
    BY <2>1 DEF Left, DeferredPCs
  <2> QED
    BY <1>1, <1>2, <2>1, <2>3, <2>4 DEF CallLife, ResultKept, Started
<1> QED
  BY <1>3, <1>4 DEF Wait

\* The two calls of the timeout branch (task.go:476).
LEMMA ExpiredLife ==
  ASSUME NEW g \in Goroutines, NEW t \in Tasks, t = gor[g].task, CallContext(g, t),
         StopExpired(g) \/ MarkExpired(g)
  PROVE  CallLife(g, t)
<1>1. /\ UNCHANGED <<store, phase>> /\ gor[g].pc \in {"stopc", "marks"}
      /\ Started(gor[g].cid, t) /\ AtWork(g, t) /\ (AllWell' => AllWell)
      /\ rows \in Tables /\ PlatformTypeOK
  BY DEF StopExpired, MarkExpired, At, CallContext, GorCid, WatchPCs
<1>2. CASE StopExpired(g)
  <2>1. /\ rows' = rows /\ Goto(g, "marks")
        /\ Stopped(gor[g].cid) \/ (UNCHANGED <<conts, ws>> /\ faults' # 0)
    BY <1>1, <1>2, FaultNoted DEF StopExpired
  <2>2. /\ gor'[g].pc = "marks" /\ gor'[g].kind = "claimed" /\ gor'[g].cid = gor[g].cid
        /\ gor'[g].task = t /\ (gor'[g].expired => t \in TimedTasks)
    BY <2>1, GotoLife
  <2>3. /\ \A u \in Tasks \ {t} : ResultKept(u)
        /\ \A u \in Tasks, c \in Conts : Started(c, u)' => Started(c, u)
        /\ faults' = 0 => Quiet(gor[g].cid)'
        /\ \A c \in Conts : conts'[c].st = "running" => conts[c].st = "running"
    BY <1>1, <2>1, <2>2 DEF Stopped, SetState, PlatformTypeOK, ResultKept, Started, Quiet
  <2>4. RowLives(t)
    BY <2>1, RowLivesOn
  <2>5. AtWork(g, t)'
    BY <1>1, <2>2, <2>3 DEF AtWork, ResultFits, WatchPCs
  <2>6. AllWell' => Left(g)'
    BY <2>3 DEF Left, AllWell
  <2> QED
    BY <1>1, <2>2, <2>3, <2>4, <2>5, <2>6 DEF CallLife
<1>3. CASE MarkExpired(g)
  <2>1. /\ UNCHANGED <<conts, ws>> /\ Leave(g, TRUE) /\ gor[g].pc = "marks"
        /\ rows' = rows \/ rows' = SetStatus(rows, t, "stopped")
    BY <1>3 DEF MarkExpired, MarkStopped, At
  <2>2. rows'[t] = rows[t] \/ (rows'[t].status = "stopped" /\ rows'[t].cid = rows[t].cid
                               /\ rows[t].status # "absent")
    BY <1>1, <2>1, StatusMark
  <2>3. RowLives(t)
    <3>1. rows'[t].status = "stopped" /\ rows'[t].cid = rows[t].cid /\ rows[t].status # "absent"
            => RowLives(t)
      BY DEF RowLives, CallContext, LifeFits, StopAsked, Terminal
    <3> QED
      BY <2>2, <3>1, RowLivesOn
  <2>4. AllWell' => t \in TimedTasks \cup deletions \/ Quiet(gor[g].cid)
    BY <1>1, <2>1 DEF CallContext, Left, GorCid, WatchPCs
  <2> QED
    BY <1>1, <2>1, <2>3, <2>4, LeaveCall
<1> QED
  BY <1>2, <1>3

\* From the check of the status to the mark "completed" (task.go:495-:528): the result
\* that is taken is complete.
LEMMA SaveLife ==
  ASSUME NEW g \in Goroutines, NEW t \in Tasks, t = gor[g].task, CallContext(g, t),
         Recheck(g) \/ Upload(g) \/ Complete(g)
  PROVE  CallLife(g, t)
<1>1. /\ UNCHANGED <<conts, ws>> /\ gor[g].pc \in SavePCs
      /\ AtWork(g, t) /\ (AllWell' => AllWell) /\ Quiet(gor[g].cid)
      /\ rows \in Tables /\ PlatformTypeOK /\ GorType
  BY DEF Recheck, Upload, Complete, At, CallContext, GorCid, SavePCs
<1>2. ASSUME NEW err \in BOOLEAN, Leave(g, err), RowLives(t) PROVE CallLife(g, t)
  BY <1>1, <1>2, LeaveCall
<1>3. CASE Recheck(g)
  <2>1. /\ UNCHANGED <<rows, store>> /\ gor[g].pc = "recheck"
        /\ \/ UNCHANGED gor
           \/ Leave(g, FALSE) \/ Leave(g, TRUE)
           \/ Goto(g, "upload") /\ rows[t].status \notin {"stopped", "absent"}
    BY <1>3 DEF Recheck, At, Exists
  <2>2. RowLives(t)
    BY <2>1, RowLivesOn
  <2>3. ASSUME \/ UNCHANGED gor
               \/ Goto(g, "upload") /\ rows[t].status \notin {"stopped", "absent"}
        PROVE  CallLife(g, t)
    <3>1. /\ gor'[g].pc \in {"recheck", "upload"} /\ gor'[g].kind = "claimed"
          /\ gor'[g].cid = gor[g].cid /\ (gor'[g].expired => t \in TimedTasks)
          /\ gor'[g].pc = "upload" => rows[t].status \notin {"stopped", "absent"}
      BY <2>1, <2>3, GotoLife DEF CallContext, AtWork
    <3>2. ResultFits(g, t)'
      BY <1>1, <2>1, <3>1 DEF AtWork, ResultFits
    <3>3. AtWork(g, t)'
      BY <1>1, <2>1, <3>1, <3>2 DEF AtWork, WatchPCs, Started
    <3>4. Left(g)'
      BY <3>1 DEF Left, DeferredPCs
    <3> QED
      BY <1>1, <2>2, <3>1, <3>3, <3>4 DEF CallLife, ResultKept, Started
  <2> QED
    BY <1>2, <2>1, <2>2, <2>3
<1>4. CASE Upload(g)
  <2>1. /\ UNCHANGED rows /\ gor[g].pc = "upload"
        /\ \/ Leave(g, TRUE)
           \/ \E f \in Results(t) :
                /\ store' = [store EXCEPT ![t] = @ \cup {f}]
                /\ gor' = [gor EXCEPT ![g].pc = "complete", ![g].path = <<t, f>>]
    BY <1>4 DEF Upload, At
  <2>2. RowLives(t)
    BY <2>1, RowLivesOn
  <2>3. ASSUME NEW f \in Results(t), store' = [store EXCEPT ![t] = @ \cup {f}],
               gor' = [gor EXCEPT ![g].pc = "complete", ![g].path = <<t, f>>]
        PROVE  CallLife(g, t)
    <3>1. f = "full" /\ "partial" \notin ws[t]
      BY <1>1, <2>1 DEF AtWork, ResultFits, Results, Files
    <3>2. "full" \in store'[t]
      BY <1>1, <2>3, <3>1 DEF PlatformTypeOK
    <3>3. /\ gor'[g].pc = "complete" /\ gor'[g].path = <<t, "full">> /\ gor'[g].kind = gor[g].kind
          /\ gor'[g].cid = gor[g].cid /\ gor'[g].expired = gor[g].expired
      BY <1>1, <2>3, <3>1 DEF GorType, Goroutine
    <3>4. AtWork(g, t)'
      BY <1>1, <2>1, <3>1, <3>2, <3>3 DEF AtWork, ResultFits, WatchPCs, Started, Served
    <3>5. Left(g)'
      BY <3>3 DEF Left, DeferredPCs
    <3> QED
      BY <1>1, <2>2, <3>3, <3>4, <3>5 DEF CallLife, ResultKept, Started, CallContext
  <2> QED
    BY <1>2, <2>1, <2>2, <2>3
<1>5. CASE Complete(g)
  <2>1. /\ UNCHANGED store /\ gor[g].pc = "complete"
        /\ rows' = rows \/ rows' = MarkCompleted(rows, t, gor[g].path)
        /\ Leave(g, TRUE) \/ Leave(g, FALSE)
    BY <1>5 DEF Complete, At, Exists
  <2>2. rows'[t] = rows[t] \/ (/\ rows'[t].status = "completed" /\ rows'[t].cid = rows[t].cid
                               /\ rows'[t].path = gor[g].path /\ rows[t].status # "absent")
    BY <1>1, <2>1, CompletedMark
  <2>3. ASSUME rows'[t].status = "completed", rows'[t].cid = rows[t].cid,
               rows'[t].path = gor[g].path, rows[t].status # "absent"
        PROVE  RowLives(t)
    <3>1. Served(gor[g].path) /\ \A c \in Conts : Started(c, t) => c = gor[g].cid
      BY <1>1, <2>1 DEF AtWork, WatchPCs
    <3>2. Served(rows[t].path)'
      BY <2>3, <3>1, ServedKept DEF Served, CallContext
    <3>3. stop[t].pc = "stop" => Quiet(stop[t].cid)'
      BY <1>1, <3>1 DEF CallContext, CidFits, Started, Quiet
    <3> QED
      BY <2>3, <3>2, <3>3 DEF RowLives, CallContext, LifeFits, StopAsked, Terminal
  <2>4. RowLives(t)
    BY <2>2, <2>3, RowLivesOn
  <2> QED
    BY <1>2, <2>1, <2>4
<1> QED
  BY <1>3, <1>4, <1>5

\* The deferred calls (task.go:404, :408, :440): the row is settled before the goroutine
\* ends.
LEMMA DeferredLife ==
  ASSUME NEW g \in Goroutines, NEW t \in Tasks, t = gor[g].task, CallContext(g, t),
         RemoveCont(g) \/ MarkFail(g) \/ Finish(g)
  PROVE  CallLife(g, t)
<1>1. /\ UNCHANGED <<store, phase>> /\ gor[g].pc \in DeferredPCs
      /\ AtWork(g, t) /\ (AllWell' => AllWell) /\ rows \in Tables /\ PlatformTypeOK
  BY DEF RemoveCont, MarkFail, Finish, At, CallContext, DeferredPCs
<1>2. /\ rows' = rows \/ (rows' = SetStatus(rows, t, "failed") /\ rows[t].status # "stopped")
  BY DEF RemoveCont, MarkFail, Finish, MarkFailed
<1>3. RowLives(t)
  <2>1. rows'[t] = rows[t] \/ (/\ rows'[t].status = "failed" /\ rows'[t].cid = rows[t].cid
                               /\ rows[t].status \notin {"stopped", "absent"})
    BY <1>1, <1>2, StatusMark
  <2>2. ASSUME rows'[t].status = "failed", rows'[t].cid = rows[t].cid,
               rows[t].status \notin {"stopped", "absent"}
        PROVE  RowLives(t)
    <3>1. stop[t].pc = "stop" => Quiet(stop[t].cid)'
      BY <2>2, StartedKept DEF CallContext, LifeFits, StopAsked, Quiet
    <3> QED
      BY <2>2, <3>1 DEF RowLives, CallContext, LifeFits, StopAsked, Terminal
  <2> QED
    BY <2>1, <2>2, RowLivesOn
<1>4. /\ \A u \in Tasks \ {t} : ResultKept(u)
      /\ \A u \in Tasks, c \in Conts : Started(c, u)' => Started(c, u)
      /\ \A c \in Conts : conts'[c].st = "running" => conts[c].st = "running"
  <2>1. (ws' = ws \/ ws' = [ws EXCEPT ![t] = {}]) /\ (Removed(gor[g].cid) \/ UNCHANGED conts)
    BY DEF RemoveCont, MarkFail, Finish, Cleaned
  <2> QED
    BY <1>1, <2>1 DEF Removed, SetState, PlatformTypeOK, ResultKept, Started
<1>5. CASE RemoveCont(g) \/ MarkFail(g)
  <2>1. PICK pc \in {"markfail", "cleanup"} : Goto(g, pc)
    BY <1>5 DEF RemoveCont, MarkFail
  <2>2. /\ gor'[g].pc = pc /\ gor'[g].kind = "claimed" /\ gor'[g].cid = gor[g].cid
        /\ gor'[g].task = t /\ (gor'[g].expired => t \in TimedTasks)
    BY <2>1, GotoLife
  <2>3. AtWork(g, t)'
    BY <2>2 DEF AtWork, ResultFits, WatchPCs
  <2>4. AllWell' => Left(g)'
    <3>1. Quiet(gor[g].cid) => Quiet(gor[g].cid)'
      BY <2>2, StartedKept DEF CallContext, Quiet
    <3> QED
      BY <1>1, <2>2, <3>1 DEF CallContext, Left
  <2> QED
    BY <1>1, <1>3, <1>4, <2>2, <2>3, <2>4 DEF CallLife
<1>6. CASE Finish(g)
  <2>1. gor'[g] = Idle /\ gor[g].pc = "cleanup" /\ rows' = rows
    BY <1>6 DEF Finish, At, CallContext, GorType
  <2>2. AllWell' => Left(g)' /\ rows'[t].status # "running"
    BY <1>1, <2>1 DEF Left, DeferredPCs, Idle, CallContext, Settling, AllWell
  <2> QED
    BY <1>1, <1>3, <1>4, <2>1, <2>2 DEF CallLife, Idle
<1> QED
  BY <1>5, <1>6

\* A call of a goroutine, seen from all tasks.
LEMMA StepLife ==
  ASSUME Lives, WorkerFrame, NEW g \in Goroutines, Step(g)
  PROVE  FirstLife' /\ NoneRevived
<1> PICK t \in Tasks : t = gor[g].task
  BY StepMoves DEF Lives, LifeInv, ContInv
<1>1. CallContext(g, t) /\ CallLife(g, t)
  BY CallFacts, CheckLife, StartLife, MarkRunLife, WaitLife, ExpiredLife, SaveLife,
     DeferredLife DEF Step
<1>2. /\ Up /\ gor[g].pc # "idle" /\ UNCHANGED <<worker, recoverQ, rescue, run, stop, deletions>>
      /\ RowMoves(t) /\ GorMoves(g)
  BY StepMoves DEF Lives, LifeInv, ContInv, WorkerFrame, gcVars, apiVars, histVars
<1>3. /\ FirstLife /\ Owned(t) /\ LifeFits(t) /\ Runs(g, t) /\ ContsMove
  BY <1>2 DEF Lives, LifeInv, ContInv, OwnInv, Ownership, FirstLife, Runs, Moves
<1>4. /\ \A h \in Goroutines \ {g} : gor'[h] = gor[h] /\ ~Runs(h, t)
      /\ gor'[g].pc # "idle" => gor'[g].task = t
      /\ \A u \in Tasks \ {t} : rows'[u] = rows[u]
      /\ rows'[t].status = "absent" => rows[t].status = "absent"
      /\ rows'[t].status \in Over
      /\ ~InHand(t) /\ ~InRecoverQ(t) /\ ~Pending(t)
  <2>1. rows[t].status \in Over
    BY <1>3 DEF Owned, RowFits, Over
  <2>2. /\ rows'[t].status = "absent" => rows[t].status = "absent"
        /\ rows'[t].status \in Over
    BY <1>2, <2>1 DEF RowMoves, SameRow, BecomesRunning, BecomesCompleted, BecomesFailed,
                      BecomesStopped, Over, Open
  <2> QED
    BY <1>2, <1>3, <2>2 DEF Owned, OneHand, RowFits, InHands, GorMoves, RowMoves, OthersKept
<1>5. ASSUME NEW u \in Tasks \ {t}, NEW h \in Goroutines
      PROVE  (Runs(h, u)' <=> Runs(h, u)) /\ (Runs(h, u) => h # g /\ gor'[h] = gor[h])
  BY <1>3, <1>4 DEF Runs
<1>6. \A u \in Tasks : (InHand(u)' <=> InHand(u)) /\ (InRecoverQ(u)' <=> InRecoverQ(u))
  BY <1>2 DEF InHand, InRecoverQ
<1>7. ASSUME NEW u \in Tasks \ {t} PROVE LifeMoves(u) /\ (InHands(u)' <=> InHands(u))
  <2>1. InHands(u)' <=> InHands(u)
    BY <1>5, <1>6 DEF InHands
  <2>2. \A h \in Goroutines : Runs(h, u)' => RunGoes(h, u)
    BY <1>5 DEF RunGoes
  <2>3. RowGoes(u)
    BY <1>4 DEF RowGoes
  <2>4. InHand(u)' \/ Pending(u)' => Waiting(u)
    BY <1>2, <1>6 DEF Pending, Waiting
  <2>5. ResultKept(u) /\ \A c \in Conts : Started(c, u)' => Started(c, u)
    BY <1>1 DEF CallLife
  <2> QED
    BY <1>2, <2>1, <2>2, <2>3, <2>4, <2>5 DEF LifeMoves
<1>8. LifeFits(t)'
  <2>1. ~Waiting(t)'
    BY <1>2, <1>4, <1>6 DEF Waiting, Pending, Over, Open
  <2>2. \A h \in Goroutines : Runs(h, t)' => AtWork(h, t)'
    BY <1>1, <1>4 DEF Runs, CallLife
  <2>3. rows'[t].status # "absent" \/ t \in deletions'
    BY <1>2, <1>3, <1>4 DEF LifeFits, InHands
  <2>4. run'[t].path # NoPath => Served(run[t].path)'
    BY <1>2, <1>3, ServedKept DEF LifeFits, Served, Lives, Moves
  <2> QED
    BY <1>1, <2>1, <2>2, <2>3, <2>4 DEF LifeFits, CallLife, RowLives
<1>9. rows[t].status \in Terminal => rows'[t].status \in Terminal \cup {"absent"}
  BY <1>1 DEF CallLife, RowLives
<1>10. AllWell' => Agents'
  <2> SUFFICES ASSUME AllWell' PROVE Agents'
    OBVIOUS
  <2>1. Agents
    BY <1>1, <1>3 DEF CallLife, FirstLife
  <2>2. ASSUME NEW u \in Tasks, rows'[u].status = "running" PROVE InHands(u)'
    <3>1. CASE u = t
      BY <1>1, <1>4, <2>2, <3>1 DEF CallLife, InHands, Runs
    <3>2. CASE u # t
      BY <1>4, <1>7, <2>1, <2>2, <3>2 DEF Agents
    <3> QED
      BY <3>1, <3>2
  <2>3. ASSUME NEW h \in Goroutines PROVE Left(h)'
    <3>1. CASE h = g
      BY <1>1, <3>1 DEF CallLife
    <3>2. CASE h # g
      <4>1. gor'[h] = gor[h] /\ Left(h)
        BY <1>4, <2>1, <3>2 DEF Agents
      <4>2. Quiet(gor[h].cid) => Quiet(gor[h].cid)'
        BY <1>3, <4>1, StartedKept DEF Quiet
      <4> QED
        BY <1>2, <4>1, <4>2 DEF Left
    <3> QED
      BY <3>1, <3>2
  <2>4. ASSUME NEW c \in Conts, conts'[c].st = "running",
               conts'[c].task \notin TimedTasks \cup deletions'
        PROVE  \E h \in Goroutines : gor'[h].pc # "idle" /\ gor'[h].cid = c
    <3>1. conts[c].st = "running" \/ (gor'[g].pc # "idle" /\ gor'[g].cid = c)
      BY <1>1, <2>4 DEF CallLife
    <3>2. CASE conts[c].st = "running"
      <4>1. conts[c].task \notin TimedTasks \cup deletions
        BY <1>2, <1>3, <2>4, <3>2 DEF ContsMove
      <4>2. PICK h \in Goroutines : gor[h].pc # "idle" /\ gor[h].cid = c
        BY <2>1, <3>2, <4>1 DEF Agents
      <4>3. CASE h # g
        BY <1>4, <4>2, <4>3
      <4>4. CASE h = g /\ gor'[g].pc # "idle"
        <5>1. c # NoCont
          BY StoreAssumption
        <5> QED
          BY <1>1, <4>2, <4>4, <5>1 DEF CallLife
      <4>5. CASE h = g /\ gor'[g].pc = "idle"
        <5>1. c # NoCont
          BY StoreAssumption
        <5>2. gor[g].pc = "cleanup" /\ conts[c].task = t /\ Left(g)
          BY <1>1, <2>1, <4>2, <4>5, <5>1 DEF CallLife, CallContext, GorCid, Started, Agents
        <5> QED
          BY <3>2, <4>1, <4>2, <4>5, <5>1, <5>2 DEF Left, DeferredPCs, Quiet
      <4> QED
        BY <4>3, <4>4, <4>5
    <3> QED
      BY <3>1, <3>2
  <2> QED
    BY <2>2, <2>3, <2>4 DEF Agents
<1>11. NoRecovery'
  <2>1. \A h \in Goroutines : gor'[h].kind \in {gor[h].kind, "claimed"}
    BY <1>1, <1>4 DEF CallLife
  <2> QED
    BY <1>2, <1>3, <2>1, NoRecoveryKept DEF FirstLife, NoRecovery
<1> QED
  BY <1>2, <1>7, <1>8, <1>9, <1>10, <1>11, PathKept, LifeStep

\* The loop and the goroutines; there is no recovered task to take.
LEMMA WorkerLife ==
  ASSUME Lives, WorkerPart
  PROVE  FirstLife' /\ NoneRevived
<1>1. ASSUME NEW g \in Goroutines, TakeRecovered(g) PROVE FALSE
  BY <1>1 DEF Lives, FirstLife, NoRecovery, TakeRecovered
<1> QED
  BY <1>1, QuietLoopLife, ClaimLife, MarkCachedLife, StartTaskLife, ExpireLife, StepLife
     DEF WorkerPart, WorkerNext, LoopNext

-----------------------------------------------------------------------------
(* The invariant *)

\* A service that has never run: an empty table and no containers.
LEMMA InitLifeInv == Init => LifeInv
<1> SUFFICES ASSUME Init PROVE FirstLife
  BY InitContInv DEF LifeInv
<1>1. /\ rows = [t \in Tasks |-> NoRow] /\ conts = [c \in Conts |-> Unused]
      /\ ws = [t \in Tasks |-> {}] /\ worker = LoopStart
      /\ recoverQ = <<>> /\ gor = [g \in Goroutines |-> Idle]
      /\ rescue = [t \in Tasks |-> NoRescue]
      /\ run = [t \in Tasks |-> NewRun] /\ stop = [t \in Tasks |-> NoStop]
  BY DEF Init, PlatformInit, WorkerInit, GcInit, ApiInit
<1>2. /\ \A g \in Goroutines : gor[g].pc = "idle" /\ gor[g].kind = "claimed"
      /\ \A t \in Tasks : /\ rows[t].status = "absent" /\ rows[t].cid = NoCont
                          /\ run[t].pc = "new" /\ run[t].path = NoPath
                          /\ stop[t].pc = "none" /\ rescue[t].pc = "idle" /\ ws[t] = {}
      /\ \A c \in Conts : conts[c].st = "unused"
      /\ worker.pc = "tick"
  BY <1>1 DEF Idle, NoRow, NewRun, NoStop, NoRescue, Unused, LoopStart
<1>3. NoRecovery
  BY <1>1, <1>2 DEF NoRecovery
<1>4. ASSUME NEW t \in Tasks PROVE LifeFits(t)
  <2>1. Clean(t) /\ StopAsked(t)
    BY <1>2 DEF Clean, Started, StopAsked
  <2>2. ~InHands(t) /\ \A g \in Goroutines : ~Runs(g, t)
    BY <1>1, <1>2 DEF InHands, InHand, InRecoverQ, Runs
  <2> QED
    BY <1>2, <2>1, <2>2 DEF LifeFits
<1>5. Agents
  BY <1>2 DEF Agents, Left, DeferredPCs
<1> QED
  BY <1>2, <1>3, <1>4, <1>5 DEF FirstLife

\* What a step does as long as the process has not ended.
LEMMA NextFirstLife ==
  ASSUME LifeInv, ~restarted, Next
  PROVE  (~restarted' => FirstLife') /\ NoneRevived
<1>1. CASE ProcessEnds
  BY <1>1 DEF ProcessEnds, NoneRevived
<1>2. CASE Moves
  <2>1. Lives
    BY <1>2, NextMovesStore DEF Lives, LifeInv, ContInv, OwnInv
  <2> QED
    BY <2>1, WorkerLife, GcLife, ApiLife, SchedLife, EnvLife, ProcessLife DEF Next
<1> QED
  BY <1>1, <1>2, NextMoves DEF LifeInv, ContInv

\* The process has ended once and for all.
LEMMA RestartedStays ==
  ASSUME Next
  PROVE  ~restarted' => ~restarted
BY DEF Next, WorkerPart, WorkerFrame, GcPart, GcFrame, ApiPart, ApiFrame, SchedPart,
       SchedFrame, EnvPart, EnvFrame, Process, ProcessEnds, Boot, Crash, Abort, Terminate,
       Exit, ExitEarly, histVars

\* Every step keeps the invariant.
LEMMA NextLifeInv == LifeInv /\ [Next]_vars => LifeInv'
<1> SUFFICES ASSUME LifeInv, [Next]_vars PROVE ~restarted' => FirstLife'
  BY NextContInv DEF LifeInv
<1>1. CASE Next
  BY <1>1, NextFirstLife, RestartedStays
<1>2. CASE UNCHANGED vars
  <2>1. UNCHANGED <<rows, conts, ws, store, faults, phase, worker, recoverQ, gor, rescue, run,
                    stop, deletions, restarted>>
    BY <1>2 DEF vars, platformVars, workerVars, gcVars, apiVars, histVars
  <2>2. ASSUME ~restarted PROVE FirstLife'
    <3>1. Lives /\ NoneStarted
      BY <2>1, <2>2 DEF Lives, LifeInv, Moves, ContsMove, StoreMoves, NoneStarted
    <3>2. \A u \in Tasks : LifeMoves(u)
      BY <2>1, <3>1, HandsOff DEF RowGoes, Waiting, Pending, ResultKept
    <3>3. (\A u \in Tasks : rescue'[u].pc = "idle") /\ (AllWell' => AllWell)
      BY <2>1, <3>1 DEF Lives, FirstLife, NoRecovery, AllWell
    <3> QED
      BY <2>1, <3>1, <3>2, <3>3, OutsideLife
  <2> QED
    BY <2>1, <2>2
<1> QED
  BY <1>1, <1>2

\* The invariant from which the theorems follow.
THEOREM LifeInvariant == Spec => []LifeInv
<1> QED
  BY InitLifeInv, NextLifeInv, PTL DEF Spec

\* In the life of one process a completed task names the complete result of a program that
\* ended well, and the object is there unless its task is being deleted.
THEOREM ResultsServed == Spec => []CompletedServesResult
<1>1. LifeInv => CompletedServesResult
  <2> SUFFICES ASSUME LifeInv, NEW t \in Tasks, rows[t].status = "completed", ~restarted
               PROVE  Served(rows[t].path)
    BY DEF CompletedServesResult, Served
  <2> QED
    BY DEF LifeInv, FirstLife, LifeFits
<1> QED
  BY <1>1, LifeInvariant, PTL

\* In the life of one process, as long as no call failed and no shutdown has begun, a task
\* whose row says running is in the hands of the loop or of a goroutine.
THEOREM AgentsAtWork == Spec => []RunningHasAgent
<1>1. LifeInv => RunningHasAgent
  <2> SUFFICES ASSUME LifeInv, NEW t \in Tasks, rows[t].status = "running", ~restarted,
                      faults = 0, phase # "closing"
               PROVE  InHand(t) \/ RunBy(t) # {}
    BY DEF RunningHasAgent
  <2>1. InHands(t) /\ recoverQ = <<>>
    BY DEF LifeInv, FirstLife, Agents, AllWell, NoRecovery
  <2> QED
    BY <2>1 DEF InHands, InRecoverQ, Runs, RunBy, Live
<1> QED
  BY <1>1, LifeInvariant, PTL

\* In the life of one process, as long as no call failed and no shutdown has begun, a
\* goroutine will remove every container that runs, those of a start cut short and of
\* deleted tasks excepted.
THEOREM ContainersHaveOwners == Spec => []ContainersOwned
<1>1. LifeInv => ContainersOwned
  BY DEF LifeInv, FirstLife, Agents, AllWell, ContainersOwned, Live
<1> QED
  BY <1>1, LifeInvariant, PTL

\* In the life of one process a finished task is not made active again, whatever failed.
THEOREM FinishedStaysFinished == Spec => TerminalNotRevived
<1>1. LifeInv /\ [Next]_vars =>
        [\A t \in Tasks : rows[t].status \in Terminal /\ ~restarted =>
           rows'[t].status \in Terminal \cup {"absent"}]_vars
  BY NextFirstLife DEF NoneRevived
<1> QED
  BY <1>1, LifeInvariant, PTL DEF Spec, TerminalNotRevived

==============================================================================
