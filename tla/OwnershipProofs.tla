---------------------------- MODULE OwnershipProofs ----------------------------
(***************************************************************************)
(* Who has a task, for every set of tasks, containers and goroutines and   *)
(* all bounds: a task is in one pair of hands, a task that waits is in     *)
(* nobody's, and a timer that fires finds its task as it left it.          *)
(*                                                                         *)
(* The table is written by the loop, the goroutines, the handlers, the     *)
(* timers and the collector without locks between them.  What holds it     *)
(* together is that each of them finds the row in few states only          *)
(* (Ownership): a row in hands is never queued or scheduled, so it cannot  *)
(* be claimed a second time, and a row that is not in hands cannot be run. *)
(***************************************************************************)
EXTENDS PinnConnectProofs

OwnPaths(t) == {t} \X Files

\* What the row of a task says while it is being run, and while the deferred calls
\* of its goroutine are made.
Open == {"running", "stopped", "absent"}
Over == Open \cup {"completed", "failed"}

DeferredPCs == {"remove", "markfail", "cleanup"}

\* The request has not written the row of t yet.
Pending(t) == run[t].pc \in {"new", "image", "cache", "insert"}

\* g is at work on t.
Runs(g, t) == gor[g].pc # "idle" /\ gor[g].task = t

InHands(t) == InHand(t) \/ InRecoverQ(t) \/ \E g \in Goroutines : Runs(g, t)

\* The collector has handed t over once at most.
OnceQueued(t) ==
  \A i, j \in 1 .. Len(recoverQ) : recoverQ[i].task = t /\ recoverQ[j].task = t => i = j

\* One pair of hands.
OneHand(t) ==
  /\ \A g, h \in Goroutines : Runs(g, t) /\ Runs(h, t) => g = h
  /\ InHand(t) => ~InRecoverQ(t) /\ \A g \in Goroutines : ~Runs(g, t)
  /\ InRecoverQ(t) => \A g \in Goroutines : ~Runs(g, t)
  /\ OnceQueued(t)

\* What the row of t can be, seen from the hands t is in.
RowFits(t) ==
  /\ InHand(t) \/ InRecoverQ(t) => rows[t].status \in Open
  /\ \A g \in Goroutines : Runs(g, t) =>
       rows[t].status \in IF gor[g].pc \in DeferredPCs THEN Over ELSE Open
  /\ Pending(t) => rows[t] = NoRow /\ ~InHands(t)
  /\ rows[t].status = "absent" => rows[t] = NoRow

\* What the row of t says at each call of cleanupTask, and whose results it takes.
RescueAtWork(t) ==
  /\ rescue[t].pc \in {"exists", "gone", "state", "remove", "redo"} =>
       rows[t].status = "running"
  /\ rescue[t].pc \in {"upload", "complete"} => rows[t].status \in {"running", "queued"}
  /\ rescue[t].pc = "cleanup" => rows[t].status = "completed"
  /\ rescue[t].pc = "complete" => rescue[t].path \in OwnPaths(t)

\* The collector has t: nobody else is at work yet.
RescueFits(t) ==
  /\ rescue[t].pc # "idle" => phase = "gc" /\ ~InHands(t)
  /\ RescueAtWork(t)

\* The map holds a task as long as it has a timer, and a timer finds its task
\* scheduled; only tasks that have been run have a container to stop.
TimerFits(t) ==
  /\ armed[t] + firing[t] > 0 => t \in scheduled /\ armed[t] + firing[t] = 1
  /\ firing[t] > 0 => rows[t].status \in {"scheduled", "absent"} /\ ~Pending(t)
  /\ rows[t].status = "scheduled" => rows[t].cid = NoCont
  /\ stop[t].pc # "none" => run[t].pc = "over"
  /\ stop[t].pc \in {"mark", "stop"} => rows[t].status # "scheduled"

Owned(t) == OneHand(t) /\ RowFits(t) /\ RescueFits(t) /\ TimerFits(t)

NobodyWorks ==
  /\ worker.pc = "tick" /\ recoverQ = <<>>
  /\ \A g \in Goroutines : gor[g].pc = "idle"
  /\ \A t \in Tasks : rescue[t].pc = "idle"

\* Before the collector has read the running tasks nobody has one, and until it is
\* done neither the loop nor a goroutine has.
PhaseFits ==
  /\ phase = "down" => sweep.pc = "tasks"
  /\ phase \in {"down", "gc"} /\ sweep.pc = "tasks" => NobodyWorks
  /\ phase = "gc" => worker.pc = "tick" /\ \A g \in Goroutines : gor[g].pc = "idle"

Ownership == PhaseFits /\ \A t \in Tasks : Owned(t)

(* Whose results the paths name.                                            *)

\* Results a task may be given: its own, or those of a task with its signature.
PathsOf(t) == {p \in Paths : Sig[p[1]] = Sig[t]}

PathsFit ==
  /\ \A t \in Tasks :
       /\ rows[t].path \in PathsOf(t) \cup {NoPath}
       /\ run[t].path \in PathsOf(t) \cup {NoPath}
  /\ worker.pc = "cached" => worker.path \in PathsOf(worker.task)
  /\ \A g \in Goroutines : gor[g].pc = "complete" => gor[g].path \in OwnPaths(gor[g].task)

\* The inductive invariant.
OwnInv == SlotInv /\ Ownership /\ PathsFit


-----------------------------------------------------------------------------
(* What a step does to a row.  SameRow lets the container id change, which  *)
(* only the mark "running" writes.                                          *)

SameRow(t) == rows'[t].status = rows[t].status /\ rows'[t].path = rows[t].path

BecomesRunning(t) ==
  /\ rows[t].status \in {"running", "stopped"} /\ rows'[t].status = "running"
  /\ rows'[t].path = rows[t].path

BecomesCompleted(t) ==
  /\ rows[t].status \in {"queued", "running", "stopped"} /\ rows'[t].status = "completed"
  /\ rows'[t].path \in PathsOf(t)

BecomesFailed(t) ==
  /\ rows[t].status \in {"running", "completed"} /\ rows'[t].status = "failed"
  /\ rows'[t].path = rows[t].path

BecomesStopped(t) ==
  /\ rows[t].status # "absent" /\ rows'[t].status = "stopped"
  /\ rows'[t].path = rows[t].path

OthersKept(t) == \A u \in Tasks \ {t} : rows'[u] = rows[u]

\* The steps of whoever has t.
RowMoves(t) ==
  /\ rows[t] = NoRow => rows'[t] = NoRow
  /\ OthersKept(t)
  /\ \/ SameRow(t) \/ BecomesRunning(t) \/ BecomesCompleted(t)
     \/ BecomesFailed(t) \/ BecomesStopped(t)

\* The marks: none changes another row, or adds one (query.sql.go:219-:750).
LEMMA StatusMark ==
  ASSUME NEW tb \in Tables, NEW t \in Tasks, NEW st
  PROVE  /\ \A u \in Tasks \ {t} : SetStatus(tb, t, st)[u] = tb[u]
         /\ tb[t].status = "absent" => SetStatus(tb, t, st) = tb
         /\ tb[t].status # "absent" =>
              /\ SetStatus(tb, t, st)[t].status = st
              /\ SetStatus(tb, t, st)[t].path = tb[t].path
              /\ SetStatus(tb, t, st)[t].cid = tb[t].cid
  BY DEF SetStatus, Exists, Tables, Rows

\* The mark "running" of the worker (query.sql.go:643).
LEMMA RunningMark ==
  ASSUME NEW tb \in Tables, NEW t \in Tasks, NEW c
  PROVE  /\ \A u \in Tasks \ {t} : MarkRunning(tb, t, c)[u] = tb[u]
         /\ tb[t].status = "absent" => MarkRunning(tb, t, c) = tb
         /\ tb[t].status # "absent" =>
              /\ MarkRunning(tb, t, c)[t].status = "running"
              /\ MarkRunning(tb, t, c)[t].path = tb[t].path
              /\ MarkRunning(tb, t, c)[t].cid = c
  BY DEF MarkRunning, Exists, Tables, Rows

\* The mark "completed" (query.sql.go:481).
LEMMA CompletedMark ==
  ASSUME NEW tb \in Tables, NEW t \in Tasks, NEW p
  PROVE  /\ \A u \in Tasks \ {t} : MarkCompleted(tb, t, p)[u] = tb[u]
         /\ tb[t].status = "absent" => MarkCompleted(tb, t, p) = tb
         /\ tb[t].status # "absent" =>
              /\ MarkCompleted(tb, t, p)[t].status = "completed"
              /\ MarkCompleted(tb, t, p)[t].path = p
              /\ MarkCompleted(tb, t, p)[t].cid = tb[t].cid
  BY DEF MarkCompleted, Exists, Tables, Rows

-----------------------------------------------------------------------------
(* What a step of a goroutine does to it *)

\* The next call: nothing else of the goroutine changes.
LEMMA GotoFacts ==
  ASSUME GorType, NEW g \in Goroutines, NEW pc, Goto(g, pc)
  PROVE  /\ \A h \in Goroutines \ {g} : gor'[h] = gor[h]
         /\ gor'[g].pc = pc /\ gor'[g].task = gor[g].task /\ gor'[g].cid = gor[g].cid
         /\ gor'[g].kind = gor[g].kind /\ gor'[g].path = gor[g].path
         /\ gor'[g].err = gor[g].err
  BY DEF GorType, Goto, Goroutine

\* The return from the body: the deferred calls of a claimed task follow.
LEMMA LeaveFacts ==
  ASSUME GorType, NEW g \in Goroutines, NEW err \in BOOLEAN, Leave(g, err)
  PROVE  /\ \A h \in Goroutines \ {g} : gor'[h] = gor[h]
         /\ gor[g].kind = "recovered" => gor'[g].pc = "idle"
         /\ gor[g].kind # "recovered" =>
              /\ gor'[g].pc = IF gor[g].cid = NoCont THEN "markfail" ELSE "remove"
              /\ gor'[g].task = gor[g].task /\ gor'[g].cid = gor[g].cid
              /\ gor'[g].kind = gor[g].kind /\ gor'[g].err = err
  <1>1. CASE gor[g].kind = "recovered"
    BY <1>1 DEF GorType, Leave, Idle
  <1>2. CASE gor[g].kind # "recovered"
    <2> DEFINE pc == IF gor[g].cid = NoCont THEN "markfail" ELSE "remove"
    <2>1. gor' = [gor EXCEPT ![g] = [@ EXCEPT !.err = err, !.pc = pc]]
      BY <1>2 DEF GorType, Leave
    <2>2. gor'[g] = [gor[g] EXCEPT !.err = err, !.pc = pc]
      BY <2>1 DEF GorType
    <2> QED
      BY <1>2, <2>1, <2>2 DEF GorType, Goroutine
  <1> QED
    BY <1>1, <1>2

\* Where a step of g takes it: on, to the deferred calls, or to its end.
GorMoves(g) ==
  /\ \A h \in Goroutines \ {g} : gor'[h] = gor[h]
  /\ gor'[g].pc # "idle" =>
       /\ gor'[g].task = gor[g].task
       /\ gor[g].pc \in DeferredPCs => gor'[g].pc \in DeferredPCs
       /\ gor'[g].pc \notin DeferredPCs => rows'[gor[g].task].status \in Open
       /\ gor'[g].pc = "complete" => gor'[g].path \in OwnPaths(gor[g].task)

\* The goroutine stays where its row is one that is being run.
LEMMA GoesOn ==
  ASSUME GorType, NEW g \in Goroutines, NEW pc, Goto(g, pc),
         gor[g].pc \notin DeferredPCs, pc # "complete",
         pc \in DeferredPCs \/ rows'[gor[g].task].status \in Open
  PROVE  GorMoves(g)
  BY GotoFacts DEF GorMoves

LEMMA Leaves ==
  ASSUME GorType, NEW g \in Goroutines, NEW err \in BOOLEAN, Leave(g, err)
  PROVE  GorMoves(g)
  <1>1. gor'[g].pc # "idle" => gor'[g].task = gor[g].task /\ gor'[g].pc \in {"markfail", "remove"}
    BY LeaveFacts
  <1> QED
    BY <1>1, LeaveFacts DEF GorMoves, DeferredPCs

\* A step that leaves the table alone.
LEMMA RowsStay ==
  ASSUME NEW t \in Tasks, UNCHANGED rows
  PROVE  RowMoves(t)
  BY DEF RowMoves, OthersKept, SameRow

\* Every call of processTask and waitAndSaveTask, deferred ones included: it writes
\* no row but that of its task, and finds it in the states Open or Over
\* (task.go:398-:528).
LEMMA StepMoves ==
  ASSUME OwnInv, NEW g \in Goroutines, Step(g)
  PROVE  /\ Up /\ gor[g].pc # "idle" /\ gor[g].task \in Tasks
         /\ UNCHANGED <<worker, recoverQ>>
         /\ phase' \in {phase, "panicked"}
         /\ RowMoves(gor[g].task)
         /\ GorMoves(g)
<1> DEFINE t == gor[g].task
<1>1. rows \in Tables /\ GorType /\ GoroutinesOK
  BY DEF OwnInv, SlotInv, TypeOK, PlatformTypeOK, Tables, WorkerTypeOK, GorType, Handles
<1>2. Up /\ gor[g].pc # "idle" /\ UNCHANGED <<worker, recoverQ>>
  BY DEF Step, Check, Start, StartFails, StartCutShort, MarkRun, Wait, StopExpired,
         MarkExpired, Recheck, Upload, Complete, RemoveCont, MarkFail, Finish, At
<1>3. t \in Tasks
  BY <1>1, <1>2 DEF GoroutinesOK
<1>4. RowFits(t) /\ Runs(g, t)
  BY <1>2, <1>3 DEF OwnInv, Ownership, Owned, Runs
<1>5. /\ rows[t].status = "absent" => rows[t] = NoRow
      /\ gor[g].pc \notin DeferredPCs => rows[t].status \in Open
      /\ rows[t].status \in Over
  BY <1>4 DEF RowFits, Over
<1>6. NoRow.status = "absent"
  BY DEF NoRow
<1>7. CASE Check(g)
  <2>1. RowMoves(t) /\ phase' \in {phase, "panicked"}
    BY <1>3, <1>7, RowsStay DEF Check, Panic
  <2>2. UNCHANGED <<gor, rows>> \/ Leave(g, TRUE) \/ Goto(g, "start")
    BY <1>7 DEF Check
  <2>3. gor[g].pc = "check"
    BY <1>7 DEF Check, At
  <2>4. GorMoves(g)
    BY <1>1, <1>5, <1>7, <2>2, <2>3, GoesOn, Leaves DEF GorMoves, DeferredPCs, Check
  <2> QED
    BY <1>2, <1>3, <2>1, <2>4
<1>8. CASE Start(g)
  <2>1. RowMoves(t) /\ UNCHANGED <<rows, phase>>
    BY <1>3, <1>8, RowsStay DEF Start
  <2>2. PICK c \in Conts : gor' = [gor EXCEPT ![g].pc = "markrun", ![g].cid = c]
    BY <1>8 DEF Start
  <2>3. gor[g].pc = "start"
    BY <1>8 DEF Start, At
  <2>4. /\ \A h \in Goroutines \ {g} : gor'[h] = gor[h]
        /\ gor'[g].pc = "markrun" /\ gor'[g].task = t
    BY <1>1, <2>2 DEF GorType, Goroutine
  <2>5. GorMoves(g)
    BY <1>5, <2>1, <2>3, <2>4 DEF GorMoves, DeferredPCs
  <2> QED
    BY <1>2, <1>3, <2>1, <2>5
<1>9. CASE StartFails(g) \/ StartCutShort(g)
  <2>1. RowMoves(t) /\ UNCHANGED phase
    BY <1>3, <1>9, RowsStay DEF StartFails, StartCutShort
  <2>2. GorMoves(g)
    BY <1>1, <1>9, Leaves DEF StartFails, StartCutShort
  <2> QED
    BY <1>2, <1>3, <2>1, <2>2
<1>10. CASE MarkRun(g)
  <2>1. gor[g].pc = "markrun" /\ UNCHANGED phase
    BY <1>10 DEF MarkRun, At
  <2>2. rows' = rows \/ rows' = MarkRunning(rows, t, gor[g].cid)
    BY <1>10 DEF MarkRun
  <2>3. RowMoves(t)
    BY <1>1, <1>3, <1>5, <1>6, <2>1, <2>2, RowsStay, RunningMark
       DEF RowMoves, OthersKept, SameRow, BecomesRunning, DeferredPCs, Open
  <2>4. \/ Goto(g, "wait") /\ rows' = MarkRunning(rows, t, gor[g].cid)
        \/ Leave(g, TRUE)
    BY <1>10 DEF MarkRun
  <2>5. rows' = MarkRunning(rows, t, gor[g].cid) => rows'[t].status \in Open
    BY <1>1, <1>3, RunningMark DEF Open
  <2>6. GorMoves(g)
    BY <1>1, <2>1, <2>4, <2>5, GoesOn, Leaves DEF DeferredPCs
  <2> QED
    BY <1>2, <1>3, <2>1, <2>3, <2>6
<1>11. CASE Wait(g)
  <2>1. RowMoves(t) /\ UNCHANGED <<rows, phase>>
    BY <1>3, <1>11, RowsStay DEF Wait
  <2>2. gor[g].pc = "wait" /\ (Goto(g, "recheck") \/ Goto(g, "stopc") \/ Leave(g, TRUE))
    BY <1>11 DEF Wait, At
  <2>3. GorMoves(g)
    BY <1>1, <1>5, <2>1, <2>2, GoesOn, Leaves DEF DeferredPCs
  <2> QED
    BY <1>2, <1>3, <2>1, <2>3
<1>12. CASE StopExpired(g)
  <2>1. RowMoves(t) /\ UNCHANGED <<rows, phase>>
    BY <1>3, <1>12, RowsStay DEF StopExpired
  <2>2. gor[g].pc = "stopc" /\ Goto(g, "marks")
    BY <1>12 DEF StopExpired, At
  <2>3. GorMoves(g)
    BY <1>1, <1>5, <2>1, <2>2, GoesOn DEF DeferredPCs
  <2> QED
    BY <1>2, <1>3, <2>1, <2>3
<1>13. CASE MarkExpired(g)
  <2>1. rows' = rows \/ rows' = SetStatus(rows, t, "stopped")
    BY <1>13 DEF MarkExpired, MarkStopped
  <2>2. RowMoves(t)
    BY <1>1, <1>3, <1>5, <1>6, <2>1, RowsStay, StatusMark
       DEF RowMoves, OthersKept, SameRow, BecomesStopped
  <2>3. GorMoves(g) /\ UNCHANGED phase
    BY <1>1, <1>13, Leaves DEF MarkExpired
  <2> QED
    BY <1>2, <1>3, <2>2, <2>3
<1>14. CASE Recheck(g)
  <2>1. RowMoves(t) /\ phase' \in {phase, "panicked"}
    BY <1>3, <1>14, RowsStay DEF Recheck, Panic
  <2>2. \/ UNCHANGED <<gor, rows>>
        \/ Leave(g, TRUE) \/ Leave(g, FALSE) \/ Goto(g, "upload")
    BY <1>14 DEF Recheck
  <2>3. gor[g].pc = "recheck"
    BY <1>14 DEF Recheck, At
  <2>4. GorMoves(g)
    BY <1>1, <1>5, <1>14, <2>2, <2>3, GoesOn, Leaves DEF GorMoves, DeferredPCs, Recheck
  <2> QED
    BY <1>2, <1>3, <2>1, <2>4
<1>15. CASE Upload(g)
  <2>1. RowMoves(t) /\ UNCHANGED <<rows, phase>>
    BY <1>3, <1>15, RowsStay DEF Upload
  <2>2. gor[g].pc = "upload"
    BY <1>15 DEF Upload, At
  <2>3. CASE Leave(g, TRUE)
    BY <1>1, <1>2, <1>3, <2>1, <2>3, Leaves
  <2>4. ASSUME NEW f \in Files,
               gor' = [gor EXCEPT ![g].pc = "complete", ![g].path = <<t, f>>]
        PROVE  GorMoves(g)
    <3>1. /\ \A h \in Goroutines \ {g} : gor'[h] = gor[h]
          /\ gor'[g].pc = "complete" /\ gor'[g].task = t /\ gor'[g].path = <<t, f>>
      BY <1>1, <2>4 DEF GorType, Goroutine
    <3>2. <<t, f>> \in OwnPaths(t)
      BY DEF OwnPaths
    <3> QED
      BY <1>5, <2>1, <2>2, <3>1, <3>2 DEF GorMoves, DeferredPCs
  <2> QED
    BY <1>2, <1>3, <1>15, <2>1, <2>3, <2>4 DEF Upload, Results
<1>16. CASE Complete(g)
  <2>1. gor[g].pc = "complete" /\ UNCHANGED phase
    BY <1>16 DEF Complete, At
  <2>2. rows' = rows \/ rows' = MarkCompleted(rows, t, gor[g].path)
    BY <1>16 DEF Complete
  <2>3. gor[g].path \in PathsOf(t)
    BY <1>3, <2>1 DEF OwnInv, PathsFit, OwnPaths, PathsOf, Paths
  <2>4. RowMoves(t)
    BY <1>1, <1>3, <1>5, <1>6, <2>1, <2>2, <2>3, RowsStay, CompletedMark
       DEF RowMoves, OthersKept, SameRow, BecomesCompleted, DeferredPCs, Open
  <2>5. GorMoves(g)
    <3>1. Leave(g, ~Exists(rows, t)) \/ Leave(g, TRUE)
      BY <1>16 DEF Complete
    <3> QED
      BY <1>1, <3>1, Leaves DEF Exists
  <2> QED
    BY <1>2, <1>3, <2>1, <2>4, <2>5
<1>17. CASE RemoveCont(g)
  <2>1. RowMoves(t) /\ UNCHANGED <<rows, phase>>
    BY <1>3, <1>17, RowsStay DEF RemoveCont
  <2>2. Goto(g, "markfail") \/ Goto(g, "cleanup")
    BY <1>17 DEF RemoveCont
  <2>3. GorMoves(g)
    BY <1>1, <2>2, GotoFacts DEF GorMoves, DeferredPCs
  <2> QED
    BY <1>2, <1>3, <2>1, <2>3
<1>18. CASE MarkFail(g)
  <2>1. rows' = rows \/ (rows[t].status # "stopped" /\ rows' = SetStatus(rows, t, "failed"))
    BY <1>18 DEF MarkFail, MarkFailed
  <2>2. rows[t].status # "failed" => RowMoves(t)
    BY <1>1, <1>3, <1>5, <1>6, <2>1, RowsStay, StatusMark
       DEF RowMoves, OthersKept, SameRow, BecomesFailed, Over, Open
  <2>3. rows[t].status = "failed" => RowMoves(t)
    BY <1>1, <1>3, <1>6, <2>1, RowsStay, StatusMark DEF RowMoves, OthersKept, SameRow
  <2>4. GorMoves(g) /\ UNCHANGED phase
    BY <1>1, <1>18, GotoFacts DEF MarkFail, GorMoves, DeferredPCs
  <2> QED
    BY <1>2, <1>3, <2>2, <2>3, <2>4
<1>19. CASE Finish(g)
  <2>1. RowMoves(t) /\ UNCHANGED phase
    BY <1>3, <1>19, RowsStay DEF Finish
  <2>2. gor' = [gor EXCEPT ![g] = Idle]
    BY <1>19 DEF Finish
  <2>3. GorMoves(g)
    BY <1>1, <2>2 DEF GorMoves, GorType, Idle
  <2> QED
    BY <1>2, <1>3, <2>1, <2>3
<1> QED
  BY <1>7, <1>8, <1>9, <1>10, <1>11, <1>12, <1>13, <1>14, <1>15, <1>16, <1>17, <1>18,
     <1>19 DEF Step

-----------------------------------------------------------------------------
(* The steps of the worker *)

\* Nobody gets u who did not have it.
HandsShrink(u) ==
  /\ InHand(u)' => InHand(u)
  /\ InRecoverQ(u)' => InRecoverQ(u)
  /\ OnceQueued(u)'
  /\ \A g \in Goroutines : Runs(g, u)' =>
       Runs(g, u) /\ (gor[g].pc \in DeferredPCs => gor'[g].pc \in DeferredPCs)

\* The row of u is written by the one who has u, and by him who goes on running it
\* to one of the states of a task being run.
RowWritten(u) ==
  /\ InHand(u) \/ \E g \in Goroutines : Runs(g, u)
  /\ RowMoves(u)
  /\ InHand(u)' => rows'[u].status \in Open
  /\ \A g \in Goroutines :
       Runs(g, u)' /\ gor'[g].pc \notin DeferredPCs => rows'[u].status \in Open

\* A step of the worker while which nobody takes u.
LEMMA OwnedStays ==
  ASSUME OwnInv, NEW u \in Tasks, Up, UNCHANGED <<gcVars, apiVars, schedVars>>,
         HandsShrink(u), rows'[u] = rows[u] \/ RowWritten(u)
  PROVE  Owned(u)'
<1>1. Owned(u) /\ rescue[u].pc = "idle" /\ rescue' = rescue
      /\ UNCHANGED <<run, stop, scheduled, armed, firing>>
  BY DEF OwnInv, Ownership, Owned, RescueFits, Up, gcVars, apiVars, schedVars
<1>2. OneHand(u)'
  BY <1>1 DEF Owned, OneHand, HandsShrink
<1>3. Pending(u)' <=> Pending(u)
  BY <1>1 DEF Pending
<1>4. CASE rows'[u] = rows[u]
  <2>1. RowFits(u)'
    BY <1>1, <1>3, <1>4 DEF Owned, RowFits, HandsShrink, InHands, Over
  <2>2. TimerFits(u)'
    BY <1>1, <1>3, <1>4 DEF Owned, TimerFits
  <2> QED
    BY <1>1, <1>2, <2>1, <2>2 DEF Owned, RescueFits, RescueAtWork
<1>5. CASE RowWritten(u)
  <2>1. InHands(u) /\ ~InRecoverQ(u) /\ ~Pending(u)
    BY <1>1, <1>5 DEF RowWritten, Owned, OneHand, RowFits, InHands
  <2>2. rows[u].status \in Over /\ rows'[u].status \in Over
        /\ (rows'[u].status = "absent" => rows'[u] = NoRow)
        /\ (rows[u].status = "absent" => rows'[u].status = "absent")
    <3>1. rows[u].status \in Over /\ (rows[u].status = "absent" => rows[u] = NoRow)
      BY <1>1, <1>5 DEF RowWritten, Owned, RowFits, Over
    <3>2. NoRow.status = "absent"
      BY DEF NoRow
    <3> QED
      BY <1>5, <3>1, <3>2 DEF RowWritten, RowMoves, SameRow, BecomesRunning, BecomesCompleted,
                        BecomesFailed, BecomesStopped, Over, Open
  <2>3. RowFits(u)'
    BY <1>3, <1>5, <2>1, <2>2 DEF RowWritten, RowFits, HandsShrink
  <2>4. TimerFits(u)'
    BY <1>1, <1>3, <2>1, <2>2 DEF Owned, TimerFits, Over, Open
  <2> QED
    BY <1>1, <1>2, <2>3, <2>4 DEF Owned, RescueFits, RescueAtWork
<1> QED
  BY <1>4, <1>5

\* The worker runs in the phases of which PhaseFits says nothing.
LEMMA PhaseStays ==
  ASSUME Up, phase' \in {phase, "panicked"}
  PROVE  PhaseFits'
  BY DEF Up, PhaseFits

\* A step of a goroutine keeps the invariant.
LEMMA StepKeepsOwned ==
  ASSUME OwnInv, NEW g \in Goroutines, Step(g), WorkerFrame
  PROVE  Ownership' /\ PathsFit'
<1> PICK t \in Tasks : t = gor[g].task
  BY StepMoves
<1>1. /\ Up /\ gor[g].pc # "idle"
      /\ UNCHANGED <<worker, recoverQ, gcVars, apiVars, schedVars>>
      /\ phase' \in {phase, "panicked"} /\ RowMoves(t) /\ GorMoves(g)
  BY StepMoves DEF WorkerFrame
<1>2. Runs(g, t) /\ Owned(t)
  BY <1>1 DEF Runs, OwnInv, Ownership
<1>3. ASSUME NEW u \in Tasks PROVE HandsShrink(u)
  <2>1. (InHand(u)' <=> InHand(u)) /\ (InRecoverQ(u)' <=> InRecoverQ(u)) /\ OnceQueued(u)'
    BY <1>1 DEF InHand, InRecoverQ, OnceQueued, OwnInv, Ownership, Owned, OneHand
  <2>2. ASSUME NEW h \in Goroutines, Runs(h, u)'
        PROVE  Runs(h, u) /\ (gor[h].pc \in DeferredPCs => gor'[h].pc \in DeferredPCs)
    BY <1>1, <2>2 DEF GorMoves, Runs
  <2> QED
    BY <2>1, <2>2 DEF HandsShrink
<1>4. RowWritten(t)
  <2>1. InHand(t)' => InHand(t)
    BY <1>1 DEF InHand
  <2>2. ~InHand(t) /\ \A h \in Goroutines : Runs(h, t) => h = g
    BY <1>2 DEF Owned, OneHand
  <2>3. \A h \in Goroutines : Runs(h, t)' => h = g
    BY <1>3, <1>1, <2>2 DEF HandsShrink
  <2>4. Runs(g, t)' /\ gor'[g].pc \notin DeferredPCs => rows'[t].status \in Open
    BY <1>1 DEF GorMoves, Runs
  <2> QED
    BY <1>1, <1>2, <2>1, <2>2, <2>3, <2>4 DEF RowWritten
<1>5. \A u \in Tasks : Owned(u)'
  BY <1>1, <1>3, <1>4, OwnedStays DEF RowMoves, OthersKept
<1>6. PathsFit'
  <2>1. \A u \in Tasks : rows'[u].path \in PathsOf(u) \cup {NoPath}
    BY <1>1 DEF OwnInv, PathsFit, RowMoves, OthersKept, SameRow, BecomesRunning,
                BecomesCompleted, BecomesFailed, BecomesStopped
  <2>2. \A h \in Goroutines :
          gor'[h].pc = "complete" => gor'[h].path \in OwnPaths(gor'[h].task)
    BY <1>1 DEF OwnInv, PathsFit, GorMoves
  <2> QED
    BY <1>1, <2>1, <2>2 DEF OwnInv, PathsFit, gcVars, apiVars
<1> QED
  BY <1>1, <1>5, <1>6, PhaseStays DEF Ownership

\* The timeout of a task ends nothing by itself.
LEMMA ExpireKeepsOwned ==
  ASSUME OwnInv, NEW g \in Goroutines, Expire(g), WorkerFrame
  PROVE  Ownership' /\ PathsFit'
<1>1. /\ Up /\ gor \in [Goroutines -> Goroutine]
      /\ gor' = [gor EXCEPT ![g].expired = TRUE]
      /\ UNCHANGED <<rows, phase, worker, recoverQ, gcVars, apiVars, schedVars>>
  BY DEF OwnInv, SlotInv, TypeOK, WorkerTypeOK, Expire, WorkerFrame, platformVars
<1>2. \A h \in Goroutines : /\ gor'[h].pc = gor[h].pc /\ gor'[h].task = gor[h].task
                            /\ gor'[h].path = gor[h].path
  BY <1>1 DEF Goroutine
<1>3. ASSUME NEW u \in Tasks PROVE HandsShrink(u)
  BY <1>1, <1>2 DEF HandsShrink, InHand, InRecoverQ, OnceQueued, Runs, OwnInv, Ownership,
                    Owned, OneHand
<1>4. \A u \in Tasks : Owned(u)'
  BY <1>1, <1>3, OwnedStays
<1>5. PathsFit'
  BY <1>1, <1>2 DEF OwnInv, PathsFit, gcVars, apiVars
<1> QED
  BY <1>1, <1>4, <1>5, PhaseStays DEF Ownership

\* The loop goes on with what it has, or lets go of it.
LEMMA LoopGoesOn ==
  ASSUME OwnInv, Up, WorkerFrame, UNCHANGED <<rows, phase, recoverQ, gor>>,
         worker'.pc \in {"lookup", "cached"} =>
           worker.pc \in {"lookup", "cached"} /\ worker'.task = worker.task,
         worker'.pc = "cached" => worker'.path \in PathsOf(worker'.task)
  PROVE  Ownership' /\ PathsFit'
<1>1. UNCHANGED <<gcVars, apiVars, schedVars>>
  BY DEF WorkerFrame
<1>2. ASSUME NEW u \in Tasks PROVE HandsShrink(u)
  BY DEF HandsShrink, InHand, InRecoverQ, OnceQueued, Runs, OwnInv, Ownership, Owned, OneHand
<1>3. \A u \in Tasks : Owned(u)'
  BY <1>1, <1>2, OwnedStays
<1>4. PathsFit'
  BY <1>1 DEF OwnInv, PathsFit, gcVars, apiVars
<1> QED
  BY <1>3, <1>4, PhaseStays DEF Ownership

\* A lookup answers with a result of a task of the same signature
\* (query.sql.go:137).
LEMMA CachedFits ==
  ASSUME PathsFit, NEW t \in Tasks, NEW p \in CachedPaths(rows, Sig[t])
  PROVE  p \in PathsOf(t) \cup {NoPath}
<1>1. CASE p = NoPath
  BY <1>1
<1>2. CASE p # NoPath
  <2>1. PICK h \in CacheHits(rows, Sig[t]) : p = rows[h].path
    BY <1>2 DEF CachedPaths
  <2>2. h \in Tasks /\ Sig[h] = Sig[t]
    BY <2>1 DEF CacheHits
  <2> QED
    BY <1>2, <2>1, <2>2 DEF PathsFit, PathsOf
<1> QED
  BY <1>1, <1>2

\* The slots, the end, and a lookup that hits.
LEMMA QuietLoopKeepsOwned ==
  ASSUME OwnInv, WorkerFrame,
         Tick \/ NoSlot \/ TakeSlot \/ LookupHit \/ Drain \/ FillSlot \/ Drained
  PROVE  Ownership' /\ PathsFit'
<1>1. worker \in [pc : LoopPCs, task : Tasks \cup {NoTask},
                  path : Paths \cup {NoPath}, filled : Nat]
  BY DEF OwnInv, SlotInv, TypeOK, WorkerTypeOK
<1>2. ASSUME NEW pc, pc \notin {"lookup", "cached"}
      PROVE  To(pc).pc \notin {"lookup", "cached"}
  BY <1>2 DEF To, LoopStart
<1>3. CASE Tick \/ NoSlot \/ TakeSlot \/ Drain
  <2>1. Up /\ UNCHANGED <<rows, phase, recoverQ, gor>>
    BY <1>3 DEF Tick, NoSlot, TakeSlot, Drain, platformVars, Closing, Up
  <2>2. worker'.pc \notin {"lookup", "cached"}
    BY <1>2, <1>3 DEF Tick, NoSlot, TakeSlot, Drain
  <2> QED
    BY <2>1, <2>2, LoopGoesOn
<1>4. CASE FillSlot \/ Drained
  <2>1. Up /\ UNCHANGED <<rows, phase, recoverQ, gor>>
    BY <1>4 DEF FillSlot, Drained, platformVars, Closing, Up
  <2>2. worker'.pc \in {"drain", "stopped"}
    BY <1>1, <1>4 DEF FillSlot, Drained
  <2> QED
    BY <2>1, <2>2, LoopGoesOn
<1>5. CASE LookupHit
  <2>1. Up /\ worker.pc = "lookup" /\ UNCHANGED <<rows, phase, recoverQ, gor>>
    BY <1>5 DEF LookupHit
  <2>2. worker.task \in Tasks
    BY <2>1 DEF OwnInv, SlotInv, Handles, LoopHands
  <2>3. PICK p \in CachedPaths(rows, Sig[worker.task]) \ {NoPath} :
          worker' = [worker EXCEPT !.pc = "cached", !.path = p]
    BY <1>5 DEF LookupHit
  <2>4. p \in PathsOf(worker.task)
    BY <2>2, <2>3, CachedFits DEF OwnInv
  <2>5. worker'.pc = "cached" /\ worker'.task = worker.task /\ worker'.path = p
    BY <1>1, <2>3
  <2>6. worker'.path \in PathsOf(worker'.task)
    BY <2>4, <2>5 DEF PathsOf
  <2> QED
    BY <2>1, <2>5, <2>6, LoopGoesOn
<1> QED
  BY <1>3, <1>4, <1>5

\* A hit is written and the loop lets go of the task.
LEMMA MarkCachedKeepsOwned ==
  ASSUME OwnInv, WorkerFrame, MarkCached
  PROVE  /\ Ownership' /\ PathsFit'
         /\ RowMoves(worker.task) /\ InHand(worker.task)
<1> PICK t \in Tasks : t = worker.task
  BY DEF OwnInv, SlotInv, Handles, LoopHands, MarkCached
<1>1. /\ Up /\ worker.pc = "cached" /\ worker' = To("tick")
      /\ UNCHANGED <<phase, recoverQ, gor, gcVars, apiVars, schedVars>>
  BY DEF MarkCached, Return, WorkerFrame
<1>2. rows \in Tables /\ worker.path \in PathsOf(t) /\ Owned(t) /\ InHand(t)
  BY <1>1 DEF OwnInv, SlotInv, TypeOK, PlatformTypeOK, Tables, PathsFit, Ownership, InHand
<1>3. rows[t].status \in Open /\ (rows[t].status = "absent" => rows[t] = NoRow)
  BY <1>2 DEF Owned, RowFits
<1>4. NoRow.status = "absent" /\ worker'.pc = "tick"
  BY <1>1 DEF NoRow, To, LoopStart
<1>5. rows' = rows \/ rows' = MarkCompleted(rows, t, worker.path)
  BY DEF MarkCached
<1>6. RowMoves(t)
  BY <1>2, <1>3, <1>4, <1>5, RowsStay, CompletedMark
     DEF RowMoves, OthersKept, SameRow, BecomesCompleted, Open
<1>7. ASSUME NEW u \in Tasks PROVE HandsShrink(u)
  BY <1>1, <1>4 DEF HandsShrink, InHand, InRecoverQ, OnceQueued, Runs, OwnInv, Ownership,
                    Owned, OneHand
<1>8. RowWritten(t)
  <2>1. ~InHand(t)' /\ \A g \in Goroutines : ~Runs(g, t)'
    BY <1>1, <1>2, <1>4 DEF InHand, Runs, Owned, OneHand
  <2> QED
    BY <1>2, <1>6, <2>1 DEF RowWritten
<1>9. \A u \in Tasks : Owned(u)'
  BY <1>1, <1>6, <1>7, <1>8, OwnedStays DEF RowMoves, OthersKept
<1>10. PathsFit'
  BY <1>1, <1>4, <1>6 DEF OwnInv, PathsFit, RowMoves, OthersKept, SameRow, BecomesRunning,
                    BecomesCompleted, BecomesFailed, BecomesStopped, gcVars, apiVars
<1> QED
  BY <1>1, <1>2, <1>6, <1>9, <1>10, PhaseStays DEF Ownership

\* A task nobody has is given to one: its timers are through.
LEMMA OwnedTaken ==
  ASSUME OwnInv, NEW u \in Tasks, Up, UNCHANGED <<gcVars, apiVars, schedVars>>,
         OneHand(u)', rows[u].status \in {"queued"} \cup Open,
         rows'[u].status \in Open, rows'[u].status = "absent" => rows'[u] = NoRow,
         rows[u].status = "absent" => rows'[u] = rows[u],
         ~Pending(u)
  PROVE  Owned(u)'
<1>1. Owned(u) /\ rescue[u].pc = "idle" /\ rescue' = rescue
      /\ UNCHANGED <<run, stop, scheduled, armed, firing>>
  BY DEF OwnInv, Ownership, Owned, RescueFits, Up, gcVars, apiVars, schedVars
<1>2. ~Pending(u)'
  BY <1>1 DEF Pending
<1>3. RowFits(u)'
  BY <1>2 DEF RowFits, Over
<1>4. TimerFits(u)'
  BY <1>1, <1>2 DEF Owned, TimerFits, Open
<1> QED
  BY <1>1, <1>3, <1>4 DEF Owned, RescueFits, RescueAtWork

\* The claim takes a queued task, which nobody has (query.sql.go:219).
LEMMA ClaimKeepsOwned ==
  ASSUME OwnInv, WorkerFrame, Claim
  PROVE  Ownership' /\ PathsFit'
<1>1. /\ Up /\ worker.pc = "claim" /\ rows \in Tables
      /\ UNCHANGED <<phase, recoverQ, gor, gcVars, apiVars, schedVars>>
  BY DEF Claim, WorkerFrame, OwnInv, SlotInv, TypeOK, PlatformTypeOK, Tables
<1>2. Return => worker'.pc = "tick"
  BY DEF Return, To, LoopStart
<1>3. CASE UNCHANGED rows /\ Return
  BY <1>1, <1>2, <1>3, LoopGoesOn
<1>4. ASSUME NEW t \in NextQueued(rows, clock), rows' = Claimed(rows, t),
             worker' = [To("lookup") EXCEPT !.task = t] \/ Return
      PROVE  Ownership' /\ PathsFit'
  <2>1. t \in Tasks /\ rows[t].status = "queued"
    BY <1>4, NextQueuedIsQueued
  <2>2. /\ \A u \in Tasks \ {t} : rows'[u] = rows[u]
        /\ rows'[t].status = "running" /\ rows'[t].path = rows[t].path
    BY <1>1, <1>4, <2>1, StatusMark DEF Claimed
  <2>3. worker'.pc \in {"lookup", "tick"} /\ (worker'.pc = "lookup" => worker'.task = t)
    BY <1>2, <1>4 DEF To, LoopStart
  <2>4. Owned(t) /\ ~InHands(t) /\ ~Pending(t)
    <3>1. Owned(t)
      BY <2>1 DEF OwnInv, Ownership
    <3>2. NoRow.status = "absent"
      BY DEF NoRow
    <3> QED
      BY <2>1, <3>1, <3>2 DEF Owned, RowFits, InHands, Over, Open
  <2>5. OneHand(t)'
    BY <1>1, <2>4 DEF Owned, OneHand, InHands, OnceQueued, InRecoverQ, Runs
  <2>6. Owned(t)'
    BY <1>1, <2>1, <2>2, <2>4, <2>5, OwnedTaken DEF Open
  <2>7. ASSUME NEW u \in Tasks \ {t} PROVE Owned(u)'
    <3>1. HandsShrink(u)
      BY <1>1, <2>3 DEF HandsShrink, InHand, InRecoverQ, OnceQueued, Runs, OwnInv, Ownership,
                        Owned, OneHand
    <3> QED
      BY <1>1, <2>2, <3>1, OwnedStays
  <2>8. PathsFit'
    BY <1>1, <2>1, <2>2, <2>3 DEF OwnInv, PathsFit, gcVars, apiVars
  <2> QED
    BY <1>1, <2>6, <2>7, <2>8, PhaseStays DEF Ownership
<1> QED
  BY <1>3, <1>4 DEF Claim

\* The loop gives the claimed task to a goroutine (task.go:387).
LEMMA StartTaskKeepsOwned ==
  ASSUME OwnInv, WorkerFrame, NEW g \in Goroutines, StartTask(g)
  PROVE  Ownership' /\ PathsFit'
<1> PICK t \in Tasks : t = worker.task
  BY DEF OwnInv, SlotInv, Handles, LoopHands, StartTask
<1>1. /\ Up /\ worker.pc = "lookup" /\ worker' = To("loop") /\ gor[g].pc = "idle"
      /\ gor \in [Goroutines -> Goroutine]
      /\ UNCHANGED <<rows, phase, recoverQ, gcVars, apiVars, schedVars>>
  BY DEF StartTask, WorkerFrame, OwnInv, SlotInv, TypeOK, WorkerTypeOK
<1>2. /\ \A h \in Goroutines \ {g} : gor'[h] = gor[h]
      /\ gor'[g].pc = "check" /\ gor'[g].task = t /\ worker'.pc = "loop"
  BY <1>1 DEF StartTask, Spawned, To, LoopStart
<1>3. Owned(t) /\ InHand(t)
  BY <1>1 DEF InHand, OwnInv, Ownership
<1>4. OneHand(t)'
  BY <1>1, <1>2, <1>3 DEF Owned, OneHand, OnceQueued, InRecoverQ, Runs, InHand
<1>5. Owned(t)'
  BY <1>1, <1>3, <1>4, OwnedTaken DEF Owned, RowFits, InHands
<1>6. ASSUME NEW u \in Tasks \ {t} PROVE Owned(u)'
  <2>1. HandsShrink(u)
    BY <1>1, <1>2 DEF HandsShrink, InHand, InRecoverQ, OnceQueued, Runs, OwnInv, Ownership,
                      Owned, OneHand
  <2> QED
    BY <1>1, <2>1, OwnedStays
<1>7. PathsFit'
  BY <1>1, <1>2 DEF OwnInv, PathsFit, gcVars, apiVars
<1> QED
  BY <1>1, <1>3, <1>5, <1>6, <1>7, PhaseStays DEF Ownership

\* The head of the queue is taken: it was there once.
LEMMA HeadTaken ==
  ASSUME recoverQ \in Seq([task : Tasks, cid : Conts]), recoverQ # <<>>,
         recoverQ' = Tail(recoverQ), \A u \in Tasks : OnceQueued(u)
  PROVE  /\ Head(recoverQ).task \in Tasks /\ InRecoverQ(Head(recoverQ).task)
         /\ \A u \in Tasks : /\ OnceQueued(u)'
                             /\ InRecoverQ(u)' <=> InRecoverQ(u) /\ u # Head(recoverQ).task
<1> DEFINE n == Len(recoverQ)
           t == Head(recoverQ).task
<1>1. /\ n \in Nat /\ n > 0 /\ t = recoverQ[1].task /\ t \in Tasks
      /\ Len(recoverQ') = n - 1
      /\ \A i \in 1 .. Len(recoverQ') : recoverQ'[i] = recoverQ[i + 1]
  <2>1. n \in Nat /\ n > 0
    BY EmptySeq
  <2>2. Head(recoverQ) = recoverQ[1]
    OBVIOUS
  <2>3. /\ Head(recoverQ) \in [task : Tasks, cid : Conts]
        /\ Len(recoverQ') = n - 1
        /\ \A i \in 1 .. Len(recoverQ') : recoverQ'[i] = recoverQ[i + 1]
    BY HeadTailProperties
  <2> QED
    BY <2>1, <2>2, <2>3
<1>2. /\ 1 \in 1 .. n
      /\ \A i \in 1 .. Len(recoverQ') : i \in Nat /\ i + 1 \in 1 .. n /\ i + 1 # 1
      /\ \A i \in 1 .. n : i = 1 \/ (i - 1 \in 1 .. Len(recoverQ') /\ (i - 1) + 1 = i)
  BY <1>1
<1> HIDE DEF n
<1>3. InRecoverQ(t)
  BY <1>1, <1>2 DEF InRecoverQ, n
<1>4. ASSUME NEW u \in Tasks, NEW i \in 1 .. Len(recoverQ'), NEW j \in 1 .. Len(recoverQ'),
             recoverQ'[i].task = u, recoverQ'[j].task = u
      PROVE  i = j
  <2>1. i + 1 = j + 1
    BY <1>1, <1>2, <1>4 DEF OnceQueued, n
  <2> QED
    BY <1>2, <2>1
<1>5. ASSUME NEW u \in Tasks PROVE InRecoverQ(u)' <=> InRecoverQ(u) /\ u # t
  <2>1. ASSUME InRecoverQ(u)' PROVE InRecoverQ(u) /\ u # t
    <3>1. PICK i \in 1 .. Len(recoverQ') : recoverQ'[i].task = u
      BY <2>1 DEF InRecoverQ
    <3>2. i + 1 \in 1 .. n /\ recoverQ[i + 1].task = u /\ i + 1 # 1
      BY <1>1, <1>2, <3>1
    <3> QED
      BY <1>1, <1>2, <3>2 DEF InRecoverQ, OnceQueued, n
  <2>2. ASSUME InRecoverQ(u), u # t PROVE InRecoverQ(u)'
    <3>1. PICK i \in 1 .. n : recoverQ[i].task = u
      BY <2>2 DEF InRecoverQ, n
    <3>2. i - 1 \in 1 .. Len(recoverQ') /\ recoverQ'[i - 1] = recoverQ[i]
      BY <1>1, <1>2, <2>2, <3>1
    <3> QED
      BY <3>1, <3>2 DEF InRecoverQ
  <2> QED
    BY <2>1, <2>2
<1> QED
  BY <1>1, <1>3, <1>4, <1>5 DEF OnceQueued

\* A task the collector handed over gets its goroutine (task.go:329).
LEMMA TakeRecoveredKeepsOwned ==
  ASSUME OwnInv, WorkerFrame, NEW g \in Goroutines, TakeRecovered(g)
  PROVE  Ownership' /\ PathsFit'
<1>1. /\ recoverQ \in Seq([task : Tasks, cid : Conts]) /\ recoverQ # <<>>
      /\ recoverQ' = Tail(recoverQ) /\ gor \in [Goroutines -> Goroutine]
      /\ \A u \in Tasks : OnceQueued(u)
  BY DEF TakeRecovered, OwnInv, SlotInv, TypeOK, WorkerTypeOK, Ownership, Owned, OneHand
<1> PICK t \in Tasks : t = Head(recoverQ).task
  BY <1>1, HeadTaken
<1>2. /\ Up /\ worker.pc = "loop" /\ worker' = To("tick") /\ gor[g].pc = "idle"
      /\ UNCHANGED <<rows, phase, gcVars, apiVars, schedVars>>
  BY DEF TakeRecovered, WorkerFrame, platformVars
<1>3. /\ \A h \in Goroutines \ {g} : gor'[h] = gor[h]
      /\ gor'[g].pc = "wait" /\ gor'[g].task = t /\ worker'.pc = "tick"
  BY <1>1, <1>2 DEF TakeRecovered, Spawned, To, LoopStart
<1>4. Owned(t) /\ InRecoverQ(t)
  BY <1>1, HeadTaken DEF OwnInv, Ownership
<1>5. \A u \in Tasks : (InRecoverQ(u)' => InRecoverQ(u)) /\ OnceQueued(u)'
  BY <1>1, HeadTaken
<1>6. ~InRecoverQ(t)'
  BY <1>1, HeadTaken
<1>7. OneHand(t)'
  <2>1. ~InHand(t)' /\ \A h \in Goroutines : Runs(h, t)' => h = g
    BY <1>3, <1>4 DEF Owned, OneHand, InHand, Runs
  <2> QED
    BY <1>5, <1>6, <2>1 DEF OneHand
<1>8. Owned(t)'
  BY <1>2, <1>4, <1>7, OwnedTaken DEF Owned, RowFits, InHands
<1>9. ASSUME NEW u \in Tasks \ {t} PROVE Owned(u)'
  <2>1. HandsShrink(u)
    BY <1>3, <1>5 DEF HandsShrink, InHand, Runs
  <2> QED
    BY <1>2, <2>1, OwnedStays
<1>10. PathsFit'
  BY <1>2, <1>3 DEF OwnInv, PathsFit, gcVars, apiVars
<1> QED
  BY <1>2, <1>4, <1>8, <1>9, <1>10, PhaseStays DEF Ownership

\* The worker, loop and goroutines.
LEMMA WorkerKeepsOwned ==
  ASSUME OwnInv, WorkerPart
  PROVE  Ownership' /\ PathsFit'
<1>1. WorkerFrame
  BY DEF WorkerPart
<1>2. CASE LoopNext
  BY <1>1, <1>2, QuietLoopKeepsOwned, ClaimKeepsOwned, MarkCachedKeepsOwned,
     TakeRecoveredKeepsOwned, StartTaskKeepsOwned DEF LoopNext
<1>3. ASSUME NEW g \in Goroutines, Step(g) \/ Expire(g)
      PROVE  Ownership' /\ PathsFit'
  BY <1>1, <1>3, StepKeepsOwned, ExpireKeepsOwned
<1> QED
  BY <1>2, <1>3 DEF WorkerPart, WorkerNext

-----------------------------------------------------------------------------
(* The collector *)

\* The steps while which no pair of hands changes.
LEMMA HandsKept ==
  ASSUME UNCHANGED <<worker, recoverQ, gor>>, NEW u \in Tasks
  PROVE  /\ OneHand(u)' <=> OneHand(u)
         /\ InHands(u)' <=> InHands(u)
         /\ InHand(u)' <=> InHand(u)
         /\ InRecoverQ(u)' <=> InRecoverQ(u)
         /\ \A g \in Goroutines : Runs(g, u)' <=> Runs(g, u)
<1>1. InHand(u)' <=> InHand(u)
  BY DEF InHand
<1>2. (InRecoverQ(u)' <=> InRecoverQ(u)) /\ (OnceQueued(u)' <=> OnceQueued(u))
  BY DEF InRecoverQ, OnceQueued
<1>3. \A g \in Goroutines : Runs(g, u)' <=> Runs(g, u)
  BY DEF Runs
<1> QED
  BY <1>1, <1>2, <1>3 DEF OneHand, InHands

\* Such a step that does not write the row either.
LEMMA OwnedKept ==
  ASSUME NEW u \in Tasks, Owned(u), UNCHANGED <<worker, recoverQ, gor>>,
         rows'[u] = rows[u], Pending(u)' => Pending(u), RescueFits(u)', TimerFits(u)'
  PROVE  Owned(u)'
<1>1. RowFits(u)'
  BY HandsKept DEF Owned, RowFits
<1> QED
  BY <1>1, HandsKept DEF Owned

\* The row of t goes back to the queue.
BecomesQueued(t) ==
  /\ rows[t].status = "running" /\ rows'[t].status = "queued"
  /\ rows'[t].path = rows[t].path

\* Where the goroutine of cleanupTask goes, and what it makes of the row.
RescueGoesOn(t) ==
  /\ OthersKept(t) /\ \A u \in Tasks \ {t} : rescue'[u] = rescue[u]
  /\ rows[t].status \in {"running", "queued", "completed"}
  /\ SameRow(t) \/ BecomesQueued(t) \/ BecomesCompleted(t)
  /\ \/ UNCHANGED recoverQ
     \/ /\ recoverQ' = Append(recoverQ, [task |-> t, cid |-> rescue[t].cid])
        /\ rescue'[t].pc = "idle" /\ rows'[t].status = "running"
  /\ RescueAtWork(t)'

\* Every call of cleanupTask writes no row but that of its task
\* (garbagecollector.go:77-:127).
LEMMA CleanupMoves ==
  ASSUME OwnInv, NEW t \in Tasks, RescueStep(t)
  PROVE  /\ phase = "gc" /\ UNCHANGED <<phase, sem, worker, gor, sweep>>
         /\ rescue[t].pc # "idle" /\ RescueGoesOn(t)
<1>1. /\ phase = "gc" /\ rescue[t].pc # "idle" /\ UNCHANGED <<phase, sem, worker, gor, sweep>>
  BY DEF RescueStep, RescueExists, RescueGone, RescueState, RescueRemove, RescueRedo,
         RescueUpload, RescueComplete, RescueCleanup, RescueAt, Collecting, workerVars
<1>2. rows \in Tables /\ RescueFits(t)
      /\ rescue \in [Tasks -> [pc : RescuePCs, cid : Conts \cup {NoCont},
                               path : Paths \cup {NoPath}]]
  BY DEF OwnInv, SlotInv, TypeOK, PlatformTypeOK, Tables, GcTypeOK, Ownership, Owned
<1>3. ASSUME NEW pc, RescueGoto(t, pc)
      PROVE  /\ rescue'[t].pc = pc /\ rescue'[t].path = rescue[t].path
             /\ \A u \in Tasks \ {t} : rescue'[u] = rescue[u]
  BY <1>2, <1>3 DEF RescueGoto
<1>4. ASSUME RescueEnds(t)
      PROVE  /\ rescue'[t].pc = "idle"
             /\ \A u \in Tasks \ {t} : rescue'[u] = rescue[u]
  BY <1>2, <1>4 DEF RescueEnds, NoRescue
<1>5. ASSUME UNCHANGED rows PROVE SameRow(t) /\ OthersKept(t)
  BY <1>5 DEF SameRow, OthersKept
<1> SUFFICES RescueGoesOn(t)
  BY <1>1
<1>6. CASE RescueExists(t)
  <2>1. rescue[t].pc = "exists" /\ rows[t].status = "running" /\ UNCHANGED <<rows, recoverQ>>
    BY <1>2, <1>6 DEF RescueExists, RescueAt, RescueFits, RescueAtWork, workerVars
  <2>2. RescueGoto(t, "state") \/ RescueGoto(t, "gone") \/ RescueEnds(t)
    BY <1>6 DEF RescueExists
  <2> QED
    BY <1>3, <1>4, <1>5, <2>1, <2>2 DEF RescueGoesOn, RescueAtWork, OwnPaths
<1>7. CASE RescueGone(t)
  <2>1. /\ rescue[t].pc = "gone" /\ rows[t].status = "running" /\ UNCHANGED recoverQ
        /\ RescueEnds(t) /\ rows' \in {rows, SetStatus(rows, t, "queued")}
    BY <1>2, <1>7 DEF RescueGone, RescueAt, RescueFits, RescueAtWork, workerVars, MarkQueued
  <2>2. CASE rows' = SetStatus(rows, t, "queued")
    BY <1>2, <1>4, <2>1, <2>2, StatusMark
       DEF RescueGoesOn, RescueAtWork, OwnPaths, OthersKept, BecomesQueued
  <2> QED
    BY <1>4, <1>5, <2>1, <2>2 DEF RescueGoesOn, RescueAtWork, OwnPaths
<1>8. CASE RescueState(t)
  <2>1. /\ rescue[t].pc = "state" /\ rows[t].status = "running" /\ UNCHANGED rows
    BY <1>2, <1>8 DEF RescueState, RescueAt, RescueFits, RescueAtWork
  <2>2. \/ UNCHANGED recoverQ /\ (RescueEnds(t) \/ RescueGoto(t, "remove")
                                    \/ RescueGoto(t, "upload"))
        \/ /\ RescueEnds(t)
           /\ recoverQ' = Append(recoverQ, [task |-> t, cid |-> rescue[t].cid])
    BY <1>8 DEF RescueState
  <2> QED
    BY <1>3, <1>4, <1>5, <2>1, <2>2 DEF RescueGoesOn, RescueAtWork, OwnPaths
<1>9. CASE RescueRemove(t)
  <2>1. /\ rescue[t].pc = "remove" /\ rows[t].status = "running" /\ UNCHANGED <<rows, recoverQ>>
    BY <1>2, <1>9 DEF RescueRemove, RescueAt, RescueFits, RescueAtWork, workerVars
  <2>2. RescueGoto(t, "redo") \/ RescueEnds(t)
    BY <1>9 DEF RescueRemove
  <2> QED
    BY <1>3, <1>4, <1>5, <2>1, <2>2 DEF RescueGoesOn, RescueAtWork, OwnPaths
<1>10. CASE RescueRedo(t)
  <2>1. /\ rescue[t].pc = "redo" /\ rows[t].status = "running" /\ UNCHANGED recoverQ
        /\ rows' \in {rows, SetStatus(rows, t, "queued")}
        /\ RescueEnds(t) \/ RescueGoto(t, "upload")
    BY <1>2, <1>10 DEF RescueRedo, RescueAt, RescueFits, RescueAtWork, workerVars, MarkQueued
  <2>2. CASE rows' = SetStatus(rows, t, "queued")
    BY <1>2, <1>3, <1>4, <2>1, <2>2, StatusMark
       DEF RescueGoesOn, RescueAtWork, OwnPaths, OthersKept, BecomesQueued
  <2> QED
    BY <1>3, <1>4, <1>5, <2>1, <2>2 DEF RescueGoesOn, RescueAtWork, OwnPaths
<1>11. CASE RescueUpload(t)
  <2>1. /\ rescue[t].pc = "upload" /\ rows[t].status \in {"running", "queued"}
        /\ UNCHANGED <<rows, recoverQ>>
    BY <1>2, <1>11 DEF RescueUpload, RescueAt, RescueFits, RescueAtWork, workerVars
  <2>2. CASE RescueEnds(t)
    BY <1>4, <1>5, <2>1, <2>2 DEF RescueGoesOn, RescueAtWork, OwnPaths
  <2>3. ASSUME NEW f \in Files,
               rescue' = [rescue EXCEPT ![t].pc = "complete", ![t].path = <<t, f>>]
        PROVE  /\ rescue'[t].pc = "complete" /\ rescue'[t].path \in OwnPaths(t)
               /\ \A u \in Tasks \ {t} : rescue'[u] = rescue[u]
    BY <1>2, <2>3 DEF OwnPaths
  <2>4. \/ RescueEnds(t)
        \/ \E f \in Files :
             rescue' = [rescue EXCEPT ![t].pc = "complete", ![t].path = <<t, f>>]
    BY <1>11 DEF RescueUpload, Results
  <2> QED
    BY <1>5, <2>1, <2>2, <2>3, <2>4 DEF RescueGoesOn, RescueAtWork, OwnPaths
<1>12. CASE RescueComplete(t)
  <2>1. /\ rescue[t].pc = "complete" /\ rows[t].status \in {"running", "queued"}
        /\ UNCHANGED recoverQ
    BY <1>2, <1>12 DEF RescueComplete, RescueAt, RescueFits, RescueAtWork, workerVars
  <2>2. rescue[t].path \in PathsOf(t)
    BY <1>2, <2>1 DEF RescueFits, RescueAtWork, OwnPaths, PathsOf, Paths
  <2>3. \/ rows' = MarkCompleted(rows, t, rescue[t].path)
           /\ (RescueGoto(t, "cleanup") \/ RescueEnds(t))
        \/ rows' = rows /\ RescueEnds(t)
    BY <1>12 DEF RescueComplete
  <2>4. rows' = MarkCompleted(rows, t, rescue[t].path) =>
          BecomesCompleted(t) /\ OthersKept(t) /\ rows'[t].status = "completed"
    BY <1>2, <2>1, <2>2, CompletedMark DEF BecomesCompleted, OthersKept
  <2> QED
    BY <1>3, <1>4, <1>5, <2>1, <2>3, <2>4 DEF RescueGoesOn, RescueAtWork, OwnPaths
<1>13. CASE RescueCleanup(t)
  <2>1. /\ rescue[t].pc = "cleanup" /\ rows[t].status = "completed"
        /\ UNCHANGED <<rows, recoverQ>> /\ RescueEnds(t)
    BY <1>2, <1>13 DEF RescueCleanup, RescueAt, RescueFits, RescueAtWork, workerVars
  <2> QED
    BY <1>4, <1>5, <2>1 DEF RescueGoesOn, RescueAtWork, OwnPaths
<1> QED
  BY <1>6, <1>7, <1>8, <1>9, <1>10, <1>11, <1>12, <1>13 DEF RescueStep

\* A container that still runs: its task goes to the worker, once.
LEMMA HandedOver ==
  ASSUME recoverQ \in Seq([task : Tasks, cid : Conts]), NEW t \in Tasks, NEW c \in Conts,
         recoverQ' = Append(recoverQ, [task |-> t, cid |-> c]), ~InRecoverQ(t)
  PROVE  /\ OnceQueued(t)'
         /\ \A u \in Tasks \ {t} :
              (InRecoverQ(u)' <=> InRecoverQ(u)) /\ (OnceQueued(u) => OnceQueued(u)')
<1> DEFINE n == Len(recoverQ)
<1>1. /\ n \in Nat /\ Len(recoverQ') = n + 1
      /\ \A i \in 1 .. n : recoverQ'[i] = recoverQ[i]
      /\ recoverQ'[n + 1].task = t
  BY LenProperties, AppendProperties
<1>2. \A i \in 1 .. Len(recoverQ') : i \in 1 .. n \/ i = n + 1
  BY <1>1
<1>3. \A i \in 1 .. n : i \in 1 .. Len(recoverQ') /\ recoverQ[i].task # t
  BY <1>1 DEF InRecoverQ
<1> HIDE DEF n
<1>4. OnceQueued(t)'
  BY <1>1, <1>2, <1>3 DEF OnceQueued
<1>5. ASSUME NEW u \in Tasks \ {t}
      PROVE  (InRecoverQ(u)' <=> InRecoverQ(u)) /\ (OnceQueued(u) => OnceQueued(u)')
  BY <1>1, <1>2, <1>3 DEF InRecoverQ, OnceQueued, n
<1> QED
  BY <1>4, <1>5

\* The goroutines of cleanupTask.
LEMMA CleanupKeepsOwned ==
  ASSUME OwnInv, GcFrame, NEW t \in Tasks, RescueStep(t)
  PROVE  Ownership' /\ PathsFit'
<1>1. /\ phase = "gc" /\ UNCHANGED <<phase, worker, gor, sweep, apiVars, schedVars>>
      /\ rescue[t].pc # "idle" /\ RescueGoesOn(t)
  BY CleanupMoves DEF GcFrame
<1>2. /\ \A u \in Tasks : Owned(u)
      /\ worker.pc = "tick" /\ \A g \in Goroutines : gor[g].pc = "idle"
      /\ ~InRecoverQ(t) /\ sweep.pc # "tasks"
  BY <1>1 DEF OwnInv, Ownership, PhaseFits, NobodyWorks, Owned, RescueFits, InHands
<1>3. \A u \in Tasks : /\ ~InHand(u) /\ ~InHand(u)'
                       /\ \A g \in Goroutines : ~Runs(g, u) /\ ~Runs(g, u)'
  BY <1>1, <1>2 DEF InHand, Runs
<1>4. /\ InRecoverQ(t)' => rows'[t].status = "running" /\ rescue'[t].pc = "idle"
      /\ OnceQueued(t)'
      /\ \A u \in Tasks \ {t} :
           (InRecoverQ(u)' <=> InRecoverQ(u)) /\ (OnceQueued(u) => OnceQueued(u)')
  <2>1. CASE UNCHANGED recoverQ
    BY <1>2, <2>1 DEF InRecoverQ, OnceQueued, Owned, OneHand
  <2>2. CASE recoverQ' = Append(recoverQ, [task |-> t, cid |-> rescue[t].cid])
             /\ rescue'[t].pc = "idle" /\ rows'[t].status = "running"
    <3>1. recoverQ \in Seq([task : Tasks, cid : Conts]) /\ rescue[t].cid \in Conts
      BY <1>1 DEF OwnInv, SlotInv, TypeOK, WorkerTypeOK, Handles, RescuesOK
    <3> QED
      BY <1>2, <2>2, <3>1, HandedOver
  <2> QED
    BY <1>1, <2>1, <2>2 DEF RescueGoesOn
<1>5. Owned(t)'
  <2>1. ~Pending(t) /\ (Pending(t)' <=> Pending(t))
    BY <1>1, <1>2 DEF Owned, RowFits, RescueGoesOn, NoRow, Pending, apiVars
  <2>2. rows'[t].status \in {"running", "queued", "completed"}
    BY <1>1 DEF RescueGoesOn, SameRow, BecomesQueued, BecomesCompleted
  <2>3. OneHand(t)'
    BY <1>3, <1>4 DEF OneHand
  <2>4. RowFits(t)'
    BY <1>3, <1>4, <2>1, <2>2 DEF RowFits, Open
  <2>5. RescueFits(t)'
    BY <1>1, <1>3, <1>4 DEF RescueGoesOn, RescueFits, InHands
  <2>6. TimerFits(t)'
    BY <1>1, <1>2, <2>1, <2>2 DEF Owned, TimerFits, RescueGoesOn, apiVars, schedVars
  <2> QED
    BY <2>3, <2>4, <2>5, <2>6 DEF Owned
<1>6. ASSUME NEW u \in Tasks \ {t} PROVE Owned(u)'
  <2>1. rows'[u] = rows[u] /\ rescue'[u] = rescue[u] /\ (Pending(u)' <=> Pending(u))
    BY <1>1 DEF RescueGoesOn, OthersKept, Pending, apiVars
  <2>2. OneHand(u)'
    BY <1>2, <1>3, <1>4 DEF Owned, OneHand
  <2>3. RowFits(u)'
    BY <1>2, <1>3, <1>4, <2>1 DEF Owned, RowFits, InHands
  <2>4. RescueFits(u)'
    BY <1>1, <1>2, <1>3, <1>4, <2>1 DEF Owned, RescueFits, RescueAtWork, InHands, OwnPaths
  <2>5. TimerFits(u)'
    BY <1>1, <1>2, <2>1 DEF Owned, TimerFits, apiVars, schedVars
  <2> QED
    BY <2>2, <2>3, <2>4, <2>5 DEF Owned
<1>7. PhaseFits'
  BY <1>1, <1>2 DEF PhaseFits
<1>8. PathsFit'
  <2>1. \A u \in Tasks : rows'[u].path \in PathsOf(u) \cup {NoPath}
    BY <1>1 DEF OwnInv, PathsFit, RescueGoesOn, OthersKept, SameRow, BecomesQueued,
                BecomesCompleted
  <2> QED
    BY <1>1, <1>2, <2>1 DEF OwnInv, PathsFit, apiVars
<1> QED
  BY <1>5, <1>6, <1>7, <1>8 DEF Ownership

\* Cleanup and cleanupOrphans: a task is given to a goroutine of cleanupTask when
\* the process has just started, and nobody has one (garbagecollector.go:59-:167).
LEMMA SweepKeepsOwned ==
  ASSUME OwnInv, GcFrame,
         \/ ListRunning \/ ListConts \/ ListActive \/ Swept \/ GcOver
         \/ \E c \in Conts : SweepOne(c)
  PROVE  Ownership' /\ PathsFit'
<1>1. /\ phase = "gc" /\ UNCHANGED <<rows, worker, recoverQ, gor, apiVars, schedVars>>
  BY DEF ListRunning, ListConts, ListActive, Swept, GcOver, SweepOne, GcFrame, Collecting,
         workerVars, platformVars
<1>2. \A u \in Tasks : Owned(u) /\ (Pending(u)' <=> Pending(u))
  BY <1>1 DEF OwnInv, Ownership, Pending, apiVars
<1>3. \A u \in Tasks : TimerFits(u)'
  BY <1>1, <1>2 DEF Owned, TimerFits, apiVars, schedVars
<1>4. PathsFit'
  BY <1>1 DEF OwnInv, PathsFit, apiVars
<1>5. CASE UNCHANGED <<rescue, phase>> /\ sweep'.pc # "tasks"
  <2>1. \A u \in Tasks : RescueFits(u)'
    BY <1>1, <1>2, <1>5, HandsKept DEF Owned, RescueFits, RescueAtWork, OwnPaths
  <2>2. \A u \in Tasks : Owned(u)'
    BY <1>1, <1>2, <1>3, <2>1, OwnedKept
  <2>3. PhaseFits'
    BY <1>1, <1>5 DEF OwnInv, Ownership, PhaseFits
  <2> QED
    BY <1>4, <2>2, <2>3 DEF Ownership
<1>6. CASE ListRunning /\ ~(UNCHANGED <<rescue, phase>> /\ sweep'.pc # "tasks")
  <2>1. /\ sweep.pc = "tasks" /\ UNCHANGED phase /\ sweep'.pc = "list"
        /\ rescue' = [t \in Tasks |->
             IF t \in RunningWithContainer(rows)
             THEN [NoRescue EXCEPT !.pc = "exists", !.cid = rows[t].cid]
             ELSE NoRescue]
    BY <1>6 DEF ListRunning, OwnInv, SlotInv, TypeOK, GcTypeOK
  <2>2. NobodyWorks
    BY <1>1, <2>1 DEF OwnInv, Ownership, PhaseFits
  <2>3. ASSUME NEW u \in Tasks PROVE RescueFits(u)'
    <3>1. ~InHands(u)'
      BY <1>1, <2>2 DEF NobodyWorks, InHands, InHand, InRecoverQ, Runs
    <3>2. \/ rescue'[u].pc = "idle"
          \/ rescue'[u].pc = "exists" /\ rows[u].status = "running"
      BY <2>1 DEF RunningWithContainer, NoRescue
    <3> QED
      BY <1>1, <2>1, <3>1, <3>2 DEF RescueFits, RescueAtWork
  <2>4. \A u \in Tasks : Owned(u)'
    BY <1>1, <1>2, <1>3, <2>3, OwnedKept
  <2>5. PhaseFits'
    BY <1>1, <2>1, <2>2 DEF PhaseFits, NobodyWorks
  <2> QED
    BY <1>4, <2>4, <2>5 DEF Ownership
<1>7. CASE GcOver
  <2>1. /\ \A t \in Tasks : rescue[t].pc = "idle"
        /\ UNCHANGED <<rescue, sweep>> /\ phase' = "serving"
    BY <1>7 DEF GcOver
  <2>2. \A u \in Tasks : RescueFits(u)'
    BY <2>1 DEF RescueFits, RescueAtWork
  <2>3. \A u \in Tasks : Owned(u)'
    BY <1>1, <1>2, <1>3, <2>2, OwnedKept
  <2>4. PhaseFits'
    BY <2>1 DEF PhaseFits
  <2> QED
    BY <1>4, <2>3, <2>4 DEF Ownership
<1>8. ASSUME ListRunning \/ ListConts \/ ListActive \/ Swept \/ \E c \in Conts : SweepOne(c)
      PROVE  ListRunning \/ (UNCHANGED <<rescue, phase>> /\ sweep'.pc # "tasks")
  BY <1>8 DEF ListConts, ListActive, Swept, SweepOne, OwnInv, SlotInv, TypeOK, GcTypeOK,
              platformVars
<1> QED
  BY <1>5, <1>6, <1>7, <1>8

\* The collector keeps the invariant.
LEMMA GcKeepsOwned ==
  ASSUME OwnInv, GcPart
  PROVE  Ownership' /\ PathsFit'
  BY CleanupKeepsOwned, SweepKeepsOwned DEF GcPart, GcNext

-----------------------------------------------------------------------------
(* The handlers *)

\* A handler that writes no row.
LEMMA QuietHandler ==
  ASSUME OwnInv, ApiFrame, UNCHANGED <<rows, phase>>,
         \A u \in Tasks :
           /\ Pending(u)' => Pending(u)
           /\ stop'[u].pc # "none" => run'[u].pc = "over"
           /\ stop'[u].pc \in {"mark", "stop"} => rows[u].status # "scheduled"
           /\ run'[u].path \in PathsOf(u) \cup {NoPath}
  PROVE  Ownership' /\ PathsFit'
<1>1. UNCHANGED <<worker, recoverQ, gor, rescue, sweep, scheduled, armed, firing>>
  BY DEF ApiFrame, workerVars, gcVars, schedVars
<1>2. ASSUME NEW u \in Tasks PROVE Owned(u)'
  <2>1. Owned(u)
    BY DEF OwnInv, Ownership
  <2>2. RescueFits(u)'
    BY <1>1, <2>1, HandsKept DEF Owned, RescueFits, RescueAtWork, OwnPaths
  <2>3. TimerFits(u)'
    BY <1>1, <2>1 DEF Owned, TimerFits
  <2> QED
    BY <1>1, <2>1, <2>2, <2>3, OwnedKept
<1>3. PhaseFits' /\ PathsFit'
  BY <1>1 DEF OwnInv, Ownership, PhaseFits, NobodyWorks, PathsFit
<1> QED
  BY <1>2, <1>3 DEF Ownership

\* A handler that writes the row of t, which may be anybody's.
LEMMA RowHandler ==
  ASSUME OwnInv, ApiFrame, NEW t \in Tasks, UNCHANGED phase, Up, OthersKept(t),
         RowFits(t)', TimerFits(t)', rows'[t].path \in PathsOf(t) \cup {NoPath},
         \A u \in Tasks : run'[u].path \in PathsOf(u) \cup {NoPath},
         \A u \in Tasks \ {t} : run'[u] = run[u] /\ stop'[u] = stop[u]
  PROVE  Ownership' /\ PathsFit'
<1>1. UNCHANGED <<worker, recoverQ, gor, rescue, sweep, scheduled, armed, firing>>
  BY DEF ApiFrame, workerVars, gcVars, schedVars
<1>2. \A u \in Tasks : Owned(u) /\ RescueFits(u)'
  BY <1>1 DEF OwnInv, Ownership, Owned, RescueFits, RescueAtWork, Up
<1>3. ASSUME NEW u \in Tasks PROVE Owned(u)'
  <2>1. CASE u = t
    BY <1>1, <1>2, <2>1, HandsKept DEF Owned
  <2>2. CASE u # t
    <3>1. rows'[u] = rows[u] /\ (Pending(u)' <=> Pending(u))
      BY <2>2 DEF OthersKept, Pending
    <3>2. TimerFits(u)'
      BY <1>1, <1>2, <2>2, <3>1 DEF Owned, TimerFits
    <3> QED
      BY <1>1, <1>2, <3>1, <3>2, OwnedKept
  <2> QED
    BY <2>1, <2>2
<1>4. \A u \in Tasks : rows'[u].path \in PathsOf(u) \cup {NoPath}
  BY DEF OwnInv, PathsFit, OthersKept
<1>5. PhaseFits' /\ PathsFit'
  BY <1>1, <1>4 DEF OwnInv, Ownership, PhaseFits, NobodyWorks, PathsFit
<1> QED
  BY <1>3, <1>5 DEF Ownership

\* The INSERT of CreateTask, heard of or not: nobody has a task that has no row
\* yet (task.go:146).
LEMMA InsertKeepsOwned ==
  ASSUME OwnInv, ApiFrame, NEW t \in Tasks, InsertRow(t)
  PROVE  Ownership' /\ PathsFit'
<1>1. /\ Up /\ run[t].pc = "insert" /\ UNCHANGED <<phase, stop>> /\ rows \in Tables
      /\ run \in [Tasks -> [pc : RunPCs, path : Paths \cup {NoPath}]]
      /\ Owned(t) /\ run[t].path \in PathsOf(t) \cup {NoPath} /\ inserts \in Nat
      /\ UNCHANGED <<worker, recoverQ, gor, scheduled, armed, firing>>
  BY DEF InsertRow, RunAt, OwnInv, SlotInv, TypeOK, PlatformTypeOK, Tables, ApiTypeOK,
         Ownership, PathsFit, ApiFrame, workerVars, schedVars
<1>2. RunGoto(t, "hit") \/ RunGoto(t, "undo") \/ RunEnds(t)
  BY DEF InsertRow
<1>3. /\ run'[t].pc \in {"hit", "undo", "over"}
      /\ run'[t].path \in {run[t].path, NoPath}
      /\ \A u \in Tasks \ {t} : run'[u] = run[u]
  BY <1>1, <1>2 DEF RunGoto, RunEnds, RunOver
<1>4. \A u \in Tasks : run'[u].path \in PathsOf(u) \cup {NoPath}
  BY <1>1, <1>3 DEF OwnInv, PathsFit
<1>5. Pending(t) /\ ~Pending(t)' /\ ~InHands(t) /\ rows[t] = NoRow
  BY <1>1, <1>3 DEF Pending, Owned, RowFits
<1>6. ~InHand(t)' /\ ~InRecoverQ(t)' /\ \A g \in Goroutines : ~Runs(g, t)'
  BY <1>1, <1>5, HandsKept DEF InHands
<1>7. CASE UNCHANGED rows
  <2>1. RowFits(t)' /\ OthersKept(t)
    BY <1>5, <1>6, <1>7 DEF RowFits, OthersKept
  <2>2. TimerFits(t)'
    BY <1>1, <1>5, <1>7 DEF Owned, TimerFits, NoRow
  <2> QED
    BY <1>1, <1>3, <1>4, <1>5, <1>7, <2>1, <2>2, RowHandler DEF NoRow
<1>8. CASE Inserted(t)
  <2>1. FirstStatus(t) \in {"completed", "scheduled", "queued"}
    BY DEF FirstStatus
  <2>2. /\ OthersKept(t) /\ rows'[t].status \in {"completed", "scheduled", "queued"}
        /\ rows'[t].cid = NoCont /\ rows'[t].path = run[t].path
    BY <1>1, <1>8, <2>1 DEF Inserted, Insert, OthersKept, Tables, Rows
  <2>3. RowFits(t)'
    BY <1>5, <1>6, <2>2 DEF RowFits
  <2>4. TimerFits(t)'
    BY <1>1, <1>5, <2>2 DEF Owned, TimerFits
  <2> QED
    BY <1>1, <1>3, <1>4, <2>2, <2>3, <2>4, RowHandler
<1> QED
  BY <1>7, <1>8 DEF InsertRow

\* The mark "stopped" of StopTask: the task may be in hands, but has a container
\* id, so no timer of it is on its way (task.go:178).
LEMMA StopMarkKeepsOwned ==
  ASSUME OwnInv, ApiFrame, NEW t \in Tasks, StopMark(t)
  PROVE  Ownership' /\ PathsFit' /\ OthersKept(t) /\ (SameRow(t) \/ BecomesStopped(t))
<1>1. /\ Up /\ stop[t].pc = "mark" /\ UNCHANGED <<phase, run>> /\ rows \in Tables
      /\ stop \in [Tasks -> [pc : {"none", "read", "mark", "stop"}, cid : Conts \cup {NoCont}]]
      /\ Owned(t) /\ PathsFit
      /\ UNCHANGED <<worker, recoverQ, gor, scheduled, armed, firing>>
  BY DEF StopMark, StopAt, OwnInv, SlotInv, TypeOK, PlatformTypeOK, Tables, ApiTypeOK,
         Ownership, ApiFrame, workerVars, schedVars
<1>2. /\ rows' = rows \/ rows' = SetStatus(rows, t, "stopped")
      /\ stop' = [stop EXCEPT ![t].pc = "stop"] \/ StopEnds(t)
  BY DEF StopMark, MarkStopped
<1>3. /\ stop'[t].pc \in {"none", "stop"} /\ run[t].pc = "over" /\ ~Pending(t)
      /\ ~Pending(t)' /\ \A u \in Tasks \ {t} : stop'[u] = stop[u]
  BY <1>1, <1>2 DEF StopEnds, NoStop, Owned, TimerFits, Pending
<1>4. rows[t].status # "scheduled" /\ (rows[t].status = "absent" => rows[t] = NoRow)
  BY <1>1 DEF Owned, TimerFits, RowFits
<1>5. NoRow.status = "absent"
  BY DEF NoRow
<1>6. OthersKept(t) /\ (SameRow(t) \/ BecomesStopped(t))
  BY <1>1, <1>2, StatusMark DEF OthersKept, SameRow, BecomesStopped
<1>7. \/ rows' = rows
      \/ rows[t].status # "absent" /\ rows'[t].status = "stopped"
  BY <1>1, <1>2, StatusMark
<1>8. rows'[t].status # "scheduled" /\ (rows'[t].status = "absent" => rows'[t] = NoRow)
  BY <1>4, <1>7
<1>9. RowFits(t)'
  <2>1. /\ (InHand(t)' <=> InHand(t)) /\ (InRecoverQ(t)' <=> InRecoverQ(t))
        /\ \A g \in Goroutines : (Runs(g, t)' <=> Runs(g, t)) /\ gor'[g] = gor[g]
    BY <1>1, HandsKept
  <2> QED
    BY <1>1, <1>3, <1>7, <1>8, <2>1 DEF Owned, RowFits, Over, Open
<1>10. TimerFits(t)'
  BY <1>1, <1>3, <1>4, <1>7, <1>8 DEF Owned, TimerFits
<1>11. rows'[t].path \in PathsOf(t) \cup {NoPath}
  BY <1>1, <1>6 DEF PathsFit, SameRow, BecomesStopped
<1>12. \A u \in Tasks : run'[u].path \in PathsOf(u) \cup {NoPath}
  BY <1>1 DEF PathsFit
<1> QED
  BY <1>1, <1>3, <1>6, <1>9, <1>10, <1>11, <1>12, RowHandler

\* The last call of DeleteTask: whoever has the task goes on without its row
\* (query.sql.go:117).
LEMMA DeleteRowKeepsOwned ==
  ASSUME OwnInv, ApiFrame, NEW t \in Tasks, DeleteRow(t)
  PROVE  /\ Ownership' /\ PathsFit'
         /\ rows' = rows \/ (OthersKept(t) /\ rows'[t] = NoRow)
<1>1. /\ Up /\ UNCHANGED <<phase, run, stop>> /\ rows \in Tables /\ Owned(t) /\ PathsFit
      /\ UNCHANGED <<worker, recoverQ, gor, scheduled, armed, firing>>
  BY DEF DeleteRow, DelAt, OwnInv, SlotInv, TypeOK, PlatformTypeOK, Tables,
         Ownership, ApiFrame, workerVars, schedVars
<1>2. rows' = rows \/ (OthersKept(t) /\ rows'[t] = NoRow)
  BY <1>1 DEF DeleteRow, Deleted, OthersKept, Tables
<1>3. /\ NoRow.status = "absent" /\ NoRow.path = NoPath /\ (Pending(t)' <=> Pending(t))
  BY <1>1 DEF NoRow, Pending
<1>4. CASE rows' = rows
  BY <1>1, <1>4, QuietHandler DEF OwnInv, Ownership, Owned, TimerFits, PathsFit, Pending
<1>5. CASE OthersKept(t) /\ rows'[t] = NoRow
  <2>1. RowFits(t)'
    <3>1. InHands(t)' <=> InHands(t)
      BY <1>1, HandsKept
    <3> QED
      BY <1>1, <1>3, <1>5, <3>1 DEF Owned, RowFits, Over, Open
  <2>2. TimerFits(t)'
    BY <1>1, <1>3, <1>5 DEF Owned, TimerFits
  <2> QED
    BY <1>1, <1>3, <1>5, <2>1, <2>2, RowHandler DEF PathsFit
<1> QED
  BY <1>1, <1>2, <1>4, <1>5

\* The other calls of the handlers.
LEMMA ApiKeepsOwned ==
  ASSUME OwnInv, ApiPart
  PROVE  Ownership' /\ PathsFit'
<1>1. /\ ApiFrame /\ PathsFit
      /\ run \in [Tasks -> [pc : RunPCs, path : Paths \cup {NoPath}]]
      /\ stop \in [Tasks -> [pc : {"none", "read", "mark", "stop"}, cid : Conts \cup {NoCont}]]
      /\ \A u \in Tasks : /\ stop[u].pc # "none" => run[u].pc = "over"
                          /\ stop[u].pc \in {"mark", "stop"} => rows[u].status # "scheduled"
                          /\ rows[u].status = "scheduled" => rows[u].cid = NoCont
                          /\ run[u].path \in PathsOf(u) \cup {NoPath}
  BY DEF ApiPart, OwnInv, SlotInv, TypeOK, ApiTypeOK, PathsFit, Ownership, Owned, TimerFits
<1>2. PICK t \in Tasks : RunStep(t) \/ StopStep(t) \/ DeleteStep(t)
                         \/ StopRequest(t) \/ DeleteRequest(t)
  BY DEF ApiPart, ApiNext
<1>3. ASSUME NEW pc, RunGoto(t, pc)
      PROVE  /\ run'[t].pc = pc /\ run'[t].path = run[t].path
             /\ \A u \in Tasks \ {t} : run'[u] = run[u]
  BY <1>1, <1>3 DEF RunGoto
<1>4. ASSUME RunEnds(t)
      PROVE  /\ run'[t].pc = "over" /\ run'[t].path = NoPath
             /\ \A u \in Tasks \ {t} : run'[u] = run[u]
  BY <1>1, <1>4 DEF RunEnds, RunOver
<1>5. ASSUME StopEnds(t)
      PROVE  stop'[t].pc = "none" /\ \A u \in Tasks \ {t} : stop'[u] = stop[u]
  BY <1>1, <1>5 DEF StopEnds, NoStop
<1>6. ASSUME UNCHANGED <<rows, phase, stop>>,
             Pending(t)' => Pending(t), run[t].pc # "over" \/ run'[t].pc = "over",
             run'[t].path \in PathsOf(t) \cup {NoPath},
             \A u \in Tasks \ {t} : run'[u] = run[u]
      PROVE  Ownership' /\ PathsFit'
  <2>1. ASSUME NEW u \in Tasks PROVE /\ Pending(u)' => Pending(u)
                                     /\ stop'[u].pc # "none" => run'[u].pc = "over"
                                     /\ run'[u].path \in PathsOf(u) \cup {NoPath}
    BY <1>1, <1>6 DEF Pending
  <2> QED
    BY <1>1, <1>6, <2>1, QuietHandler
<1>7. CASE SaveInput(t)
  <2>1. /\ run[t].pc = "new" /\ UNCHANGED <<rows, phase, stop>>
        /\ RunGoto(t, "image") \/ RunEnds(t)
    BY <1>7 DEF SaveInput
  <2> QED
    BY <1>1, <1>3, <1>4, <1>6, <2>1 DEF Pending
<1>8. CASE FindImage(t)
  <2>1. /\ run[t].pc = "image" /\ UNCHANGED <<rows, phase, stop>>
        /\ RunGoto(t, "cache") \/ RunGoto(t, "undo")
    BY <1>8 DEF FindImage, RunAt, platformVars
  <2> QED
    BY <1>1, <1>3, <1>6, <2>1 DEF Pending
<1>9. CASE FindCached(t)
  <2>1. run[t].pc = "cache" /\ UNCHANGED <<rows, phase, stop>>
    BY <1>9 DEF FindCached, RunAt
  <2>2. CASE RunGoto(t, "insert")
    BY <1>1, <1>3, <1>6, <2>1, <2>2 DEF Pending
  <2>3. ASSUME NEW p \in CachedPaths(rows, Sig[t]),
               run' = [run EXCEPT ![t].pc = "insert", ![t].path = p]
        PROVE  Ownership' /\ PathsFit'
    <3>1. /\ run'[t].pc = "insert" /\ run'[t].path = p
          /\ \A u \in Tasks \ {t} : run'[u] = run[u]
      BY <1>1, <2>3
    <3>2. p \in PathsOf(t) \cup {NoPath}
      BY <1>1, CachedFits
    <3> QED
      BY <1>6, <2>1, <3>1, <3>2 DEF Pending
  <2> QED
    BY <1>9, <2>2, <2>3 DEF FindCached
<1>10. CASE RunCleanup(t)
  <2>1. RunEnds(t) /\ UNCHANGED <<rows, phase, stop>>
    BY <1>10 DEF RunCleanup
  <2> QED
    BY <1>1, <1>4, <1>6, <2>1 DEF Pending
<1>11. CASE StopRequest(t) \/ StopRead(t) \/ StopCont(t)
  <2>1. /\ UNCHANGED <<rows, phase, run>>
        /\ \A u \in Tasks \ {t} : stop'[u] = stop[u]
    BY <1>1, <1>5, <1>11 DEF StopRequest, StopRead, StopCont, platformVars
  <2>2. /\ stop'[t].pc # "none" => run[t].pc = "over"
        /\ stop'[t].pc \in {"mark", "stop"} => rows[t].status # "scheduled"
    <3>1. CASE StopRequest(t)
      BY <1>1, <3>1 DEF StopRequest
    <3>2. CASE StopRead(t)
      BY <1>1, <1>5, <3>2 DEF StopRead, StopAt
    <3>3. CASE StopCont(t)
      BY <1>5, <3>3 DEF StopCont
    <3> QED
      BY <1>11, <3>1, <3>2, <3>3
  <2>3. ASSUME NEW u \in Tasks
        PROVE /\ Pending(u)' => Pending(u)
              /\ stop'[u].pc # "none" => run'[u].pc = "over"
              /\ stop'[u].pc \in {"mark", "stop"} => rows[u].status # "scheduled"
    BY <1>1, <2>1, <2>2 DEF Pending
  <2> QED
    BY <1>1, <2>1, <2>3, QuietHandler
<1>12. CASE DeleteRequest(t) \/ DeleteRead(t) \/ DeleteArtifacts(t) \/ DeleteWorkspace(t)
  <2>1. UNCHANGED <<rows, phase, run, stop>>
    BY <1>12 DEF DeleteRequest, DeleteRead, DeleteArtifacts, DeleteWorkspace, platformVars
  <2> QED
    BY <1>1, <2>1, QuietHandler DEF Pending
<1> QED
  BY <1>1, <1>2, <1>7, <1>8, <1>9, <1>10, <1>11, <1>12, InsertKeepsOwned,
     StopMarkKeepsOwned, DeleteRowKeepsOwned DEF RunStep, StopStep, DeleteStep

-----------------------------------------------------------------------------
(* Timers, programs and the process *)

\* A timer that marks its task finds it still scheduled, and hence in nobody's
\* hands (task.go:219-:232).
LEMMA SchedKeepsOwned ==
  ASSUME OwnInv, SchedPart
  PROVE  Ownership' /\ PathsFit'
<1>1. /\ UNCHANGED <<worker, recoverQ, gor, rescue, sweep, run, stop>> /\ rows \in Tables
      /\ armed \in [Tasks -> Nat] /\ firing \in [Tasks -> Nat]
      /\ \A u \in Tasks : Owned(u)
  BY DEF SchedPart, SchedFrame, workerVars, gcVars, apiVars, OwnInv, SlotInv, TypeOK,
         PlatformTypeOK, SchedTypeOK, Tables, Ownership
<1>2. CASE ReadUpcoming
  <2>1. UNCHANGED <<rows, phase, scheduled, armed, firing>>
    BY <1>2 DEF ReadUpcoming, platformVars
  <2>2. ASSUME NEW u \in Tasks PROVE Owned(u)'
    <3>1. RescueFits(u)'
      BY <1>1, <2>1, HandsKept DEF Owned, RescueFits, RescueAtWork, OwnPaths
    <3>2. TimerFits(u)' /\ (Pending(u)' <=> Pending(u))
      BY <1>1, <2>1 DEF Owned, TimerFits, Pending
    <3> QED
      BY <1>1, <2>1, <3>1, <3>2, OwnedKept
  <2> QED
    BY <1>1, <2>1, <2>2 DEF OwnInv, Ownership, PhaseFits, NobodyWorks, PathsFit
<1>3. ASSUME NEW t \in Tasks, Register(t) \/ Fire(t) \/ Enqueue(t)
      PROVE  Ownership' /\ PathsFit'
  <2>1. Up /\ phase' \in {phase, "panicked"}
    BY <1>3 DEF Register, Fire, Enqueue, platformVars
  <2>2. \A u \in Tasks : rescue'[u].pc = "idle"
    BY <1>1, <2>1 DEF Owned, RescueFits, Up
  <2>3. \A u \in Tasks : RescueFits(u)'
    BY <2>2 DEF RescueFits, RescueAtWork
  <2>4. /\ \/ rows' = rows
           \/ rows[t].status = "scheduled" /\ rows' = SetStatus(rows, t, "queued")
        /\ TimerFits(t)'
    <3>1. armed[t] \in Nat /\ firing[t] \in Nat /\ TimerFits(t) /\ RowFits(t)
      BY <1>1 DEF Owned
    <3>2. NoRow.status = "absent" /\ (Pending(t)' <=> Pending(t))
      BY <1>1 DEF NoRow, Pending
    <3>3. CASE Register(t)
      <4>1. UNCHANGED <<rows, firing>>
        BY <3>3 DEF Register, platformVars
      <4>2. \/ UNCHANGED <<scheduled, armed>>
            \/ t \notin scheduled /\ t \in scheduled' /\ armed'[t] = armed[t] + 1
        BY <1>1, <3>3 DEF Register
      <4>3. armed'[t] + firing'[t] > 0 => t \in scheduled' /\ armed'[t] + firing'[t] = 1
        BY <3>1, <4>1, <4>2 DEF TimerFits
      <4> QED
        BY <1>1, <3>1, <3>2, <4>1, <4>3 DEF TimerFits
    <3>4. CASE Fire(t)
      <4>1. /\ armed[t] > 0 /\ UNCHANGED <<rows, scheduled>> /\ armed'[t] = armed[t] - 1
            /\ \/ firing'[t] = firing[t]
               \/ rows[t].status = "scheduled" /\ firing'[t] = firing[t] + 1
        BY <1>1, <3>4 DEF Fire
      <4>2. rows[t].status = "scheduled" => ~Pending(t)
        BY <3>1, <3>2 DEF RowFits
      <4>3. armed'[t] + firing'[t] > 0 => t \in scheduled' /\ armed'[t] + firing'[t] = 1
        BY <3>1, <4>1 DEF TimerFits
      <4>4. firing'[t] > 0 => rows[t].status \in {"scheduled", "absent"} /\ ~Pending(t)
        BY <3>1, <4>1, <4>2 DEF TimerFits
      <4> QED
        BY <1>1, <3>1, <3>2, <4>1, <4>3, <4>4 DEF TimerFits
    <3>5. CASE Enqueue(t)
      <4>1. /\ firing[t] > 0 /\ UNCHANGED armed /\ firing'[t] = firing[t] - 1
            /\ rows' \in {rows, SetStatus(rows, t, "queued")}
        BY <1>1, <3>5 DEF Enqueue, MarkQueued
      <4>2. firing'[t] = 0 /\ armed'[t] = 0 /\ rows[t].status \in {"scheduled", "absent"}
        BY <3>1, <4>1 DEF TimerFits
      <4>3. \/ rows' = rows
            \/ rows[t].status = "scheduled" /\ rows' = SetStatus(rows, t, "queued")
        BY <1>1, <4>1, <4>2, StatusMark
      <4>4. /\ rows'[t].cid = rows[t].cid
            /\ rows'[t].status \in {rows[t].status, "queued"}
        BY <1>1, <4>3, StatusMark
      <4>5. ~(armed'[t] + firing'[t] > 0) /\ ~(firing'[t] > 0)
        BY <4>2
      <4> QED
        BY <1>1, <3>1, <4>3, <4>4, <4>5 DEF TimerFits
    <3> QED
      BY <1>3, <3>3, <3>4, <3>5
  <2>5. OthersKept(t)
    BY <1>1, <2>4, StatusMark DEF OthersKept
  <2>6. RowFits(t)'
    <3>1. \/ rows'[t] = rows[t]
          \/ rows[t].status = "scheduled" /\ rows'[t].status = "queued"
      BY <1>1, <2>4, StatusMark
    <3>2. /\ InHands(t)' <=> InHands(t)
          /\ InHand(t)' <=> InHand(t)
          /\ InRecoverQ(t)' <=> InRecoverQ(t)
          /\ \A g \in Goroutines : (Runs(g, t)' <=> Runs(g, t)) /\ gor'[g] = gor[g]
      BY <1>1, HandsKept
    <3>3. NoRow.status = "absent" /\ (Pending(t)' <=> Pending(t))
      BY <1>1 DEF NoRow, Pending
    <3> QED
      BY <1>1, <3>1, <3>2, <3>3 DEF Owned, RowFits, Over, Open
  <2>7. Owned(t)'
    BY <1>1, <2>3, <2>4, <2>6, HandsKept DEF Owned
  <2>8. ASSUME NEW u \in Tasks \ {t} PROVE Owned(u)'
    <3>1. /\ armed'[u] = armed[u] /\ firing'[u] = firing[u]
          /\ u \in scheduled => u \in scheduled'
      BY <1>1, <1>3 DEF Register, Fire, Enqueue
    <3>2. rows'[u] = rows[u] /\ (Pending(u)' <=> Pending(u))
      BY <1>1, <2>5 DEF OthersKept, Pending
    <3>3. TimerFits(u)'
      BY <1>1, <3>1, <3>2 DEF Owned, TimerFits
    <3> QED
      BY <1>1, <2>3, <3>2, <3>3, OwnedKept
  <2>9. PathsFit'
    <3>1. \A u \in Tasks : rows'[u].path = rows[u].path
      BY <1>1, <2>4, StatusMark
    <3> QED
      BY <1>1, <3>1 DEF OwnInv, PathsFit
  <2> QED
    BY <2>1, <2>7, <2>8, <2>9, PhaseStays DEF Ownership
<1> QED
  BY <1>2, <1>3 DEF SchedPart, SchedNext

\* Time and the programs in the containers.
LEMMA EnvKeepsOwned ==
  ASSUME OwnInv, EnvPart
  PROVE  Ownership' /\ PathsFit'
<1>1. UNCHANGED <<rows, phase, worker, recoverQ, gor, rescue, sweep, run, stop, scheduled,
                  armed, firing>>
  BY DEF EnvPart, Environment, ClockTick, ContainerExit, EnvFrame, workerVars, gcVars,
         apiVars, schedVars
<1>2. ASSUME NEW u \in Tasks PROVE Owned(u)'
  <2>1. Owned(u) /\ (Pending(u)' <=> Pending(u))
    BY <1>1 DEF OwnInv, Ownership, Pending
  <2>2. RescueFits(u)'
    BY <1>1, <2>1, HandsKept DEF Owned, RescueFits, RescueAtWork, OwnPaths
  <2>3. TimerFits(u)'
    BY <1>1, <2>1 DEF Owned, TimerFits
  <2> QED
    BY <1>1, <2>1, <2>2, <2>3, OwnedKept
<1> QED
  BY <1>1, <1>2 DEF OwnInv, Ownership, PhaseFits, NobodyWorks, PathsFit

\* A new process has nothing in hands; the rows are as the old one left them.
LEMMA ProcessKeepsOwned ==
  ASSUME OwnInv, Process
  PROVE  Ownership' /\ PathsFit'
<1>1. CASE ProcessEnds
  <2>1. /\ worker' = LoopStart /\ recoverQ' = <<>> /\ gor' = [g \in Goroutines |-> Idle]
        /\ rescue' = [t \in Tasks |-> NoRescue] /\ sweep' = SweepStart /\ phase' = "down"
        /\ run' = [t \in Tasks |-> IF run[t].pc = "new" THEN NewRun ELSE RunOver]
        /\ stop' = [t \in Tasks |-> NoStop] /\ armed' = [t \in Tasks |-> 0]
        /\ firing' = [t \in Tasks |-> 0] /\ UNCHANGED rows
    BY <1>1 DEF ProcessEnds, WorkerReset, GcReset, ApiReset, SchedReset
  <2>2. NobodyWorks' /\ sweep'.pc = "tasks"
    BY <2>1 DEF NobodyWorks, LoopStart, Idle, NoRescue, SweepStart
  <2>3. PhaseFits'
    BY <2>1, <2>2 DEF PhaseFits, NobodyWorks
  <2>4. ASSUME NEW u \in Tasks PROVE Owned(u)'
    <3>1. Owned(u) /\ (Pending(u)' => Pending(u))
      BY <2>1 DEF OwnInv, Ownership, Pending, NewRun, RunOver
    <3>2. /\ ~InHand(u)' /\ ~InRecoverQ(u)' /\ OnceQueued(u)'
          /\ \A g \in Goroutines : ~Runs(g, u)'
      BY <2>1, <2>2 DEF NobodyWorks, InHand, InRecoverQ, OnceQueued, Runs
    <3>3. OneHand(u)' /\ ~InHands(u)'
      BY <3>2 DEF OneHand, InHands
    <3>4. RowFits(u)'
      BY <2>1, <3>1, <3>2, <3>3 DEF Owned, RowFits
    <3>5. RescueFits(u)'
      BY <2>2 DEF RescueFits, RescueAtWork, NobodyWorks
    <3>6. TimerFits(u)'
      BY <2>1, <3>1 DEF Owned, TimerFits, NoStop
    <3> QED
      BY <3>3, <3>4, <3>5, <3>6 DEF Owned
  <2>5. PathsFit'
    BY <2>1 DEF OwnInv, PathsFit, NewRun, RunOver, LoopStart, Idle
  <2> QED
    BY <2>3, <2>4, <2>5 DEF Ownership
<1>2. CASE Boot \/ Terminate
  <2>1. UNCHANGED <<rows, worker, recoverQ, gor, rescue, sweep, run, stop, scheduled,
                    armed, firing>>
    BY <1>2 DEF Boot, Terminate, workerVars, gcVars, apiVars, schedVars
  <2>2. /\ \A u \in Tasks : rescue[u].pc = "idle"
        /\ PhaseFits'
    <3>1. CASE Boot
      BY <2>1, <3>1 DEF Boot, OwnInv, Ownership, PhaseFits, NobodyWorks
    <3>2. CASE Terminate
      BY <2>1, <3>2 DEF Terminate, OwnInv, Ownership, PhaseFits, Owned, RescueFits
    <3> QED
      BY <1>2, <3>1, <3>2
  <2>3. ASSUME NEW u \in Tasks PROVE Owned(u)'
    <3>1. Owned(u) /\ (Pending(u)' <=> Pending(u))
      BY <2>1 DEF OwnInv, Ownership, Pending
    <3>2. RescueFits(u)'
      BY <2>1, <2>2 DEF RescueFits, RescueAtWork
    <3>3. TimerFits(u)'
      BY <2>1, <3>1 DEF Owned, TimerFits
    <3> QED
      BY <2>1, <3>1, <3>2, <3>3, OwnedKept
  <2> QED
    BY <2>1, <2>2, <2>3 DEF OwnInv, Ownership, PathsFit
<1> QED
  BY <1>1, <1>2 DEF Process, Crash, Abort, Exit, ExitEarly

-----------------------------------------------------------------------------
(* The theorems *)

\* Nothing has happened, and nobody has anything.
LEMMA InitOwned == Init => OwnInv
<1> SUFFICES ASSUME Init PROVE OwnInv
  OBVIOUS
<1>1. SlotInv
  BY InitSlotInv
<1>2. /\ rows = [t \in Tasks |-> NoRow] /\ phase = "down" /\ worker = LoopStart
      /\ recoverQ = <<>> /\ gor = [g \in Goroutines |-> Idle]
      /\ rescue = [t \in Tasks |-> NoRescue] /\ sweep = SweepStart
      /\ run = [t \in Tasks |-> NewRun] /\ stop = [t \in Tasks |-> NoStop]
      /\ armed = [t \in Tasks |-> 0] /\ firing = [t \in Tasks |-> 0]
  BY DEF Init, PlatformInit, WorkerInit, GcInit, ApiInit, SchedInit
<1>3. NobodyWorks /\ PhaseFits
  BY <1>2 DEF PhaseFits, NobodyWorks, LoopStart, Idle, NoRescue, SweepStart
<1>4. ASSUME NEW u \in Tasks PROVE Owned(u)
  <2>1. /\ ~InHand(u) /\ ~InRecoverQ(u) /\ OnceQueued(u) /\ \A g \in Goroutines : ~Runs(g, u)
    BY <1>2, <1>3 DEF NobodyWorks, InHand, InRecoverQ, OnceQueued, Runs
  <2>2. OneHand(u) /\ RowFits(u)
    BY <1>2, <2>1 DEF OneHand, InHands, RowFits
  <2>3. RescueFits(u) /\ TimerFits(u)
    BY <1>2 DEF RescueFits, RescueAtWork, NoRescue, TimerFits, NoRow, NoStop
  <2> QED
    BY <2>2, <2>3 DEF Owned
<1>5. PathsFit
  BY <1>2 DEF PathsFit, NoRow, NewRun, LoopStart, Idle
<1> QED
  BY <1>1, <1>3, <1>4, <1>5 DEF OwnInv, Ownership

\* Every step keeps the invariant.
LEMMA NextOwned == OwnInv /\ [Next]_vars => OwnInv'
<1> SUFFICES ASSUME OwnInv, [Next]_vars PROVE OwnInv'
  OBVIOUS
<1>1. SlotInv'
  BY NextSlotInv DEF OwnInv
<1>2. CASE Next
  BY <1>1, <1>2, WorkerKeepsOwned, GcKeepsOwned, ApiKeepsOwned, SchedKeepsOwned,
     EnvKeepsOwned, ProcessKeepsOwned DEF Next, OwnInv
<1>3. CASE UNCHANGED vars
  <2>1. UNCHANGED <<rows, phase, worker, recoverQ, gor, rescue, sweep, run, stop, scheduled,
                    armed, firing>>
    BY <1>3 DEF vars, platformVars, workerVars, gcVars, apiVars, schedVars
  <2>2. ASSUME NEW u \in Tasks PROVE Owned(u)'
    <3>1. Owned(u) /\ (Pending(u)' <=> Pending(u))
      BY <2>1 DEF OwnInv, Ownership, Pending
    <3>2. RescueFits(u)'
      BY <2>1, <3>1, HandsKept DEF Owned, RescueFits, RescueAtWork, OwnPaths
    <3>3. TimerFits(u)'
      BY <2>1, <3>1 DEF Owned, TimerFits
    <3> QED
      BY <2>1, <3>1, <3>2, <3>3, OwnedKept
  <2>3. Ownership' /\ PathsFit'
    BY <2>1, <2>2 DEF OwnInv, Ownership, PhaseFits, NobodyWorks, PathsFit
  <2> QED
    BY <1>1, <2>3 DEF OwnInv
<1> QED
  BY <1>2, <1>3

\* The invariant from which the theorems follow.
THEOREM OwnershipInvariant == Spec => []OwnInv
<1> QED
  BY InitOwned, NextOwned, PTL DEF Spec

\* A task is in one pair of hands -- the loop's, one goroutine's, or the queue of
\* recovered tasks -- whatever the scheduler, the collector, the claim and the
\* handlers write, over failing calls and restarts.
THEOREM OneRunner == Spec => []OneRunnerPerTask
<1>1. OwnInv => OneRunnerPerTask
  <2> SUFFICES ASSUME OwnInv, NEW t \in Tasks
               PROVE  /\ \A g, h \in RunBy(t) : g = h
                      /\ InHand(t) => RunBy(t) = {} /\ ~InRecoverQ(t)
                      /\ InRecoverQ(t) => RunBy(t) = {}
    BY DEF OneRunnerPerTask
  <2>1. OneHand(t)
    BY DEF OwnInv, Ownership, Owned
  <2>2. \A g : g \in RunBy(t) <=> g \in Goroutines /\ Runs(g, t)
    BY DEF RunBy, Live, Runs
  <2> QED
    BY <2>1, <2>2 DEF OneHand
<1> QED
  BY <1>1, OwnershipInvariant, PTL

\* A timer that is about to mark its task queued finds it still scheduled or gone,
\* and is the only one of its task.
THEOREM TimersAreSound == Spec => []TimersSound
<1>1. OwnInv => TimersSound
  <2> SUFFICES ASSUME OwnInv, NEW t \in Tasks, firing[t] > 0
               PROVE  firing[t] = 1 /\ rows[t].status \in {"scheduled", "absent"}
    BY DEF TimersSound
  <2>1. TimerFits(t) /\ armed[t] \in Nat /\ firing[t] \in Nat
    BY DEF OwnInv, SlotInv, TypeOK, SchedTypeOK, Ownership, Owned
  <2> QED
    BY <2>1 DEF TimerFits
<1> QED
  BY <1>1, OwnershipInvariant, PTL

==============================================================================
