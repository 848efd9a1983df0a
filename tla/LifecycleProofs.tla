---------------------------- MODULE LifecycleProofs ----------------------------
(***************************************************************************)
(* The service implements TaskLifecycle, for every set of tasks, containers*)
(* and goroutines and all bounds: an initial state maps to an initial      *)
(* state, and every step of the process, of its end and of its recovery    *)
(* maps to one step of the life of one task, or to none.                   *)
(*                                                                         *)
(* OwnershipProofs says who may write a row and in which states he finds   *)
(* it; here that becomes the status the abstract action asks for.          *)
(***************************************************************************)
EXTENDS OwnershipProofs

\* What an observer of the table sees of a step.
Implemented == [Lifecycle!LifeNext]_(Lifecycle!lifeVars)

HeldKept(t) == Held(t)' = Held(t)

\* Who has a task is told from the loop, the goroutines and the collector alone.
LEMMA SameHolders ==
  ASSUME UNCHANGED <<worker, recoverQ, gor, rescue>>, NEW t \in Tasks
  PROVE  HeldKept(t)
  BY DEF HeldKept, Held, InHand, InRecoverQ, RunBy, Live

\* A step that changes neither status nor result of a row, nor its holder.
LEMMA Unseen ==
  ASSUME \A u \in Tasks : SameRow(u) /\ HeldKept(u)
  PROVE  Implemented
<1>1. \A u \in Tasks : /\ rows'[u].status = rows[u].status /\ rows'[u].path = rows[u].path
                       /\ Held(u)' = Held(u)
  BY DEF SameRow, HeldKept
<1>2. UNCHANGED Lifecycle!lifeVars
  BY <1>1 DEF Lifecycle!lifeVars
<1> QED
  BY <1>2 DEF Implemented

\* The variables of TaskLifecycle, as the service has them.
Seen == [u \in Tasks |-> rows[u].status]
SeenPath == [u \in Tasks |-> rows[u].path]
SeenHeld == [u \in Tasks |-> Held(u)]

\* A task is held or not.
LEMMA HeldType == \A t \in Tasks : Held(t) \in BOOLEAN /\ SeenHeld[t] = Held(t)
  BY DEF Held, SeenHeld

\* The abstract state after a step that concerns t alone.
LEMMA SeenOf ==
  ASSUME NEW t \in Tasks, OthersKept(t), \A u \in Tasks \ {t} : HeldKept(u)
  PROVE  /\ Seen' = [Seen EXCEPT ![t] = rows'[t].status]
         /\ SeenPath' = [SeenPath EXCEPT ![t] = rows'[t].path]
         /\ SeenHeld' = [SeenHeld EXCEPT ![t] = Held(t)']
         /\ Seen[t] = rows[t].status /\ SeenPath[t] = rows[t].path
         /\ rows'[t].path = rows[t].path => SeenPath' = SeenPath
  BY DEF OthersKept, HeldKept, Seen, SeenPath, SeenHeld

\* A step of whoever has t: it goes on or lets go of it.
LEMMA MayLetGo ==
  ASSUME NEW t \in Tasks, OthersKept(t), \A u \in Tasks \ {t} : HeldKept(u), Held(t)
  PROVE  /\ SeenHeld' \in {SeenHeld, [SeenHeld EXCEPT ![t] = FALSE]}
         /\ SeenHeld[t]
<1>1. SeenHeld' = [SeenHeld EXCEPT ![t] = Held(t)'] /\ SeenHeld[t] = TRUE
  BY SeenOf, HeldType
<1>2. CASE Held(t)'
  BY <1>1, <1>2, HeldType DEF SeenHeld
<1>3. CASE ~Held(t)'
  <2>1. Held(t)' = FALSE
    BY <1>3
  <2> QED
    BY <1>1, <2>1
<1> QED
  BY <1>1, <1>2, <1>3

\* Both modules mean the same results.
LEMMA SameResults == \A t \in Tasks : Lifecycle!ResultsOf(t) = PathsOf(t)
  BY DEF Lifecycle!ResultsOf, PathsOf, Lifecycle!Paths, Lifecycle!Files, Paths, Files

\* Whoever has t does with its row what a holder may do with it.
LEMMA HolderStep ==
  ASSUME NEW t \in Tasks, Held(t), OthersKept(t), \A u \in Tasks \ {t} : HeldKept(u),
         \/ SameRow(t) \/ BecomesRunning(t) \/ BecomesCompleted(t) \/ BecomesFailed(t)
         \/ BecomesStopped(t) \/ BecomesQueued(t)
  PROVE  Implemented
<1> USE DEF Lifecycle!Becomes, Lifecycle!MayLetGo
<1>1. /\ Seen' = [Seen EXCEPT ![t] = rows'[t].status] /\ Seen[t] = rows[t].status
      /\ SeenPath' = [SeenPath EXCEPT ![t] = rows'[t].path]
      /\ rows'[t].path = rows[t].path => SeenPath' = SeenPath
      /\ SeenHeld' \in {SeenHeld, [SeenHeld EXCEPT ![t] = FALSE]} /\ SeenHeld[t]
  BY SeenOf, MayLetGo
<1>2. CASE SameRow(t)
  <2>1. CASE Held(t)'
    <3>1. HeldKept(t)
      BY <2>1, HeldType DEF HeldKept
    <3> QED
      BY <1>2, <3>1, Unseen DEF SameRow, OthersKept
  <2>2. CASE ~Held(t)'
    <3>1. Held(t)' = FALSE
      BY <2>2
    <3>2. Seen' = Seen /\ SeenPath' = SeenPath /\ SeenHeld' = [SeenHeld EXCEPT ![t] = FALSE]
      BY <1>2, <1>1, <3>1, SeenOf DEF SameRow, OthersKept, Seen
    <3>3. Lifecycle!Release(t)
      BY <1>1, <3>2 DEF Lifecycle!Release, Seen, SeenPath, SeenHeld
    <3> QED
      BY <3>3 DEF Implemented, Lifecycle!LifeNext, Lifecycle!LifeStep
  <2> QED
    BY <2>1, <2>2
<1>3. CASE BecomesRunning(t)
  <2>1. Lifecycle!Run(t)
    BY <1>1, <1>3 DEF BecomesRunning, Lifecycle!Run, Seen, SeenPath, SeenHeld
  <2> QED
    BY <2>1 DEF Implemented, Lifecycle!LifeNext, Lifecycle!LifeStep
<1>4. CASE BecomesCompleted(t)
  <2>1. Lifecycle!Complete(t)
    BY <1>1, <1>4, SameResults DEF BecomesCompleted, Lifecycle!Complete, Seen, SeenPath, SeenHeld
  <2> QED
    BY <2>1 DEF Implemented, Lifecycle!LifeNext, Lifecycle!LifeStep
<1>5. CASE BecomesFailed(t)
  <2>1. Lifecycle!Fail(t)
    BY <1>1, <1>5 DEF BecomesFailed, Lifecycle!Fail, Seen, SeenPath, SeenHeld
  <2> QED
    BY <2>1 DEF Implemented, Lifecycle!LifeNext, Lifecycle!LifeStep
<1>6. CASE BecomesStopped(t)
  <2>1. Lifecycle!Stop(t)
    BY <1>1, <1>6 DEF BecomesStopped, Lifecycle!Stop, Seen, SeenPath, SeenHeld
  <2> QED
    BY <2>1 DEF Implemented, Lifecycle!LifeNext, Lifecycle!LifeStep
<1>7. CASE BecomesQueued(t)
  <2>1. Lifecycle!Requeue(t)
    BY <1>1, <1>7 DEF BecomesQueued, Lifecycle!Requeue, Seen, SeenPath, SeenHeld
  <2> QED
    BY <2>1 DEF Implemented, Lifecycle!LifeNext, Lifecycle!LifeStep
<1> QED
  BY <1>2, <1>3, <1>4, <1>5, <1>6, <1>7

-----------------------------------------------------------------------------
(* The worker *)

\* A goroutine at work holds its task.
LEMMA RunnerHolds ==
  ASSUME NEW t \in Tasks, NEW g \in Goroutines, Runs(g, t)
  PROVE  Held(t)
  BY DEF Runs, Held, RunBy, Live

\* A call of a goroutine concerns its own task.
LEMMA StepImplemented ==
  ASSUME OwnInv, NEW g \in Goroutines, Step(g), WorkerFrame
  PROVE  Implemented
<1> PICK t \in Tasks : t = gor[g].task
  BY StepMoves
<1>1. /\ gor[g].pc # "idle" /\ UNCHANGED <<worker, recoverQ, rescue>>
      /\ RowMoves(t) /\ GorMoves(g)
  BY StepMoves DEF WorkerFrame, gcVars
<1>2. Held(t)
  BY <1>1, RunnerHolds DEF Runs
<1>3. ASSUME NEW u \in Tasks \ {t} PROVE HeldKept(u)
  <2>1. RunBy(u)' = RunBy(u)
    BY <1>1 DEF RunBy, Live, GorMoves
  <2>2. (InHand(u)' <=> InHand(u)) /\ (InRecoverQ(u)' <=> InRecoverQ(u))
    BY <1>1 DEF InHand, InRecoverQ
  <2> QED
    BY <1>1, <2>1, <2>2 DEF HeldKept, Held
<1> QED
  BY <1>1, <1>2, <1>3, HolderStep DEF RowMoves

\* The loop passes a task on without letting go of it.
LEMMA PassedOn ==
  ASSUME NEW t \in Tasks, NEW g \in Goroutines, UNCHANGED <<rows, rescue>>,
         gor[g].pc = "idle", Held(t), Runs(g, t)',
         \A h \in Goroutines \ {g} : gor'[h] = gor[h],
         \A u \in Tasks \ {t} : InHand(u)' = InHand(u) /\ InRecoverQ(u)' = InRecoverQ(u)
  PROVE  Implemented
<1>1. Held(t)'
  BY DEF Runs, Held, RunBy, Live
<1>2. HeldKept(t)
  BY <1>1, HeldType DEF HeldKept
<1>3. ASSUME NEW u \in Tasks \ {t} PROVE HeldKept(u)
  <2>1. RunBy(u)' = RunBy(u)
    BY DEF RunBy, Live, Runs
  <2> QED
    BY <2>1 DEF HeldKept, Held
<1> QED
  BY <1>2, <1>3, Unseen DEF SameRow

\* The loop takes, keeps, completes or passes on a task.
LEMMA LoopImplemented ==
  ASSUME OwnInv, LoopNext, WorkerFrame
  PROVE  Implemented
<1>1. /\ UNCHANGED rescue /\ rows \in Tables /\ gor \in [Goroutines -> Goroutine]
      /\ worker \in [pc : LoopPCs, task : Tasks \cup {NoTask},
                     path : Paths \cup {NoPath}, filled : Nat]
      /\ recoverQ \in Seq([task : Tasks, cid : Conts])
  BY DEF WorkerFrame, gcVars, OwnInv, SlotInv, TypeOK, PlatformTypeOK, WorkerTypeOK, Tables
<1>2. ASSUME UNCHANGED <<recoverQ, gor>>, NEW u \in Tasks, InHand(u)' = InHand(u)
      PROVE  HeldKept(u)
  BY <1>1, <1>2 DEF HeldKept, Held, InRecoverQ, RunBy, Live
<1>3. ASSUME UNCHANGED <<rows, recoverQ, gor>>, \A u \in Tasks : InHand(u)' = InHand(u)
      PROVE  Implemented
  BY <1>2, <1>3, Unseen DEF SameRow
<1>4. CASE Tick \/ NoSlot \/ TakeSlot \/ Drain
  <2>1. /\ UNCHANGED <<rows, recoverQ, gor>> /\ worker.pc \notin {"lookup", "cached"}
        /\ worker'.pc \notin {"lookup", "cached"}
    BY <1>4 DEF Tick, NoSlot, TakeSlot, Drain, platformVars, To, LoopStart
  <2> QED
    BY <1>3, <2>1 DEF InHand
<1>5. CASE FillSlot \/ Drained
  <2>1. UNCHANGED <<rows, recoverQ, gor>> /\ worker.pc = "drain"
    BY <1>5 DEF FillSlot, Drained, platformVars
  <2>2. worker'.pc \in {"drain", "stopped"}
    BY <1>1, <1>5, <2>1 DEF FillSlot, Drained
  <2> QED
    BY <1>3, <2>1, <2>2 DEF InHand
<1>6. CASE LookupHit
  <2>1. UNCHANGED <<rows, recoverQ, gor>> /\ worker.pc = "lookup"
    BY <1>6 DEF LookupHit
  <2>2. worker'.pc = "cached" /\ worker'.task = worker.task
    BY <1>1, <1>6 DEF LookupHit
  <2> QED
    BY <1>3, <2>1, <2>2 DEF InHand
<1>7. CASE MarkCached
  <2> PICK t \in Tasks : t = worker.task
    BY <1>7 DEF OwnInv, SlotInv, Handles, LoopHands, MarkCached
  <2>1. RowMoves(t) /\ InHand(t)
    BY <1>7, MarkCachedKeepsOwned
  <2>2. UNCHANGED <<recoverQ, gor>> /\ worker'.pc = "tick"
    BY <1>7 DEF MarkCached, Return, To, LoopStart
  <2>3. \A u \in Tasks \ {t} : InHand(u)' = InHand(u)
    BY <2>2 DEF InHand
  <2>4. \A u \in Tasks \ {t} : HeldKept(u)
    BY <1>2, <2>2, <2>3
  <2> QED
    BY <2>1, <2>4, HolderStep DEF RowMoves, Held
<1>8. CASE Claim
  <2>1. worker.pc = "claim" /\ Up /\ UNCHANGED <<recoverQ, gor>>
    BY <1>8 DEF Claim
  <2>2. CASE UNCHANGED rows /\ Return
    <3>1. worker'.pc = "tick"
      BY <2>2 DEF Return, To, LoopStart
    <3> QED
      BY <1>3, <2>1, <2>2, <3>1 DEF InHand
  <2>3. ASSUME NEW t \in NextQueued(rows, clock), rows' = Claimed(rows, t),
               worker' = [To("lookup") EXCEPT !.task = t] \/ Return
        PROVE  Implemented
    <3>1. t \in Tasks /\ rows[t].status = "queued"
      BY <2>3, NextQueuedIsQueued
    <3>2. /\ OthersKept(t) /\ rows'[t].status = "running" /\ rows'[t].path = rows[t].path
      BY <1>1, <2>3, <3>1, StatusMark DEF Claimed, OthersKept
    <3>3. worker'.pc \in {"lookup", "tick"} /\ (worker'.pc = "lookup" => worker'.task = t)
      BY <2>3 DEF To, LoopStart, Return
    <3>4. ~Held(t)
      <4>1. Owned(t)
        BY <3>1 DEF OwnInv, Ownership
      <4>2. ~InHands(t) /\ rescue[t].pc = "idle"
        BY <2>1, <3>1, <4>1 DEF Owned, RowFits, RescueFits, InHands, Over, Open, Up
      <4> QED
        BY <4>2 DEF Held, InHands, RunBy, Live, Runs
    <3>5. ASSUME NEW u \in Tasks \ {t} PROVE HeldKept(u)
      <4>1. InHand(u)' = InHand(u)
        BY <2>1, <3>3 DEF InHand
      <4> QED
        BY <1>2, <2>1, <4>1
    <3>6. /\ Seen' = [Seen EXCEPT ![t] = "running"] /\ Seen[t] = "queued"
          /\ SeenPath' = SeenPath /\ ~SeenHeld[t]
          /\ SeenHeld' \in {SeenHeld, [SeenHeld EXCEPT ![t] = TRUE]}
      <4>1. SeenHeld' = [SeenHeld EXCEPT ![t] = Held(t)'] /\ SeenHeld[t] = FALSE
        BY <3>1, <3>2, <3>4, <3>5, SeenOf, HeldType
      <4>2. Held(t)' \in BOOLEAN
        BY DEF Held
      <4>3. SeenHeld' \in {SeenHeld, [SeenHeld EXCEPT ![t] = TRUE]}
        BY <3>1, <4>1, <4>2 DEF SeenHeld
      <4> QED
        BY <3>1, <3>2, <3>5, <4>1, <4>3, SeenOf
    <3>7. Lifecycle!Claim(t)
      BY <3>6 DEF Lifecycle!Claim, Lifecycle!Becomes, Seen, SeenPath, SeenHeld
    <3> QED
      BY <3>1, <3>7 DEF Implemented, Lifecycle!LifeNext, Lifecycle!LifeStep
  <2> QED
    BY <1>8, <2>2, <2>3 DEF Claim
<1>9. ASSUME NEW g \in Goroutines, StartTask(g) PROVE Implemented
  <2> PICK t \in Tasks : t = worker.task
    BY <1>9 DEF OwnInv, SlotInv, Handles, LoopHands, StartTask
  <2>1. /\ worker.pc = "lookup" /\ worker' = To("loop") /\ gor[g].pc = "idle"
        /\ UNCHANGED <<rows, recoverQ>> /\ gor' = Spawned(g, "claimed", t, NoCont, "check")
    BY <1>9 DEF StartTask
  <2>2. /\ \A h \in Goroutines \ {g} : gor'[h] = gor[h]
        /\ gor'[g].pc = "check" /\ gor'[g].task = t /\ worker'.pc = "loop"
    BY <1>1, <2>1 DEF Spawned, To, LoopStart
  <2>3. /\ InHand(t) /\ Runs(g, t)'
        /\ \A u \in Tasks \ {t} : InHand(u)' = InHand(u) /\ InRecoverQ(u)' = InRecoverQ(u)
    BY <2>1, <2>2 DEF InHand, Runs, InRecoverQ
  <2> QED
    BY <1>1, <2>1, <2>2, <2>3, PassedOn DEF Held
<1>10. ASSUME NEW g \in Goroutines, TakeRecovered(g) PROVE Implemented
  <2>1. /\ recoverQ # <<>> /\ recoverQ' = Tail(recoverQ) /\ \A u \in Tasks : OnceQueued(u)
        /\ worker.pc = "loop" /\ worker' = To("tick") /\ gor[g].pc = "idle" /\ UNCHANGED rows
    BY <1>10 DEF TakeRecovered, platformVars, OwnInv, Ownership, Owned, OneHand
  <2> PICK t \in Tasks : t = Head(recoverQ).task
    BY <1>1, <2>1, HeadTaken
  <2>2. /\ \A h \in Goroutines \ {g} : gor'[h] = gor[h]
        /\ gor'[g].pc = "wait" /\ gor'[g].task = t /\ worker'.pc = "tick"
    BY <1>1, <1>10, <2>1 DEF TakeRecovered, Spawned, To, LoopStart
  <2>3. /\ InRecoverQ(t) /\ \A u \in Tasks \ {t} : InRecoverQ(u)' <=> InRecoverQ(u)
    BY <1>1, <2>1, HeadTaken
  <2>4. Runs(g, t)'
    BY <2>2 DEF Runs
  <2>5. \A u \in Tasks \ {t} : InHand(u)' = InHand(u) /\ InRecoverQ(u)' = InRecoverQ(u)
    BY <2>1, <2>2, <2>3 DEF InHand, InRecoverQ
  <2> QED
    BY <1>1, <2>1, <2>2, <2>3, <2>4, <2>5, PassedOn DEF Held
<1> QED
  BY <1>4, <1>5, <1>6, <1>7, <1>8, <1>9, <1>10 DEF LoopNext

\* A timeout is noted.
LEMMA ExpireImplemented ==
  ASSUME OwnInv, NEW g \in Goroutines, Expire(g), WorkerFrame
  PROVE  Implemented
<1>1. /\ UNCHANGED <<rows, worker, recoverQ, rescue>> /\ gor[g].pc # "idle"
      /\ gor' = [gor EXCEPT ![g].expired = TRUE] /\ gor \in [Goroutines -> Goroutine]
  BY DEF Expire, WorkerFrame, gcVars, platformVars, ContextPCs, OwnInv, SlotInv, TypeOK,
         WorkerTypeOK
<1>2. \A h \in Goroutines : gor'[h].pc = gor[h].pc /\ gor'[h].task = gor[h].task
  BY <1>1 DEF Goroutine
<1>3. ASSUME NEW u \in Tasks PROVE HeldKept(u)
  <2>1. RunBy(u)' = RunBy(u)
    BY <1>2 DEF RunBy, Live
  <2> QED
    BY <1>1, <2>1 DEF HeldKept, Held, InHand, InRecoverQ
<1> QED
  BY <1>1, <1>3, Unseen DEF SameRow

-----------------------------------------------------------------------------
(* The collector *)

\* A goroutine of cleanupTask holds its task until it hands it over or is done.
LEMMA CleanupImplemented ==
  ASSUME OwnInv, NEW t \in Tasks, RescueStep(t)
  PROVE  Implemented
<1>1. /\ UNCHANGED <<worker, gor>> /\ rescue[t].pc # "idle" /\ RescueGoesOn(t)
  BY CleanupMoves
<1>2. ~InRecoverQ(t)
  BY <1>1 DEF OwnInv, Ownership, Owned, RescueFits, InHands
<1>3. \A u \in Tasks \ {t} : InRecoverQ(u)' <=> InRecoverQ(u)
  <2>1. CASE UNCHANGED recoverQ
    BY <2>1 DEF InRecoverQ
  <2>2. CASE recoverQ' = Append(recoverQ, [task |-> t, cid |-> rescue[t].cid])
    <3>1. recoverQ \in Seq([task : Tasks, cid : Conts]) /\ rescue[t].cid \in Conts
      BY <1>1 DEF OwnInv, SlotInv, TypeOK, WorkerTypeOK, Handles, RescuesOK
    <3> QED
      BY <1>2, <2>2, <3>1, HandedOver
  <2> QED
    BY <1>1, <2>1, <2>2 DEF RescueGoesOn
<1>4. ASSUME NEW u \in Tasks \ {t} PROVE HeldKept(u)
  <2>1. rescue'[u] = rescue[u] /\ InHand(u)' = InHand(u) /\ RunBy(u)' = RunBy(u)
    BY <1>1 DEF RescueGoesOn, InHand, RunBy, Live
  <2> QED
    BY <1>3, <2>1 DEF HeldKept, Held
<1>5. Held(t) /\ OthersKept(t)
  BY <1>1 DEF Held, RescueGoesOn
<1> QED
  BY <1>1, <1>4, <1>5, HolderStep DEF RescueGoesOn

\* A new process takes charge of the running tasks that have a container; the other
\* steps of the caller are not seen.
LEMMA SweepImplemented ==
  ASSUME OwnInv,
         \/ ListRunning \/ ListConts \/ ListActive \/ Swept \/ GcOver
         \/ \E c \in Conts : SweepOne(c)
  PROVE  Implemented
<1>1. UNCHANGED <<rows, worker, recoverQ, gor>> /\ phase = "gc"
  BY DEF ListRunning, ListConts, ListActive, Swept, GcOver, SweepOne, Collecting,
         workerVars, platformVars
<1>2. CASE UNCHANGED rescue
  BY <1>1, <1>2, SameHolders, Unseen DEF SameRow
<1>3. CASE ListRunning /\ ~UNCHANGED rescue
  <2> DEFINE ts == RunningWithContainer(rows)
  <2>1. /\ sweep.pc = "tasks"
        /\ rescue' = [t \in Tasks |-> IF t \in ts
                        THEN [NoRescue EXCEPT !.pc = "exists", !.cid = rows[t].cid]
                        ELSE NoRescue]
    BY <1>3 DEF ListRunning
  <2>2. NobodyWorks
    BY <1>1, <2>1 DEF OwnInv, Ownership, PhaseFits
  <2>3. \A u \in Tasks : /\ ~InHand(u) /\ ~InHand(u)' /\ ~InRecoverQ(u) /\ ~InRecoverQ(u)'
                         /\ RunBy(u) = {} /\ RunBy(u)' = {} /\ rescue[u].pc = "idle"
    BY <1>1, <2>2 DEF NobodyWorks, InHand, InRecoverQ, RunBy, Live
  <2>4. \A u \in Tasks : (rescue'[u].pc # "idle") <=> u \in ts
    BY <2>1 DEF NoRescue
  <2>5. \A u \in Tasks : Held(u) = FALSE /\ Held(u)' = (u \in ts)
    BY <2>3, <2>4 DEF Held
  <2>6. /\ SeenHeld' = [t \in Tasks |-> SeenHeld[t] \/ t \in ts]
        /\ Seen' = Seen /\ SeenPath' = SeenPath
    BY <1>1, <2>5 DEF Seen, SeenPath, SeenHeld
  <2>7. ts \in SUBSET {t \in Tasks : Seen[t] = "running"}
    BY DEF Seen, RunningWithContainer
  <2> HIDE DEF ts
  <2>8. Lifecycle!Recover
    BY <2>6, <2>7 DEF Lifecycle!Recover, Seen, SeenPath, SeenHeld
  <2> QED
    BY <2>8 DEF Implemented, Lifecycle!LifeNext
<1>4. UNCHANGED rescue \/ ListRunning
  BY DEF ListRunning, ListConts, ListActive, Swept, GcOver, SweepOne
<1> QED
  BY <1>2, <1>3, <1>4

-----------------------------------------------------------------------------
(* The handlers *)

\* A handler that writes the row of t, if any, leaves the task with whoever has it.
LEMMA SeenWrite ==
  ASSUME NEW t \in Tasks, OthersKept(t), \A u \in Tasks : HeldKept(u)
  PROVE  /\ Seen' = [Seen EXCEPT ![t] = rows'[t].status]
         /\ SeenPath' = [SeenPath EXCEPT ![t] = rows'[t].path]
         /\ SeenHeld' = SeenHeld
         /\ Seen[t] = rows[t].status /\ SeenPath[t] = rows[t].path
         /\ rows'[t].path = rows[t].path => SeenPath' = SeenPath
  BY SeenOf DEF HeldKept, SeenHeld

\* The INSERT is seen as the request, heard of or not (task.go:146).
LEMMA InsertImplemented ==
  ASSUME OwnInv, ApiFrame, NEW t \in Tasks, InsertRow(t)
  PROVE  Implemented
<1>1. /\ UNCHANGED <<worker, recoverQ, gor, rescue>> /\ Owned(t) /\ Up
      /\ run[t].pc = "insert" /\ run[t].path \in PathsOf(t) \cup {NoPath} /\ rows \in Tables
  BY DEF InsertRow, RunAt, OwnInv, Ownership, PathsFit, SlotInv, TypeOK, PlatformTypeOK,
         Tables, ApiFrame, workerVars, gcVars
<1>2. \A u \in Tasks : HeldKept(u)
  BY <1>1, SameHolders
<1>3. CASE UNCHANGED rows
  BY <1>2, <1>3, Unseen DEF SameRow
<1>4. CASE Inserted(t)
  <2>1. ~InHands(t) /\ rows[t] = NoRow /\ rescue[t].pc = "idle"
    BY <1>1 DEF Owned, RowFits, RescueFits, Pending, Up
  <2>2. Held(t) = FALSE
    BY <2>1 DEF Held, InHands, RunBy, Live, Runs
  <2>3. /\ OthersKept(t) /\ rows'[t].status = FirstStatus(t) /\ rows'[t].path = run[t].path
    BY <1>1, <1>4 DEF Inserted, Insert, OthersKept, Tables, Rows
  <2>4. /\ Seen' = [Seen EXCEPT ![t] = FirstStatus(t)] /\ Seen[t] = "absent"
        /\ SeenPath' = [SeenPath EXCEPT ![t] = run[t].path] /\ SeenPath[t] = NoPath
        /\ SeenHeld' = SeenHeld /\ ~SeenHeld[t]
        /\ run[t].path = NoPath => SeenPath' = SeenPath
    BY <1>2, <2>1, <2>2, <2>3, SeenWrite, HeldType DEF NoRow
  <2>5. \/ run[t].path = NoPath /\ FirstStatus(t) \in {"queued", "scheduled"}
        \/ run[t].path \in Lifecycle!ResultsOf(t) /\ FirstStatus(t) = "completed"
    BY <1>1, SameResults DEF FirstStatus
  <2>6. Lifecycle!Submit(t)
    BY <2>4, <2>5 DEF Lifecycle!Submit, Lifecycle!Becomes, Seen, SeenPath, SeenHeld
  <2> QED
    BY <2>6 DEF Implemented, Lifecycle!LifeNext, Lifecycle!LifeStep
<1> QED
  BY <1>3, <1>4 DEF InsertRow

\* The mark "stopped" of a handler (task.go:178).
LEMMA StopMarkImplemented ==
  ASSUME OwnInv, ApiFrame, NEW t \in Tasks, StopMark(t)
  PROVE  Implemented
<1>1. /\ OthersKept(t) /\ (SameRow(t) \/ BecomesStopped(t))
      /\ UNCHANGED <<worker, recoverQ, gor, rescue>>
  BY StopMarkKeepsOwned DEF ApiFrame, workerVars, gcVars
<1>2. \A u \in Tasks : HeldKept(u)
  BY <1>1, SameHolders
<1>3. CASE SameRow(t)
  BY <1>1, <1>2, <1>3, Unseen DEF SameRow, OthersKept
<1>4. CASE BecomesStopped(t)
  <2>1. /\ Seen' = [Seen EXCEPT ![t] = "stopped"] /\ Seen[t] # "absent"
        /\ SeenPath' = SeenPath /\ SeenHeld' = SeenHeld
    BY <1>1, <1>2, <1>4, SeenWrite DEF BecomesStopped
  <2>2. Lifecycle!Stop(t)
    BY <2>1 DEF Lifecycle!Stop, Lifecycle!Becomes, Lifecycle!MayLetGo, Seen, SeenPath, SeenHeld
  <2> QED
    BY <2>2 DEF Implemented, Lifecycle!LifeNext, Lifecycle!LifeStep
<1> QED
  BY <1>1, <1>3, <1>4

\* The last call of DeleteTask (query.sql.go:117).
LEMMA DeleteImplemented ==
  ASSUME OwnInv, ApiFrame, NEW t \in Tasks, DeleteRow(t)
  PROVE  Implemented
<1>1. /\ rows' = rows \/ (OthersKept(t) /\ rows'[t] = NoRow)
      /\ UNCHANGED <<worker, recoverQ, gor, rescue>> /\ Owned(t)
  BY DeleteRowKeepsOwned DEF ApiFrame, workerVars, gcVars, OwnInv, Ownership
<1>2. \A u \in Tasks : HeldKept(u)
  BY <1>1, SameHolders
<1>3. CASE rows' = rows
  BY <1>2, <1>3, Unseen DEF SameRow
<1>4. CASE OthersKept(t) /\ rows'[t] = NoRow
  <2>1. CASE rows[t].status = "absent"
    <3>1. rows[t] = NoRow
      BY <1>1, <2>1 DEF Owned, RowFits
    <3> QED
      BY <1>2, <1>4, <3>1, Unseen DEF SameRow, OthersKept
  <2>2. CASE rows[t].status # "absent"
    <3>1. /\ Seen' = [Seen EXCEPT ![t] = "absent"] /\ Seen[t] # "absent"
          /\ SeenPath' = [SeenPath EXCEPT ![t] = NoPath] /\ SeenHeld' = SeenHeld
      BY <1>2, <1>4, <2>2, SeenWrite DEF NoRow
    <3>2. Lifecycle!Delete(t)
      BY <3>1 DEF Lifecycle!Delete, Lifecycle!Becomes, Seen, SeenPath, SeenHeld
    <3> QED
      BY <3>2 DEF Implemented, Lifecycle!LifeNext, Lifecycle!LifeStep
  <2> QED
    BY <2>1, <2>2
<1> QED
  BY <1>1, <1>3, <1>4

\* The other calls of the handlers are not seen.
LEMMA ApiImplemented ==
  ASSUME OwnInv, ApiPart
  PROVE  Implemented
<1>1. PICK t \in Tasks : RunStep(t) \/ StopStep(t) \/ DeleteStep(t)
                         \/ StopRequest(t) \/ DeleteRequest(t)
  BY DEF ApiPart, ApiNext
<1>2. ApiFrame /\ UNCHANGED <<worker, recoverQ, gor, rescue>>
  BY DEF ApiPart, ApiFrame, workerVars, gcVars
<1>3. CASE UNCHANGED rows
  BY <1>2, <1>3, SameHolders, Unseen DEF SameRow
<1>4. InsertRow(t) \/ StopMark(t) \/ DeleteRow(t) \/ UNCHANGED rows
  BY <1>1 DEF RunStep, StopStep, DeleteStep, SaveInput, FindImage, FindCached, RunCleanup,
              StopRead, StopCont, DeleteRead, DeleteArtifacts, DeleteWorkspace, StopRequest,
              DeleteRequest, platformVars
<1> QED
  BY <1>2, <1>3, <1>4, InsertImplemented, StopMarkImplemented, DeleteImplemented

-----------------------------------------------------------------------------
(* Timers, programs and the process *)

\* A timer that marks its task queued wakes it (task.go:225).
LEMMA SchedImplemented ==
  ASSUME OwnInv, SchedPart
  PROVE  Implemented
<1>1. UNCHANGED <<worker, recoverQ, gor, rescue>> /\ rows \in Tables
  BY DEF SchedPart, SchedFrame, workerVars, gcVars, OwnInv, SlotInv, TypeOK, PlatformTypeOK,
         Tables
<1>2. \A u \in Tasks : HeldKept(u)
  BY <1>1, SameHolders
<1>3. CASE UNCHANGED rows
  BY <1>2, <1>3, Unseen DEF SameRow
<1>4. ASSUME NEW t \in Tasks, Enqueue(t), ~UNCHANGED rows PROVE Implemented
  <2>1. firing[t] > 0 /\ rows' = SetStatus(rows, t, "queued")
    BY <1>4 DEF Enqueue, MarkQueued
  <2>2. rows[t].status \in {"scheduled", "absent"}
    BY <2>1 DEF OwnInv, Ownership, Owned, TimerFits
  <2>3. /\ rows[t].status = "scheduled" /\ OthersKept(t)
        /\ rows'[t].status = "queued" /\ rows'[t].path = rows[t].path
    BY <1>1, <1>4, <2>1, <2>2, StatusMark DEF OthersKept
  <2>4. /\ Seen' = [Seen EXCEPT ![t] = "queued"] /\ Seen[t] = "scheduled"
        /\ SeenPath' = SeenPath /\ SeenHeld' = SeenHeld
    BY <1>2, <2>3, SeenWrite
  <2>5. Lifecycle!Wake(t)
    BY <2>4 DEF Lifecycle!Wake, Lifecycle!Becomes, Seen, SeenPath, SeenHeld
  <2> QED
    BY <2>5 DEF Implemented, Lifecycle!LifeNext, Lifecycle!LifeStep
<1>5. UNCHANGED rows \/ \E t \in Tasks : Enqueue(t)
  BY DEF SchedPart, SchedNext, ReadUpcoming, Register, Fire, platformVars
<1> QED
  BY <1>3, <1>4, <1>5

\* With the process everybody who has a task is gone.
LEMMA ProcessImplemented ==
  ASSUME Process
  PROVE  Implemented
<1>1. CASE ProcessEnds
  <2>1. /\ worker' = LoopStart /\ recoverQ' = <<>> /\ gor' = [g \in Goroutines |-> Idle]
        /\ rescue' = [t \in Tasks |-> NoRescue] /\ UNCHANGED rows
    BY <1>1 DEF ProcessEnds, WorkerReset, GcReset
  <2>2. ASSUME NEW u \in Tasks PROVE Held(u)' = FALSE
    <3>1. ~InHand(u)' /\ ~InRecoverQ(u)' /\ RunBy(u)' = {} /\ rescue'[u].pc = "idle"
      BY <2>1 DEF LoopStart, Idle, NoRescue, InHand, InRecoverQ, RunBy, Live
    <3> QED
      BY <3>1 DEF Held
  <2>3. Seen' = Seen /\ SeenPath' = SeenPath /\ SeenHeld' = [t \in Tasks |-> FALSE]
    BY <2>1, <2>2 DEF Seen, SeenPath, SeenHeld
  <2>4. Lifecycle!ProcessLost
    BY <2>3 DEF Lifecycle!ProcessLost, Seen, SeenPath, SeenHeld
  <2> QED
    BY <2>4 DEF Implemented, Lifecycle!LifeNext
<1>2. CASE Boot \/ Terminate
  <2>1. UNCHANGED <<rows, worker, recoverQ, gor, rescue>>
    BY <1>2 DEF Boot, Terminate, workerVars, gcVars
  <2> QED
    BY <2>1, SameHolders, Unseen DEF SameRow
<1> QED
  BY <1>1, <1>2 DEF Process, Crash, Abort, Exit, ExitEarly

-----------------------------------------------------------------------------
(* The refinement *)

\* Nothing is in the table, and nobody has anything.
LEMMA InitImplemented == Init => Lifecycle!LifeInit
<1> SUFFICES ASSUME Init PROVE Lifecycle!LifeInit
  OBVIOUS
<1>1. /\ rows = [t \in Tasks |-> NoRow] /\ worker = LoopStart /\ recoverQ = <<>>
      /\ gor = [g \in Goroutines |-> Idle] /\ rescue = [t \in Tasks |-> NoRescue]
  BY DEF Init, PlatformInit, WorkerInit, GcInit
<1>2. ASSUME NEW u \in Tasks PROVE Held(u) = FALSE
  <2>1. ~InHand(u) /\ ~InRecoverQ(u) /\ RunBy(u) = {} /\ rescue[u].pc = "idle"
    BY <1>1 DEF LoopStart, Idle, NoRescue, InHand, InRecoverQ, RunBy, Live
  <2> QED
    BY <2>1 DEF Held
<1> QED
  BY <1>1, <1>2 DEF Lifecycle!LifeInit, NoRow

\* Every step maps to a step of TaskLifecycle or to none.
LEMMA NextImplemented == OwnInv /\ [Next]_vars => Implemented
<1> SUFFICES ASSUME OwnInv, [Next]_vars PROVE Implemented
  OBVIOUS
<1>1. CASE WorkerPart
  BY <1>1, LoopImplemented, StepImplemented, ExpireImplemented DEF WorkerPart, WorkerNext
<1>2. CASE GcPart
  BY <1>2, CleanupImplemented, SweepImplemented DEF GcPart, GcNext
<1>3. CASE EnvPart
  <2>1. UNCHANGED <<rows, worker, recoverQ, gor, rescue>>
    BY <1>3 DEF EnvPart, Environment, ClockTick, ContainerExit, EnvFrame, workerVars, gcVars
  <2> QED
    BY <2>1, SameHolders, Unseen DEF SameRow
<1>4. CASE UNCHANGED vars
  <2>1. UNCHANGED <<rows, worker, recoverQ, gor, rescue>>
    BY <1>4 DEF vars, platformVars, workerVars, gcVars
  <2> QED
    BY <2>1, SameHolders, Unseen DEF SameRow
<1> QED
  BY <1>1, <1>2, <1>3, <1>4, ApiImplemented, SchedImplemented, ProcessImplemented DEF Next

\* The service implements TaskLifecycle: whatever the loop, the goroutines, the
\* handlers, the timers and the collector write in whatever order, over failing
\* calls and ends of the process, a row takes only the steps described there.
THEOREM LifecycleImplemented == Spec => LifecycleRefined
<1> QED
  BY InitImplemented, NextImplemented, OwnershipInvariant, PTL
     DEF Spec, LifecycleRefined, Lifecycle!LifeSpec, Implemented

==============================================================================
