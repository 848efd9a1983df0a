--------------------------- MODULE PinnConnectProofs ---------------------------
(***************************************************************************)
(* Theorems about PinnConnect, for every set of tasks, containers and      *)
(* goroutines, every number of slots and all bounds: type correctness, the *)
(* accounting of the semaphore's slots, and the drain at shutdown.         *)
(*                                                                         *)
(* The three are proved from one inductive invariant.  Types need to know  *)
(* that the task and the container in somebody's hands are real ones       *)
(* (Handles), and that a slot which is given back was taken, which is what *)
(* SlotAccounting says; SlotAccounting needs the goroutines of recovered   *)
(* tasks to stay away from the deferred calls and the loop to fill slots   *)
(* only at the end.                                                        *)
(***************************************************************************)
EXTENDS PinnConnect, FiniteSetTheorems, SequenceTheorems, TLAPS

-----------------------------------------------------------------------------
(* What the statements of TaskStore do to any table: each of them yields a   *)
(* table again, and a read yields tasks and paths of the table.              *)

Tables == [Tasks -> Rows]

\* The row of a new task (CreateTask of query.sql.go).
LEMMA InsertTable ==
  ASSUME NEW tb \in Tables, NEW t \in Tasks, NEW status \in Statuses,
         NEW path \in Paths \cup {NoPath}, NEW now \in Nat
  PROVE  Insert(tb, t, status, path, now) \in Tables
  BY DEF Tables, Insert, Rows

\* The marks that only write the status (query.sql.go:219, :606, :730).
LEMMA SetStatusTable ==
  ASSUME NEW tb \in Tables, NEW t \in Tasks, NEW status \in Statuses
  PROVE  SetStatus(tb, t, status) \in Tables
  BY DEF Tables, SetStatus, Rows

\* The claim and the marks that only write the status.
LEMMA MarksTable ==
  ASSUME NEW tb \in Tables, NEW t \in Tasks
  PROVE  /\ Claimed(tb, t) \in Tables
         /\ MarkQueued(tb, t) \in Tables
         /\ MarkStopped(tb, t) \in Tables
         /\ MarkFailed(tb, t) \in Tables
  BY SetStatusTable DEF Claimed, MarkQueued, MarkStopped, MarkFailed, Statuses

\* The mark that also writes the container id (query.sql.go:643).
LEMMA MarkRunningTable ==
  ASSUME NEW tb \in Tables, NEW t \in Tasks, NEW c \in Conts \cup {NoCont}
  PROVE  MarkRunning(tb, t, c) \in Tables
  <1>1. [tb[t] EXCEPT !.status = "running", !.cid = c] \in Rows
    BY DEF Tables, Rows, Statuses
  <1>2. [tb EXCEPT ![t].status = "running", ![t].cid = c]
          = [tb EXCEPT ![t] = [tb[t] EXCEPT !.status = "running", !.cid = c]]
    BY DEF Tables
  <1> QED
    BY <1>1, <1>2 DEF Tables, MarkRunning

\* The mark that also writes the path of the result (query.sql.go:481).
LEMMA MarkCompletedTable ==
  ASSUME NEW tb \in Tables, NEW t \in Tasks, NEW path \in Paths \cup {NoPath}
  PROVE  MarkCompleted(tb, t, path) \in Tables
  <1>1. [tb[t] EXCEPT !.status = "completed", !.path = path] \in Rows
    BY DEF Tables, Rows, Statuses
  <1>2. [tb EXCEPT ![t].status = "completed", ![t].path = path]
          = [tb EXCEPT ![t] = [tb[t] EXCEPT !.status = "completed", !.path = path]]
    BY DEF Tables
  <1> QED
    BY <1>1, <1>2 DEF Tables, MarkCompleted

\* DeleteTask of query.sql.go.
LEMMA DeletedTable ==
  ASSUME NEW tb \in Tables, NEW t \in Tasks
  PROVE  Deleted(tb, t) \in Tables
  BY DEF Tables, Deleted, Rows, NoRow

\* FindCachedTask returns the path of some row, or none.
LEMMA CachedPathsInTable ==
  ASSUME NEW tb \in Tables, NEW sig
  PROVE  CachedPaths(tb, sig) \subseteq Paths \cup {NoPath}
  <1>1. CacheHits(tb, sig) \subseteq Tasks
    BY DEF CacheHits
  <1>2. \A t \in Tasks : tb[t].path \in Paths \cup {NoPath}
    BY DEF Tables, Rows
  <1> QED
    BY <1>1, <1>2 DEF CachedPaths

\* GetNextQueuedTask returns a queued task.
LEMMA NextQueuedIsQueued ==
  ASSUME NEW tb, NEW now, NEW t \in NextQueued(tb, now)
  PROVE  t \in Tasks /\ tb[t].status = "queued"
  BY DEF NextQueued, Queued

-----------------------------------------------------------------------------
(* The invariant *)

\* Where the goroutine of a recovered task can be: waitAndSaveTask.
RecoveredPCs == {"wait", "stopc", "marks", "recheck", "upload", "complete"}

\* What the goroutines hold is real.
GoroutinesOK ==
  \A g \in Goroutines :
    /\ gor[g].pc # "idle" => gor[g].task \in Tasks
    /\ gor[g].kind = "recovered" => gor[g].pc \in RecoveredPCs

LoopHands ==
  /\ worker.pc \in {"lookup", "cached"} => worker.task \in Tasks
  /\ worker.pc \notin {"drain", "stopped"} => worker.filled = 0
  /\ worker.pc = "stopped" => worker.filled = MaxWorkers

RescuesOK == \A t \in Tasks : rescue[t].pc # "idle" => rescue[t].cid \in Conts

\* What the loop, the goroutines and the collector hold is real.
Handles == LoopHands /\ GoroutinesOK /\ RescuesOK

\* The inductive invariant.
SlotInv == TypeOK /\ Handles /\ SlotAccounting

GorType == gor \in [Goroutines -> Goroutine]

-----------------------------------------------------------------------------
(* The set of goroutines that hold a slot *)

\* Goroutines is finite, so the holders can be counted.
LEMMA HoldersFinite ==
  IsFiniteSet(Holders) /\ Cardinality(Holders) \in Nat
  BY WorkerAssumption, FS_Subset, FS_CardinalityType DEF Holders, Live

\* A goroutine that keeps its kind and stays alive leaves the holders as they are.
LEMMA HoldersStay ==
  ASSUME NEW g \in Goroutines,
         \A h \in Goroutines \ {g} : gor'[h] = gor[h],
         (gor'[g].pc # "idle" /\ gor'[g].kind = "claimed")
           <=> (gor[g].pc # "idle" /\ gor[g].kind = "claimed")
  PROVE  Holders' = Holders
  BY DEF Holders, Live

\* A claimed task gets a goroutine: one more holder.
LEMMA HolderComes ==
  ASSUME NEW g \in Goroutines,
         \A h \in Goroutines \ {g} : gor'[h] = gor[h],
         gor[g].pc = "idle",
         gor'[g].pc # "idle" /\ gor'[g].kind = "claimed"
  PROVE  Cardinality(Holders') = Cardinality(Holders) + 1
  <1>1. Holders' = Holders \cup {g} /\ g \notin Holders
    BY DEF Holders, Live
  <1> QED
    BY <1>1, HoldersFinite, FS_AddElement

\* The goroutine of a claimed task ends: one holder less.
LEMMA HolderGoes ==
  ASSUME NEW g \in Goroutines,
         \A h \in Goroutines \ {g} : gor'[h] = gor[h],
         gor[g].pc # "idle" /\ gor[g].kind = "claimed",
         gor'[g].pc = "idle"
  PROVE  /\ Cardinality(Holders') = Cardinality(Holders) - 1
         /\ Cardinality(Holders) >= 1
  <1>1. Holders' = Holders \ {g} /\ g \in Holders
    BY DEF Holders, Live
  <1>2. Cardinality(Holders') = Cardinality(Holders) - 1
    BY <1>1, HoldersFinite, FS_RemoveElement
  <1>3. Cardinality(Holders) # 0
    BY <1>1, HoldersFinite, FS_EmptySet
  <1> QED
    BY <1>2, <1>3, HoldersFinite

-----------------------------------------------------------------------------
(* How a goroutine moves.  GorKept: it moved within its kind and kept its   *)
(* slot, if it had one.                                                     *)

GorKept == GorType' /\ GoroutinesOK' /\ Holders' = Holders

\* Writing a field of a goroutine.
LEMMA FieldType ==
  ASSUME NEW r \in Goroutine
  PROVE  /\ \A pc \in ContextPCs \cup ExitPCs : [r EXCEPT !.pc = pc] \in Goroutine
         /\ \A c \in Conts : [r EXCEPT !.cid = c] \in Goroutine
         /\ \A p \in Paths : [r EXCEPT !.path = p] \in Goroutine
  BY DEF Goroutine

\* One goroutine changes, and stays well formed.
LEMMA OneChanges ==
  ASSUME GorType, NEW g \in Goroutines, NEW r \in Goroutine, gor' = [gor EXCEPT ![g] = r]
  PROVE  GorType'
  BY DEF GorType

\* The next call of the body, or the next deferred call.
LEMMA GotoKeeps ==
  ASSUME GorType, GoroutinesOK, NEW g \in Goroutines,
         NEW pc \in ContextPCs \cup ExitPCs,
         gor[g].pc # "idle",
         gor[g].kind = "recovered" => pc \in RecoveredPCs,
         Goto(g, pc)
  PROVE  GorKept
  <1>1. GorType'
    BY DEF GorType, Goto, Goroutine
  <1>2. /\ \A h \in Goroutines \ {g} : gor'[h] = gor[h]
        /\ gor'[g].pc = pc /\ gor'[g].kind = gor[g].kind /\ gor'[g].task = gor[g].task
    BY DEF GorType, Goto, Goroutine
  <1>3. pc # "idle"
    BY DEF ContextPCs, ExitPCs
  <1>4. GoroutinesOK'
    BY <1>2, <1>3 DEF GoroutinesOK
  <1> QED
    BY <1>1, <1>2, <1>3, <1>4, HoldersStay DEF GorKept

\* Returning: a recovered task has no slot to keep.
LEMMA LeaveKeeps ==
  ASSUME GorType, GoroutinesOK, NEW g \in Goroutines, NEW err \in BOOLEAN,
         gor[g].pc # "idle",
         Leave(g, err)
  PROVE  GorKept
  <1>1. CASE gor[g].kind = "recovered"
    <2>1. gor' = [gor EXCEPT ![g] = Idle]
      BY <1>1 DEF GorType, Leave
    <2>2. GorType'
      BY <2>1 DEF GorType, Goroutine, Idle
    <2>3. /\ \A h \in Goroutines \ {g} : gor'[h] = gor[h]
          /\ gor'[g].pc = "idle" /\ gor'[g].kind = "claimed"
      BY <2>1 DEF GorType, Idle
    <2> QED
      BY <1>1, <2>2, <2>3, HoldersStay DEF GorKept, GoroutinesOK
  <1>2. CASE gor[g].kind # "recovered"
    <2> DEFINE pc == IF gor[g].cid = NoCont THEN "markfail" ELSE "remove"
    <2>1. gor' = [gor EXCEPT ![g] = [@ EXCEPT !.err = err, !.pc = pc]]
      BY <1>2 DEF GorType, Leave
    <2>2. pc \in ContextPCs \cup ExitPCs /\ pc # "idle"
      BY DEF ContextPCs, ExitPCs
    <2>3. /\ \A h \in Goroutines \ {g} : gor'[h] = gor[h]
          /\ gor'[g] = [gor[g] EXCEPT !.err = err, !.pc = pc]
      BY <2>1 DEF GorType
    <2>4. /\ gor'[g].pc = pc /\ gor'[g].kind = gor[g].kind
          /\ gor'[g].task = gor[g].task /\ gor'[g] \in Goroutine
      BY <2>2, <2>3 DEF GorType, Goroutine
    <2>5. GorType'
      BY <2>1, <2>2, <2>4 DEF GorType
    <2> QED
      BY <1>2, <2>2, <2>3, <2>4, <2>5, HoldersStay DEF GorKept, GoroutinesOK
  <1> QED
    BY <1>1, <1>2

-----------------------------------------------------------------------------
(* The steps of a goroutine *)

\* What a call may do to the counter of failed calls.
LEMMA FaultsCounted ==
  ASSUME faults \in 0 .. MaxFaults, NEW done,
         Answered \/ Fault \/ AnsweredIn(done) \/ FailsIn(done)
  PROVE  faults' \in 0 .. MaxFaults
  BY PlatformAssumption DEF Answered, Fault, AnsweredIn, FailsIn

\* The steps that keep a slot where it is.
LEMMA KeepsSlot ==
  ASSUME SlotInv, PlatformTypeOK', GorKept, WorkerFrame, UNCHANGED <<sem, worker, recoverQ>>
  PROVE  SlotInv'
  <1>1. TypeOK'
    BY DEF SlotInv, TypeOK, WorkerFrame, WorkerTypeOK, GcTypeOK, ApiTypeOK, SchedTypeOK,
           GorKept, GorType, gcVars, apiVars, schedVars, histVars
  <1>2. Handles'
    BY DEF SlotInv, Handles, LoopHands, RescuesOK, WorkerFrame, gcVars, GorKept
  <1>3. SlotAccounting'
    BY DEF SlotInv, SlotAccounting, LoopSlots, GorKept
  <1> QED
    BY <1>1, <1>2, <1>3 DEF SlotInv

\* Stopping or removing a container leaves the docker daemon and the
\* directories well formed.
LEMMA StoppedType ==
  ASSUME PlatformTypeOK, NEW c, Stopped(c)
  PROVE  /\ conts' \in [Conts -> [task : Tasks \cup {NoTask}, st : ContStates]]
         /\ ws' \in [Tasks -> SUBSET (Files \cup {"input"})]
  BY DEF PlatformTypeOK, Stopped, SetState, ContStates, Wrote, Files

\* Removing a container (client.go:195) leaves the docker daemon well formed.
LEMMA RemovedType ==
  ASSUME PlatformTypeOK, NEW c, Removed(c)
  PROVE  conts' \in [Conts -> [task : Tasks \cup {NoTask}, st : ContStates]]
  BY DEF PlatformTypeOK, Removed, SetState, ContStates

\* Cleanup leaves directories, whether it fails or not (workspace.go).
LEMMA CleanedType ==
  ASSUME PlatformTypeOK, NEW t, Cleaned(t)
  PROVE  /\ ws' \in [Tasks -> SUBSET (Files \cup {"input"})]
         /\ faults' \in 0 .. MaxFaults
  BY PlatformAssumption DEF PlatformTypeOK, Cleaned, Answered, Fault

\* Every call of processTask and waitAndSaveTask preserves the invariant; only the
\* last one, the clean-up, gives a slot back (task.go:387, :398-528).
LEMMA StepKeeps ==
  ASSUME SlotInv, NEW g \in Goroutines, Step(g), WorkerFrame
  PROVE  SlotInv'
  <1> DEFINE t == gor[g].task
  <1>1. PlatformTypeOK /\ GorType /\ GoroutinesOK
    BY DEF SlotInv, TypeOK, WorkerTypeOK, GorType, Handles
  <1>2. rows \in Tables /\ faults \in 0 .. MaxFaults
    BY <1>1 DEF PlatformTypeOK, Tables
  <1>3. /\ gor[g].cid \in Conts \cup {NoCont}
        /\ gor[g].path \in Paths \cup {NoPath}
    BY <1>1 DEF GorType, Goroutine
  <1>4. ASSUME gor[g].pc # "idle" PROVE t \in Tasks
    BY <1>1, <1>4 DEF GoroutinesOK
  <1>5. ASSUME NEW pc, At(g, pc), pc \notin RecoveredPCs, pc # "idle"
        PROVE  gor[g].kind # "recovered"
    BY <1>1, <1>5 DEF GoroutinesOK, At
  <1>6. CASE Check(g)
    <2>1. PlatformTypeOK'
      BY <1>1, <1>2, <1>6, FaultsCounted DEF PlatformTypeOK, Check, Panic, Phases
    <2>2. gor[g].kind # "recovered" /\ gor[g].pc # "idle"
      BY <1>5, <1>6 DEF Check, At, RecoveredPCs
    <2>3. UNCHANGED gor \/ Leave(g, TRUE) \/ Goto(g, "start")
      BY <1>6 DEF Check
    <2>4. GorKept
      BY <1>1, <2>2, <2>3, GotoKeeps, LeaveKeeps
         DEF GorKept, GorType, GoroutinesOK, Holders, Live, ContextPCs
    <2> QED
      BY <1>6, <2>1, <2>4, KeepsSlot DEF Check
  <1>7. CASE Start(g)
    <2>1. gor[g].kind # "recovered" /\ gor[g].pc # "idle"
      BY <1>5, <1>7 DEF Start, At, RecoveredPCs
    <2>2. PICK c \in Conts :
            /\ conts' = [conts EXCEPT ![c] = [task |-> t, st |-> "running"]]
            /\ gor' = [gor EXCEPT ![g].pc = "markrun", ![g].cid = c]
      BY <1>7 DEF Start
    <2>3. PlatformTypeOK'
      BY <1>1, <1>2, <1>4, <1>7, <2>1, <2>2, FaultsCounted DEF PlatformTypeOK, Start, ContStates
    <2>4. GorType'
      <3> DEFINE r == [gor[g] EXCEPT !.pc = "markrun"]
      <3>1. r \in Goroutine
        BY <1>1, FieldType DEF GorType, ContextPCs
      <3>2. gor' = [gor EXCEPT ![g] = [r EXCEPT !.cid = c]]
        BY <1>1, <2>2 DEF GorType
      <3>3. [r EXCEPT !.cid = c] \in Goroutine
        BY <3>1, FieldType
      <3> QED
        BY <1>1, <3>2, <3>3, OneChanges
    <2>5. /\ \A h \in Goroutines \ {g} : gor'[h] = gor[h]
          /\ gor'[g].pc = "markrun" /\ gor'[g].kind = gor[g].kind /\ gor'[g].task = t
      BY <1>1, <2>2 DEF GorType, Goroutine
    <2>6. GorKept
      BY <1>1, <2>1, <2>4, <2>5, HoldersStay DEF GorKept, GoroutinesOK
    <2> QED
      BY <1>7, <2>3, <2>6, KeepsSlot DEF Start
  <1>8. CASE StartFails(g)
    <2>1. gor[g].pc # "idle"
      BY <1>8 DEF StartFails, At
    <2>2. PlatformTypeOK'
      BY <1>1, <1>2, <1>8, FaultsCounted DEF PlatformTypeOK, StartFails
    <2>3. GorKept
      BY <1>1, <1>8, <2>1, LeaveKeeps DEF StartFails
    <2> QED
      BY <1>8, <2>2, <2>3, KeepsSlot DEF StartFails
  <1>9. CASE StartCutShort(g)
    <2>1. gor[g].pc # "idle"
      BY <1>9 DEF StartCutShort, At
    <2>2. PlatformTypeOK'
      <3>1. PICK c \in Conts, st \in {"created", "running"} :
              conts' = [conts EXCEPT ![c] = [task |-> t, st |-> st]]
        BY <1>9 DEF StartCutShort
      <3> QED
        BY <1>1, <1>2, <1>4, <1>9, <2>1, <3>1, FaultsCounted
           DEF PlatformTypeOK, StartCutShort, ContStates
    <2>3. GorKept
      BY <1>1, <1>9, <2>1, LeaveKeeps DEF StartCutShort
    <2> QED
      BY <1>9, <2>2, <2>3, KeepsSlot DEF StartCutShort
  <1>10. CASE MarkRun(g)
    <2>1. gor[g].kind # "recovered" /\ gor[g].pc # "idle"
      BY <1>5, <1>10 DEF MarkRun, At, RecoveredPCs
    <2>2. MarkRunning(rows, t, gor[g].cid) \in Tables
      BY <1>2, <1>3, <1>4, <2>1, MarkRunningTable
    <2>3. PlatformTypeOK'
      BY <1>1, <1>2, <1>10, <2>2, FaultsCounted DEF PlatformTypeOK, MarkRun, Tables
    <2>4. Goto(g, "wait") \/ Leave(g, TRUE)
      BY <1>10 DEF MarkRun
    <2>5. GorKept
      BY <1>1, <2>1, <2>4, GotoKeeps, LeaveKeeps DEF ContextPCs
    <2> QED
      BY <1>10, <2>3, <2>5, KeepsSlot DEF MarkRun
  <1>11. CASE Wait(g)
    <2>1. gor[g].pc # "idle"
      BY <1>11 DEF Wait, At
    <2>2. PlatformTypeOK'
      BY <1>1, <1>2, <1>11, FaultsCounted DEF PlatformTypeOK, Wait
    <2>3. Goto(g, "recheck") \/ Goto(g, "stopc") \/ Leave(g, TRUE)
      BY <1>11 DEF Wait
    <2>4. GorKept
      BY <1>1, <2>1, <2>3, GotoKeeps, LeaveKeeps DEF ContextPCs, ExitPCs, RecoveredPCs
    <2> QED
      BY <1>11, <2>2, <2>4, KeepsSlot DEF Wait
  <1>12. CASE StopExpired(g)
    <2>1. gor[g].pc # "idle"
      BY <1>12 DEF StopExpired, At
    <2>2. PlatformTypeOK'
      BY <1>1, <1>2, <1>12, FaultsCounted, StoppedType DEF PlatformTypeOK, StopExpired
    <2>3. GorKept
      BY <1>1, <1>12, <2>1, GotoKeeps DEF StopExpired, ExitPCs, RecoveredPCs
    <2> QED
      BY <1>12, <2>2, <2>3, KeepsSlot DEF StopExpired
  <1>13. CASE MarkExpired(g)
    <2>1. gor[g].pc # "idle"
      BY <1>13 DEF MarkExpired, At
    <2>2. MarkStopped(rows, t) \in Tables
      BY <1>2, <1>4, <2>1, MarksTable
    <2>3. PlatformTypeOK'
      BY <1>1, <1>2, <1>13, <2>2, FaultsCounted DEF PlatformTypeOK, MarkExpired, Tables
    <2>4. GorKept
      BY <1>1, <1>13, <2>1, LeaveKeeps DEF MarkExpired
    <2> QED
      BY <1>13, <2>3, <2>4, KeepsSlot DEF MarkExpired
  <1>14. CASE Recheck(g)
    <2>1. gor[g].pc # "idle"
      BY <1>14 DEF Recheck, At
    <2>2. PlatformTypeOK'
      BY <1>1, <1>2, <1>14, FaultsCounted DEF PlatformTypeOK, Recheck, Panic, Phases
    <2>3. UNCHANGED gor \/ Goto(g, "upload") \/ Leave(g, FALSE) \/ Leave(g, TRUE)
      BY <1>14 DEF Recheck
    <2>4. GorKept
      BY <1>1, <2>1, <2>3, GotoKeeps, LeaveKeeps
         DEF GorKept, GorType, GoroutinesOK, Holders, Live, ContextPCs, RecoveredPCs
    <2> QED
      BY <1>14, <2>2, <2>4, KeepsSlot DEF Recheck
  <1>15. CASE Upload(g)
    <2>1. gor[g].pc # "idle" /\ t \in Tasks
      BY <1>4, <1>15 DEF Upload, At
    <2>2. Results(t) \subseteq Files
      BY DEF Results
    <2>3. PlatformTypeOK'
      <3>1. store' = store \/ \E f \in Files : store' = [store EXCEPT ![t] = @ \cup {f}]
        BY <1>15, <2>2 DEF Upload
      <3>2. store' \in [Tasks -> SUBSET Files]
        BY <1>1, <3>1 DEF PlatformTypeOK
      <3> QED
        BY <1>1, <1>2, <1>15, <3>2, FaultsCounted DEF PlatformTypeOK, Upload
    <2>4. GorKept
      <3>1. CASE Leave(g, TRUE)
        BY <1>1, <2>1, <3>1, LeaveKeeps
      <3>2. ASSUME NEW f \in Files,
                   gor' = [gor EXCEPT ![g].pc = "complete", ![g].path = <<t, f>>]
            PROVE  GorKept
        <4>1. <<t, f>> \in Paths
          BY <2>1 DEF Paths
        <4>2. GorType'
          <5> DEFINE r == [gor[g] EXCEPT !.pc = "complete"]
          <5>1. r \in Goroutine
            BY <1>1, FieldType DEF GorType, ContextPCs
          <5>2. gor' = [gor EXCEPT ![g] = [r EXCEPT !.path = <<t, f>>]]
            BY <1>1, <3>2 DEF GorType
          <5>3. [r EXCEPT !.path = <<t, f>>] \in Goroutine
            BY <4>1, <5>1, FieldType
          <5> QED
            BY <1>1, <5>2, <5>3, OneChanges
        <4>3. /\ \A h \in Goroutines \ {g} : gor'[h] = gor[h]
              /\ gor'[g].pc = "complete" /\ gor'[g].kind = gor[g].kind /\ gor'[g].task = t
          BY <1>1, <3>2 DEF GorType, Goroutine
        <4> QED
          BY <1>1, <2>1, <4>2, <4>3, HoldersStay DEF GorKept, GoroutinesOK, RecoveredPCs
      <3>3. \/ Leave(g, TRUE)
            \/ \E f \in Files : gor' = [gor EXCEPT ![g].pc = "complete", ![g].path = <<t, f>>]
        BY <1>15, <2>2 DEF Upload
      <3> QED
        BY <3>1, <3>2, <3>3
    <2> QED
      BY <1>15, <2>3, <2>4, KeepsSlot DEF Upload
  <1>16. CASE Complete(g)
    <2>1. gor[g].pc # "idle"
      BY <1>16 DEF Complete, At
    <2>2. MarkCompleted(rows, t, gor[g].path) \in Tables
      BY <1>2, <1>3, <1>4, <2>1, MarkCompletedTable
    <2>3. PlatformTypeOK'
      BY <1>1, <1>2, <1>16, <2>2, FaultsCounted DEF PlatformTypeOK, Complete, Tables
    <2>4. Leave(g, ~Exists(rows, t)) \/ Leave(g, TRUE)
      BY <1>16 DEF Complete
    <2>5. GorKept
      BY <1>1, <2>1, <2>4, LeaveKeeps DEF Exists
    <2> QED
      BY <1>16, <2>3, <2>5, KeepsSlot DEF Complete
  <1>17. CASE RemoveCont(g)
    <2>1. gor[g].kind # "recovered" /\ gor[g].pc # "idle"
      BY <1>5, <1>17 DEF RemoveCont, At, RecoveredPCs
    <2>2. PlatformTypeOK'
      BY <1>1, <1>2, <1>17, FaultsCounted, RemovedType DEF PlatformTypeOK, RemoveCont
    <2>3. Goto(g, "markfail") \/ Goto(g, "cleanup")
      BY <1>17 DEF RemoveCont
    <2>4. GorKept
      BY <1>1, <2>1, <2>3, GotoKeeps DEF ExitPCs
    <2> QED
      BY <1>17, <2>2, <2>4, KeepsSlot DEF RemoveCont
  <1>18. CASE MarkFail(g)
    <2>1. gor[g].kind # "recovered" /\ gor[g].pc # "idle"
      BY <1>5, <1>18 DEF MarkFail, At, RecoveredPCs
    <2>2. MarkFailed(rows, t) \in Tables
      BY <1>2, <1>4, <2>1, MarksTable
    <2>3. PlatformTypeOK'
      BY <1>1, <1>2, <1>18, <2>2, FaultsCounted DEF PlatformTypeOK, MarkFail, Tables
    <2>4. GorKept
      BY <1>1, <1>18, <2>1, GotoKeeps DEF MarkFail, ExitPCs
    <2> QED
      BY <1>18, <2>3, <2>4, KeepsSlot DEF MarkFail
  <1>19. CASE Finish(g)
    <2>1. gor[g].kind = "claimed" /\ gor[g].pc # "idle"
      BY <1>1, <1>5, <1>19 DEF Finish, At, RecoveredPCs, GorType, Goroutine
    <2>2. gor' = [gor EXCEPT ![g] = Idle] /\ sem' = sem - 1
      BY <1>19 DEF Finish
    <2>3. /\ \A h \in Goroutines \ {g} : gor'[h] = gor[h]
          /\ gor'[g].pc = "idle" /\ gor'[g].kind = "claimed"
          /\ GorType'
      BY <1>1, <2>2 DEF GorType, Idle, Goroutine
    <2>4. /\ Cardinality(Holders') = Cardinality(Holders) - 1
          /\ Cardinality(Holders) >= 1 /\ Cardinality(Holders) \in Nat
      BY <2>1, <2>3, HolderGoes, HoldersFinite
    <2>5. SlotAccounting' /\ sem' \in Nat
      <3>1. LoopSlots \in Nat /\ LoopSlots' = LoopSlots
        BY <1>19 DEF SlotInv, TypeOK, WorkerTypeOK, LoopSlots, Finish
      <3>2. sem \in Nat /\ sem <= MaxWorkers /\ sem = Cardinality(Holders) + LoopSlots
        BY DEF SlotInv, TypeOK, WorkerTypeOK, SlotAccounting
      <3> QED
        BY <2>2, <2>4, <3>1, <3>2, WorkerAssumption DEF SlotAccounting
    <2>6. PlatformTypeOK'
      BY <1>1, <1>19, CleanedType DEF PlatformTypeOK, Finish
    <2>7. TypeOK'
      BY <1>19, <2>3, <2>5, <2>6
         DEF SlotInv, TypeOK, WorkerFrame, WorkerTypeOK, GcTypeOK, ApiTypeOK, SchedTypeOK,
             GorType, gcVars, apiVars, schedVars, histVars, Finish
    <2>8. Handles'
      BY <1>1, <1>19, <2>3
         DEF SlotInv, Handles, LoopHands, RescuesOK, GoroutinesOK, WorkerFrame, gcVars, Finish
    <2> QED
      BY <2>5, <2>7, <2>8 DEF SlotInv
  <1> QED
    BY <1>6, <1>7, <1>8, <1>9, <1>10, <1>11, <1>12, <1>13, <1>14, <1>15, <1>16,
       <1>17, <1>18, <1>19 DEF Step

-----------------------------------------------------------------------------
(* The steps of the loop *)

LoopType == [pc : LoopPCs, task : Tasks \cup {NoTask},
             path : Paths \cup {NoPath}, filled : Nat]

\* A step of the loop that starts no goroutine: the slots it holds change as
\* the semaphore does.
LEMMA LoopMoves ==
  ASSUME SlotInv, WorkerFrame, PlatformTypeOK', UNCHANGED <<recoverQ, gor>>,
         worker' \in LoopType, LoopHands', sem' \in Nat, sem' <= MaxWorkers,
         sem' - LoopSlots' = sem - LoopSlots
  PROVE  SlotInv'
  <1>1. TypeOK'
    BY DEF SlotInv, TypeOK, WorkerFrame, WorkerTypeOK, GcTypeOK, ApiTypeOK, SchedTypeOK,
           LoopType, gcVars, apiVars, schedVars, histVars
  <1>2. Handles'
    BY DEF SlotInv, Handles, GoroutinesOK, RescuesOK, WorkerFrame, gcVars
  <1>3. Holders' = Holders
    BY DEF Holders, Live
  <1>4. LoopSlots \in Nat /\ LoopSlots' \in Nat /\ sem \in Nat
    BY DEF LoopSlots, LoopType, SlotInv, TypeOK, WorkerTypeOK
  <1>5. SlotAccounting'
    BY <1>3, <1>4, HoldersFinite DEF SlotInv, SlotAccounting
  <1> QED
    BY <1>1, <1>2, <1>5 DEF SlotInv

\* The loop at another of its places, with nothing in hand.
LEMMA ToType ==
  ASSUME NEW pc \in LoopPCs
  PROVE  /\ To(pc) = [pc |-> pc, task |-> NoTask, path |-> NoPath, filled |-> 0]
         /\ To(pc) \in LoopType
  BY DEF To, LoopStart, LoopType

\* Every step of StartWorker and processQueue preserves the invariant: a slot taken
\* is given back, handed to a goroutine or counted as filled (task.go:304-394).
LEMMA LoopKeeps ==
  ASSUME SlotInv, LoopNext, WorkerFrame
  PROVE  SlotInv'
  <1>1. /\ PlatformTypeOK /\ GorType /\ GoroutinesOK /\ LoopHands
        /\ worker \in LoopType /\ sem \in Nat /\ sem <= MaxWorkers
        /\ rows \in Tables /\ faults \in 0 .. MaxFaults
    BY DEF SlotInv, TypeOK, WorkerTypeOK, GorType, Handles, LoopType, SlotAccounting,
           PlatformTypeOK, Tables
  <1>2. LoopSlots \in Nat /\ sem >= LoopSlots
    BY <1>1, HoldersFinite DEF LoopSlots, LoopType, SlotInv, SlotAccounting
  <1>3. ASSUME UNCHANGED platformVars PROVE PlatformTypeOK'
    BY <1>1, <1>3 DEF PlatformTypeOK, platformVars
  <1>4. ASSUME Return, worker.pc \in {"claim", "cached"}, UNCHANGED <<recoverQ, gor>>,
               PlatformTypeOK'
        PROVE  SlotInv'
    <2>1. LoopSlots = 1
      BY <1>1, <1>4 DEF LoopSlots, LoopHands
    <2>2. worker' = To("tick") /\ sem' = sem - 1
      BY <1>4 DEF Return
    <2>3. worker' \in LoopType /\ LoopHands' /\ LoopSlots' = 0
      BY <2>2, ToType DEF LoopHands, LoopSlots, LoopPCs
    <2> QED
      BY <1>1, <1>2, <1>4, <2>1, <2>2, <2>3, LoopMoves, WorkerAssumption
  <1>5. CASE Tick \/ NoSlot \/ Drain
    <2>1. /\ UNCHANGED <<platformVars, sem, recoverQ, gor>>
          /\ worker.pc \in {"tick", "loop"}
          /\ \E pc \in {"loop", "tick", "drain"} : worker' = To(pc)
      BY <1>5 DEF Tick, NoSlot, Drain
    <2>2. worker' \in LoopType /\ LoopHands' /\ LoopSlots' = 0 /\ LoopSlots = 0
      BY <1>1, <2>1, ToType DEF LoopHands, LoopSlots, LoopPCs
    <2> QED
      BY <1>1, <1>3, <2>1, <2>2, LoopMoves
  <1>6. CASE TakeSlot
    <2>1. worker' = To("claim") /\ worker.pc = "loop" /\ sem < MaxWorkers /\ sem' = sem + 1
      BY <1>6 DEF TakeSlot
    <2>2. worker' \in LoopType /\ LoopHands' /\ LoopSlots' = 1 /\ LoopSlots = 0
      BY <1>1, <2>1, ToType DEF LoopHands, LoopSlots, LoopPCs
    <2> QED
      BY <1>1, <1>3, <1>6, <2>1, <2>2, LoopMoves, WorkerAssumption DEF TakeSlot
  <1>7. CASE Claim
    <2>1. \A t \in NextQueued(rows, clock) : t \in Tasks /\ Claimed(rows, t) \in Tables
      BY <1>1, NextQueuedIsQueued, MarksTable
    <2>2. PlatformTypeOK'
      BY <1>1, <1>7, <2>1, FaultsCounted DEF PlatformTypeOK, Claim, Tables
    <2>3. CASE Return
      BY <1>4, <1>7, <2>2, <2>3 DEF Claim
    <2>4. CASE UNCHANGED sem /\ \E t \in Tasks : worker' = [To("lookup") EXCEPT !.task = t]
      <3>1. PICK t \in Tasks : worker' = [To("lookup") EXCEPT !.task = t]
        BY <2>4
      <3>2. worker' = [pc |-> "lookup", task |-> t, path |-> NoPath, filled |-> 0]
        BY <3>1, ToType DEF LoopPCs
      <3>3. /\ worker' \in LoopType /\ LoopHands' /\ LoopSlots' = 1
            /\ LoopSlots = 1
        BY <1>1, <1>7, <3>2 DEF LoopHands, LoopSlots, LoopPCs, LoopType, Claim
      <3> QED
        BY <1>1, <1>7, <2>2, <2>4, <3>3, LoopMoves DEF Claim
    <2> QED
      BY <1>7, <2>1, <2>3, <2>4 DEF Claim
  <1>8. CASE LookupHit
    <2>1. PICK p \in Paths : worker' = [worker EXCEPT !.pc = "cached", !.path = p]
      BY <1>1, <1>8, CachedPathsInTable DEF LookupHit
    <2>2. PlatformTypeOK'
      BY <1>1, <1>8, FaultsCounted DEF PlatformTypeOK, LookupHit
    <2>3. worker' = [pc |-> "cached", task |-> worker.task, path |-> p, filled |-> worker.filled]
      BY <1>1, <2>1 DEF LoopType
    <2>4. worker' \in LoopType /\ LoopHands' /\ LoopSlots' = LoopSlots
      BY <1>1, <1>8, <2>3 DEF LoopHands, LoopSlots, LoopPCs, LoopType, LookupHit
    <2> QED
      BY <1>1, <1>8, <2>2, <2>4, LoopMoves DEF LookupHit
  <1>9. CASE MarkCached
    <2>1. worker.task \in Tasks /\ worker.path \in Paths \cup {NoPath}
      BY <1>1, <1>9 DEF MarkCached, LoopHands, LoopType
    <2>2. MarkCompleted(rows, worker.task, worker.path) \in Tables
      BY <1>1, <2>1, MarkCompletedTable
    <2>3. PlatformTypeOK'
      BY <1>1, <1>9, <2>2, FaultsCounted DEF PlatformTypeOK, MarkCached, Tables
    <2> QED
      BY <1>4, <1>9, <2>3 DEF MarkCached
  <1>10. CASE FillSlot
    <2>1. /\ worker' = [pc |-> "drain", task |-> worker.task, path |-> worker.path,
                        filled |-> worker.filled + 1]
          /\ worker.pc = "drain" /\ sem < MaxWorkers /\ sem' = sem + 1
      BY <1>1, <1>10 DEF FillSlot, LoopType
    <2>2. worker' \in LoopType /\ LoopHands' /\ LoopSlots' = LoopSlots + 1
      BY <1>1, <2>1 DEF LoopHands, LoopSlots, LoopPCs, LoopType
    <2> QED
      BY <1>1, <1>2, <1>3, <1>10, <2>1, <2>2, LoopMoves, WorkerAssumption DEF FillSlot
  <1>11. CASE Drained
    <2>1. /\ worker' = [pc |-> "stopped", task |-> worker.task, path |-> worker.path,
                        filled |-> worker.filled]
          /\ worker.pc = "drain" /\ worker.filled = MaxWorkers
      BY <1>1, <1>11 DEF Drained, LoopType
    <2>2. worker' \in LoopType /\ LoopHands' /\ LoopSlots' = LoopSlots
      BY <1>1, <2>1 DEF LoopHands, LoopSlots, LoopPCs, LoopType
    <2> QED
      BY <1>1, <1>3, <1>11, <2>2, LoopMoves DEF Drained
  <1>12. ASSUME NEW g \in Goroutines, TakeRecovered(g) PROVE SlotInv'
    <2> DEFINE r == Head(recoverQ)
    <2>1. r \in [task : Tasks, cid : Conts] /\ recoverQ' \in Seq([task : Tasks, cid : Conts])
      <3>1. recoverQ \in Seq([task : Tasks, cid : Conts])
        BY DEF SlotInv, TypeOK, WorkerTypeOK
      <3>2. recoverQ # <<>> /\ recoverQ' = Tail(recoverQ)
        BY <1>12 DEF TakeRecovered
      <3> QED
        BY <3>1, <3>2, HeadTailProperties
    <2>2. gor[g].pc = "idle"
      BY <1>12 DEF TakeRecovered
    <2> DEFINE s == [pc |-> "wait", kind |-> "recovered", task |-> r.task, cid |-> r.cid,
                     path |-> NoPath, err |-> FALSE, expired |-> FALSE]
    <2>3. gor' = [gor EXCEPT ![g] = s]
      BY <1>12 DEF TakeRecovered, Spawned
    <2>4. s \in Goroutine
      BY <2>1 DEF Goroutine, ContextPCs
    <2>5. GorType' /\ gor'[g] = s /\ \A h \in Goroutines \ {g} : gor'[h] = gor[h]
      BY <1>1, <2>3, <2>4, OneChanges DEF GorType
    <2>6. Holders' = Holders
      BY <2>2, <2>5, HoldersStay
    <2>7. GoroutinesOK'
      BY <1>1, <2>1, <2>5 DEF GoroutinesOK, RecoveredPCs
    <2>8. /\ worker' = To("tick") /\ worker.pc = "loop"
          /\ UNCHANGED <<platformVars, sem>>
      BY <1>12 DEF TakeRecovered
    <2>9. worker' \in LoopType /\ LoopHands' /\ LoopSlots' = 0 /\ LoopSlots = 0
      BY <1>1, <2>8, ToType DEF LoopHands, LoopSlots, LoopPCs
    <2>10. TypeOK'
      BY <1>3, <2>1, <2>5, <2>8, <2>9
         DEF SlotInv, TypeOK, WorkerFrame, WorkerTypeOK, GcTypeOK, ApiTypeOK, SchedTypeOK,
             GorType, LoopType, gcVars, apiVars, schedVars, histVars
    <2>11. Handles'
      BY <2>7, <2>9 DEF SlotInv, Handles, RescuesOK, WorkerFrame, gcVars
    <2>12. SlotAccounting'
      BY <2>6, <2>8, <2>9 DEF SlotInv, SlotAccounting
    <2> QED
      BY <2>10, <2>11, <2>12 DEF SlotInv
  <1>13. ASSUME NEW g \in Goroutines, StartTask(g) PROVE SlotInv'
    <2> DEFINE s == [pc |-> "check", kind |-> "claimed", task |-> worker.task, cid |-> NoCont,
                     path |-> NoPath, err |-> FALSE, expired |-> FALSE]
    <2>1. /\ gor[g].pc = "idle" /\ worker.pc = "lookup" /\ worker' = To("loop")
          /\ UNCHANGED <<sem, recoverQ>>
      BY <1>13 DEF StartTask
    <2>2. worker.task \in Tasks
      BY <1>1, <2>1 DEF LoopHands
    <2>3. gor' = [gor EXCEPT ![g] = s]
      BY <1>13 DEF StartTask, Spawned
    <2>4. s \in Goroutine
      BY <2>2 DEF Goroutine, ContextPCs
    <2>5. GorType' /\ gor'[g] = s /\ \A h \in Goroutines \ {g} : gor'[h] = gor[h]
      BY <1>1, <2>3, <2>4, OneChanges DEF GorType
    <2>6. Cardinality(Holders') = Cardinality(Holders) + 1
      BY <2>1, <2>5, HolderComes
    <2>7. GoroutinesOK'
      BY <1>1, <2>2, <2>5 DEF GoroutinesOK
    <2>8. worker' \in LoopType /\ LoopHands' /\ LoopSlots' = 0 /\ LoopSlots = 1
      BY <1>1, <2>1, ToType DEF LoopHands, LoopSlots, LoopPCs
    <2>9. PlatformTypeOK'
      BY <1>1, <1>13, FaultsCounted DEF PlatformTypeOK, StartTask
    <2>10. TypeOK'
      BY <2>1, <2>5, <2>8, <2>9
         DEF SlotInv, TypeOK, WorkerFrame, WorkerTypeOK, GcTypeOK, ApiTypeOK, SchedTypeOK,
             GorType, LoopType, gcVars, apiVars, schedVars, histVars
    <2>11. Handles'
      BY <2>7, <2>8 DEF SlotInv, Handles, RescuesOK, WorkerFrame, gcVars
    <2>12. SlotAccounting'
      BY <1>1, <2>1, <2>6, <2>8, HoldersFinite DEF SlotInv, SlotAccounting
    <2> QED
      BY <2>10, <2>11, <2>12 DEF SlotInv
  <1> QED
    BY <1>5, <1>6, <1>7, <1>8, <1>9, <1>10, <1>11, <1>12, <1>13 DEF LoopNext

\* The end of a task's timeout preserves the invariant.
LEMMA ExpireKeeps ==
  ASSUME SlotInv, NEW g \in Goroutines, Expire(g), WorkerFrame
  PROVE  SlotInv'
  <1>1. PlatformTypeOK /\ GorType /\ GoroutinesOK
    BY DEF SlotInv, TypeOK, WorkerTypeOK, GorType, Handles
  <1>2. gor' = [gor EXCEPT ![g].expired = TRUE] /\ UNCHANGED <<platformVars, sem, worker, recoverQ>>
    BY DEF Expire
  <1>3. PlatformTypeOK'
    BY <1>1, <1>2 DEF PlatformTypeOK, platformVars
  <1>4. GorType'
    <2>1. [gor[g] EXCEPT !.expired = TRUE] \in Goroutine
      BY <1>1 DEF GorType, Goroutine
    <2> QED
      BY <1>1, <1>2, <2>1 DEF GorType
  <1>5. /\ \A h \in Goroutines \ {g} : gor'[h] = gor[h]
        /\ gor'[g].pc = gor[g].pc /\ gor'[g].kind = gor[g].kind /\ gor'[g].task = gor[g].task
    BY <1>1, <1>2 DEF GorType, Goroutine
  <1>6. GorKept
    BY <1>1, <1>4, <1>5, HoldersStay DEF GorKept, GoroutinesOK
  <1> QED
    BY <1>2, <1>3, <1>6, KeepsSlot

\* So does every step of the worker.
LEMMA WorkerKeeps ==
  ASSUME SlotInv, WorkerPart
  PROVE  SlotInv'
  BY LoopKeeps, StepKeeps, ExpireKeeps DEF WorkerPart, WorkerNext

-----------------------------------------------------------------------------
(* The steps of the collector *)

\* A step of the collector that leaves the worker's variables alone.
LEMMA GcMoves ==
  ASSUME SlotInv, GcFrame, UNCHANGED <<sem, worker, gor>>,
         PlatformTypeOK', GcTypeOK', RescuesOK',
         recoverQ' \in Seq([task : Tasks, cid : Conts])
  PROVE  SlotInv'
  <1>1. TypeOK'
    BY DEF SlotInv, TypeOK, GcFrame, WorkerTypeOK, ApiTypeOK, SchedTypeOK,
           apiVars, schedVars, histVars
  <1>2. Handles'
    BY DEF SlotInv, Handles, LoopHands, GoroutinesOK
  <1>3. SlotAccounting'
    BY DEF SlotInv, SlotAccounting, LoopSlots, Holders, Live
  <1> QED
    BY <1>1, <1>2, <1>3 DEF SlotInv

RescueType == [pc : RescuePCs, cid : Conts \cup {NoCont}, path : Paths \cup {NoPath}]

\* How the goroutine of cleanupTask moves.
LEMMA RescueMoves ==
  ASSUME GcTypeOK, RescuesOK, NEW t \in Tasks, UNCHANGED sweep,
         \/ RescueEnds(t)
         \/ rescue[t].pc # "idle" /\ \E pc \in RescuePCs : RescueGoto(t, pc)
  PROVE  GcTypeOK' /\ RescuesOK'
  <1>1. CASE RescueEnds(t)
    BY <1>1 DEF RescueEnds, GcTypeOK, RescuesOK, NoRescue, RescuePCs
  <1>2. CASE rescue[t].pc # "idle" /\ \E pc \in RescuePCs : RescueGoto(t, pc)
    BY <1>2 DEF RescueGoto, GcTypeOK, RescuesOK
  <1> QED
    BY <1>1, <1>2

\* Every call of cleanupTask preserves the invariant; one of them fills the queue
\* of recovered tasks (garbagecollector.go:77-127).
LEMMA RescueKeeps ==
  ASSUME SlotInv, NEW t \in Tasks, RescueStep(t), GcFrame
  PROVE  SlotInv'
  <1>1. /\ PlatformTypeOK /\ GcTypeOK /\ RescuesOK
        /\ rows \in Tables /\ faults \in 0 .. MaxFaults
        /\ recoverQ \in Seq([task : Tasks, cid : Conts])
        /\ rescue[t].path \in Paths \cup {NoPath}
    BY DEF SlotInv, TypeOK, Handles, PlatformTypeOK, Tables, WorkerTypeOK, GcTypeOK
  <1>2. rescue[t].pc # "idle" /\ rescue[t].cid \in Conts
    BY <1>1 DEF RescuesOK, RescueStep, RescueExists, RescueGone, RescueState, RescueRemove,
                RescueRedo, RescueUpload, RescueComplete, RescueCleanup, RescueAt
  <1>3. MarkQueued(rows, t) \in Tables /\ MarkCompleted(rows, t, rescue[t].path) \in Tables
    BY <1>1, MarksTable, MarkCompletedTable
  <1>4. CASE RescueExists(t)
    <2>1. PlatformTypeOK'
      BY <1>1, <1>4, FaultsCounted DEF PlatformTypeOK, RescueExists
    <2>2. GcTypeOK' /\ RescuesOK'
      BY <1>1, <1>2, <1>4, RescueMoves DEF RescueExists, RescuePCs
    <2> QED
      BY <1>1, <1>4, <2>1, <2>2, GcMoves DEF RescueExists, workerVars
  <1>5. CASE RescueGone(t)
    <2>1. PlatformTypeOK'
      BY <1>1, <1>3, <1>5, FaultsCounted DEF PlatformTypeOK, RescueGone, Tables
    <2>2. GcTypeOK' /\ RescuesOK'
      BY <1>1, <1>2, <1>5, RescueMoves DEF RescueGone
    <2> QED
      BY <1>1, <1>5, <2>1, <2>2, GcMoves DEF RescueGone, workerVars
  <1>6. CASE RescueState(t)
    <2>1. PlatformTypeOK'
      BY <1>1, <1>6, FaultsCounted DEF PlatformTypeOK, RescueState
    <2>2. GcTypeOK' /\ RescuesOK'
      BY <1>1, <1>2, <1>6, RescueMoves DEF RescueState, RescuePCs
    <2>3. recoverQ' \in Seq([task : Tasks, cid : Conts])
      <3>1. [task |-> t, cid |-> rescue[t].cid] \in [task : Tasks, cid : Conts]
        BY <1>2
      <3>2. recoverQ' \in {recoverQ, Append(recoverQ, [task |-> t, cid |-> rescue[t].cid])}
        BY <1>6 DEF RescueState
      <3>3. Append(recoverQ, [task |-> t, cid |-> rescue[t].cid])
              \in Seq([task : Tasks, cid : Conts])
        BY <1>1, <3>1, AppendProperties
      <3> QED
        BY <1>1, <3>2, <3>3
    <2> QED
      BY <1>6, <2>1, <2>2, <2>3, GcMoves DEF RescueState
  <1>7. CASE RescueRemove(t)
    <2>1. PlatformTypeOK'
      BY <1>1, <1>7, FaultsCounted, RemovedType DEF PlatformTypeOK, RescueRemove
    <2>2. GcTypeOK' /\ RescuesOK'
      BY <1>1, <1>2, <1>7, RescueMoves DEF RescueRemove, RescuePCs
    <2> QED
      BY <1>1, <1>7, <2>1, <2>2, GcMoves DEF RescueRemove, workerVars
  <1>8. CASE RescueRedo(t)
    <2>1. PlatformTypeOK'
      BY <1>1, <1>3, <1>8, FaultsCounted DEF PlatformTypeOK, RescueRedo, Tables
    <2>2. GcTypeOK' /\ RescuesOK'
      BY <1>1, <1>2, <1>8, RescueMoves DEF RescueRedo, RescuePCs
    <2> QED
      BY <1>1, <1>8, <2>1, <2>2, GcMoves DEF RescueRedo, workerVars
  <1>9. CASE RescueUpload(t)
    <2>1. Results(t) \subseteq Files
      BY DEF Results
    <2>2. store' \in [Tasks -> SUBSET Files]
      <3>1. store' = store \/ \E f \in Files : store' = [store EXCEPT ![t] = @ \cup {f}]
        BY <1>9, <2>1 DEF RescueUpload
      <3> QED
        BY <1>1, <3>1 DEF PlatformTypeOK
    <2>3. PlatformTypeOK'
      BY <1>1, <1>9, <2>2, FaultsCounted DEF PlatformTypeOK, RescueUpload
    <2>4. GcTypeOK' /\ RescuesOK'
      <3>1. CASE RescueEnds(t)
        BY <1>1, <1>9, <3>1, RescueMoves DEF RescueUpload
      <3>2. ASSUME NEW f \in Files,
                   rescue' = [rescue EXCEPT ![t].pc = "complete", ![t].path = <<t, f>>]
            PROVE  GcTypeOK' /\ RescuesOK'
        <4>1. <<t, f>> \in Paths
          BY DEF Paths
        <4> DEFINE r == [rescue[t] EXCEPT !.pc = "complete"]
        <4>2. rescue' = [rescue EXCEPT ![t] = [r EXCEPT !.path = <<t, f>>]]
          BY <1>1, <3>2 DEF GcTypeOK
        <4>3. r \in RescueType /\ r.cid = rescue[t].cid
          BY <1>1 DEF GcTypeOK, RescueType, RescuePCs
        <4>4. /\ [r EXCEPT !.path = <<t, f>>] \in RescueType
              /\ [r EXCEPT !.path = <<t, f>>].cid = rescue[t].cid
          BY <4>1, <4>3 DEF RescueType
        <4>5. rescue' \in [Tasks -> RescueType]
          BY <1>1, <4>2, <4>4 DEF GcTypeOK, RescueType
        <4>6. \A u \in Tasks : rescue'[u].pc # "idle" => rescue'[u].cid \in Conts
          BY <1>1, <1>2, <4>2, <4>4 DEF GcTypeOK, RescuesOK
        <4> QED
          BY <1>1, <1>9, <4>5, <4>6 DEF GcTypeOK, RescuesOK, RescueType, RescueUpload
      <3> QED
        BY <1>9, <2>1, <3>1, <3>2 DEF RescueUpload
    <2> QED
      BY <1>1, <1>9, <2>3, <2>4, GcMoves DEF RescueUpload, workerVars
  <1>10. CASE RescueComplete(t)
    <2>1. PlatformTypeOK'
      BY <1>1, <1>3, <1>10, FaultsCounted DEF PlatformTypeOK, RescueComplete, Tables
    <2>2. GcTypeOK' /\ RescuesOK'
      BY <1>1, <1>2, <1>10, RescueMoves DEF RescueComplete, RescuePCs
    <2> QED
      BY <1>1, <1>10, <2>1, <2>2, GcMoves DEF RescueComplete, workerVars
  <1>11. CASE RescueCleanup(t)
    <2>1. PlatformTypeOK'
      BY <1>1, <1>11, CleanedType DEF PlatformTypeOK, RescueCleanup
    <2>2. GcTypeOK' /\ RescuesOK'
      BY <1>1, <1>2, <1>11, RescueMoves DEF RescueCleanup
    <2> QED
      BY <1>1, <1>11, <2>1, <2>2, GcMoves DEF RescueCleanup, workerVars
  <1> QED
    BY <1>4, <1>5, <1>6, <1>7, <1>8, <1>9, <1>10, <1>11 DEF RescueStep

\* So does every step of the collector.
LEMMA GcKeeps ==
  ASSUME SlotInv, GcPart
  PROVE  SlotInv'
  <1>1. /\ PlatformTypeOK /\ GcTypeOK /\ RescuesOK
        /\ rows \in Tables /\ faults \in 0 .. MaxFaults
        /\ recoverQ \in Seq([task : Tasks, cid : Conts])
        /\ GcNext /\ GcFrame
    BY DEF SlotInv, TypeOK, Handles, PlatformTypeOK, Tables, WorkerTypeOK, GcPart
  <1>2. CASE ListRunning
    <2>1. PlatformTypeOK'
      BY <1>1, <1>2, FaultsCounted DEF PlatformTypeOK, ListRunning
    <2>2. \A t \in RunningWithContainer(rows) : t \in Tasks /\ rows[t].cid \in Conts
      BY <1>1 DEF RunningWithContainer, Tables, Rows
    <2>3. rescue' = rescue
            \/ rescue' = [t \in Tasks |->
                 IF t \in RunningWithContainer(rows)
                 THEN [pc |-> "exists", cid |-> rows[t].cid, path |-> NoPath]
                 ELSE NoRescue]
      BY <1>2 DEF ListRunning, NoRescue
    <2>4. rescue' \in [Tasks -> RescueType]
      <3>1. NoRescue \in RescueType
        BY DEF NoRescue, RescueType, RescuePCs
      <3>2. \A t \in RunningWithContainer(rows) :
              [pc |-> "exists", cid |-> rows[t].cid, path |-> NoPath] \in RescueType
        BY <2>2 DEF RescueType, RescuePCs
      <3>3. rescue \in [Tasks -> RescueType]
        BY <1>1 DEF GcTypeOK, RescueType
      <3> QED
        BY <2>3, <3>1, <3>2, <3>3
    <2>5. RescuesOK'
      BY <1>1, <2>2, <2>3 DEF RescuesOK, NoRescue
    <2>6. GcTypeOK'
      BY <1>1, <1>2, <2>4 DEF GcTypeOK, RescueType, ListRunning
    <2> QED
      BY <1>1, <1>2, <2>1, <2>5, <2>6, GcMoves DEF ListRunning, workerVars
  <1>3. CASE ListConts \/ ListActive \/ Swept
    <2>1. PlatformTypeOK'
      BY <1>1, <1>3, FaultsCounted
         DEF PlatformTypeOK, platformVars, ListConts, ListActive, Swept
    <2>2. GcTypeOK' /\ RescuesOK'
      BY <1>1, <1>3 DEF GcTypeOK, RescuesOK, ListConts, ListActive, Swept
    <2> QED
      BY <1>1, <1>3, <2>1, <2>2, GcMoves DEF ListConts, ListActive, Swept, workerVars
  <1>4. ASSUME NEW c \in Conts, SweepOne(c) PROVE SlotInv'
    <2>1. PlatformTypeOK'
      BY <1>1, <1>4, FaultsCounted, RemovedType, CleanedType DEF PlatformTypeOK, SweepOne
    <2>2. GcTypeOK' /\ RescuesOK'
      BY <1>1, <1>4 DEF GcTypeOK, RescuesOK, SweepOne
    <2> QED
      BY <1>1, <1>4, <2>1, <2>2, GcMoves DEF SweepOne, workerVars
  <1>5. CASE GcOver
    <2>1. PlatformTypeOK'
      BY <1>1, <1>5 DEF PlatformTypeOK, GcOver, Phases
    <2>2. GcTypeOK' /\ RescuesOK'
      BY <1>1, <1>5 DEF GcTypeOK, RescuesOK, GcOver
    <2> QED
      BY <1>1, <1>5, <2>1, <2>2, GcMoves DEF GcOver, workerVars
  <1> QED
    BY <1>1, <1>2, <1>3, <1>4, <1>5, RescueKeeps DEF GcNext

-----------------------------------------------------------------------------
(* Steps that leave the worker and the collector alone *)

\* The invariant needs only types of the parts that neither worker nor collector is.
LEMMA OthersMove ==
  ASSUME SlotInv, UNCHANGED <<workerVars, gcVars>>,
         PlatformTypeOK', ApiTypeOK', SchedTypeOK',
         kills' \in 0 .. MaxKills, deletions' \subseteq Tasks, restarted' \in BOOLEAN
  PROVE  SlotInv'
  <1>1. TypeOK'
    BY DEF SlotInv, TypeOK, WorkerTypeOK, GcTypeOK, workerVars, gcVars
  <1>2. Handles'
    BY DEF SlotInv, Handles, LoopHands, GoroutinesOK, RescuesOK, workerVars, gcVars
  <1>3. SlotAccounting'
    BY DEF SlotInv, SlotAccounting, LoopSlots, Holders, Live, workerVars
  <1> QED
    BY <1>1, <1>2, <1>3 DEF SlotInv

\* The calls of the handlers keep the types (server/task.go, service/task.go).
LEMMA ApiTypes ==
  ASSUME PlatformTypeOK, ApiTypeOK, NEW t \in Tasks,
         RunStep(t) \/ StopStep(t) \/ DeleteStep(t) \/ StopRequest(t) \/ DeleteRequest(t)
  PROVE  PlatformTypeOK' /\ ApiTypeOK'
  <1>1. /\ rows \in Tables /\ faults \in 0 .. MaxFaults /\ inserts \in Nat
        /\ run[t].path \in Paths \cup {NoPath}
        /\ rows[t].cid \in Conts \cup {NoCont}
    BY DEF PlatformTypeOK, Tables, ApiTypeOK, Rows
  <1>2. RunOver \in [pc : RunPCs, path : Paths \cup {NoPath}]
    BY DEF RunOver, RunPCs
  <1>3. NoStop \in [pc : {"none", "read", "mark", "stop"}, cid : Conts \cup {NoCont}]
    BY DEF NoStop
  <1>4. CASE SaveInput(t)
    <2>1. PlatformTypeOK'
      BY <1>4 DEF PlatformTypeOK, SaveInput
    <2> QED
      BY <1>2, <1>4, <2>1 DEF ApiTypeOK, SaveInput, RunGoto, RunEnds, RunPCs
  <1>5. CASE FindImage(t)
    <2>1. PlatformTypeOK'
      BY <1>5 DEF PlatformTypeOK, platformVars, FindImage
    <2> QED
      BY <1>5, <2>1 DEF ApiTypeOK, FindImage, RunGoto, RunPCs
  <1>6. CASE FindCached(t)
    <2>1. PlatformTypeOK'
      BY <1>1, <1>6, FaultsCounted DEF PlatformTypeOK, FindCached
    <2>2. run' \in [Tasks -> [pc : RunPCs, path : Paths \cup {NoPath}]]
      <3> DEFINE r == [run[t] EXCEPT !.pc = "insert"]
      <3>1. r \in [pc : RunPCs, path : Paths \cup {NoPath}]
        BY DEF ApiTypeOK, RunPCs
      <3>2. \A p \in CachedPaths(rows, Sig[t]) : p \in Paths \cup {NoPath}
        BY <1>1, CachedPathsInTable
      <3>3. CASE RunGoto(t, "insert")
        BY <3>1, <3>3 DEF ApiTypeOK, RunGoto
      <3>4. ASSUME NEW p \in Paths \cup {NoPath},
                   run' = [run EXCEPT ![t].pc = "insert", ![t].path = p]
            PROVE  run' \in [Tasks -> [pc : RunPCs, path : Paths \cup {NoPath}]]
        <4>1. run' = [run EXCEPT ![t] = [r EXCEPT !.path = p]]
          BY <3>4 DEF ApiTypeOK
        <4>2. [r EXCEPT !.path = p] \in [pc : RunPCs, path : Paths \cup {NoPath}]
          BY <3>1
        <4> QED
          BY <4>1, <4>2 DEF ApiTypeOK
      <3> QED
        BY <1>6, <3>2, <3>3, <3>4 DEF FindCached
    <2> QED
      BY <1>6, <2>1, <2>2 DEF ApiTypeOK, FindCached
  <1>7. CASE InsertRow(t)
    <2>1. FirstStatus(t) \in Statuses
      BY DEF FirstStatus, Statuses
    <2>2. Insert(rows, t, FirstStatus(t), run[t].path, inserts + 1) \in Tables
      <3>1. inserts + 1 \in Nat
        BY DEF PlatformTypeOK
      <3>2. run[t].path \in Paths \cup {NoPath}
        BY DEF ApiTypeOK
      <3> QED
        BY <1>1, <2>1, <3>1, <3>2, InsertTable
    <2>3. PlatformTypeOK'
      BY <1>1, <1>7, <2>2, FaultsCounted DEF PlatformTypeOK, InsertRow, Inserted, Tables
    <2>4. RunGoto(t, "hit") \/ RunGoto(t, "undo") \/ RunEnds(t)
      BY <1>7 DEF InsertRow
    <2>5. run' \in [Tasks -> [pc : RunPCs, path : Paths \cup {NoPath}]]
      BY <1>2, <2>4 DEF ApiTypeOK, RunGoto, RunEnds, RunPCs
    <2> QED
      BY <1>7, <2>3, <2>5 DEF ApiTypeOK, InsertRow
  <1>8. CASE RunCleanup(t)
    <2>1. PlatformTypeOK'
      BY <1>8, CleanedType DEF PlatformTypeOK, RunCleanup
    <2> QED
      BY <1>2, <1>8, <2>1 DEF ApiTypeOK, RunCleanup, RunEnds
  <1>9. CASE StopRequest(t)
    <2>1. PlatformTypeOK'
      BY <1>9 DEF PlatformTypeOK, platformVars, StopRequest
    <2> QED
      BY <1>9, <2>1, ApiAssumption DEF ApiTypeOK, StopRequest
  <1>10. CASE StopRead(t)
    <2>1. PlatformTypeOK'
      BY <1>1, <1>10, FaultsCounted DEF PlatformTypeOK, StopRead
    <2> QED
      BY <1>1, <1>3, <1>10, <2>1 DEF ApiTypeOK, StopRead, StopEnds
  <1>11. CASE StopMark(t)
    <2>1. MarkStopped(rows, t) \in Tables
      BY <1>1, MarksTable
    <2>2. PlatformTypeOK'
      BY <1>1, <1>11, <2>1, FaultsCounted DEF PlatformTypeOK, StopMark, Tables
    <2> QED
      BY <1>3, <1>11, <2>2 DEF ApiTypeOK, StopMark, StopEnds
  <1>12. CASE StopCont(t)
    <2>1. PlatformTypeOK'
      BY <1>1, <1>12, FaultsCounted, StoppedType DEF PlatformTypeOK, StopCont
    <2> QED
      BY <1>3, <1>12, <2>1 DEF ApiTypeOK, StopCont, StopEnds
  <1>13. CASE DeleteRequest(t)
    <2>1. PlatformTypeOK'
      BY <1>13 DEF PlatformTypeOK, platformVars, DeleteRequest
    <2> QED
      BY <1>13, <2>1, ApiAssumption DEF ApiTypeOK, DeleteRequest, DelGoto
  <1>14. CASE DeleteRead(t)
    <2>1. PlatformTypeOK'
      BY <1>1, <1>14, FaultsCounted DEF PlatformTypeOK, DeleteRead
    <2> QED
      BY <1>14, <2>1 DEF ApiTypeOK, DeleteRead, DelGoto
  <1>15. CASE DeleteArtifacts(t)
    <2>1. PlatformTypeOK'
      BY <1>1, <1>15, FaultsCounted DEF PlatformTypeOK, DeleteArtifacts
    <2> QED
      BY <1>15, <2>1 DEF ApiTypeOK, DeleteArtifacts, DelGoto
  <1>16. CASE DeleteWorkspace(t)
    <2>1. PlatformTypeOK'
      BY <1>1, <1>16, FaultsCounted DEF PlatformTypeOK, DeleteWorkspace
    <2> QED
      BY <1>16, <2>1 DEF ApiTypeOK, DeleteWorkspace, DelGoto
  <1>17. CASE DeleteRow(t)
    <2>1. Deleted(rows, t) \in Tables
      BY <1>1, DeletedTable
    <2>2. PlatformTypeOK'
      BY <1>1, <1>17, <2>1, FaultsCounted DEF PlatformTypeOK, DeleteRow, Tables
    <2> QED
      BY <1>17, <2>2 DEF ApiTypeOK, DeleteRow, DelGoto
  <1> QED
    BY <1>4, <1>5, <1>6, <1>7, <1>8, <1>9, <1>10, <1>11, <1>12, <1>13, <1>14, <1>15,
       <1>16, <1>17 DEF RunStep, StopStep, DeleteStep

\* The handlers preserve the invariant.
LEMMA ApiKeeps ==
  ASSUME SlotInv, ApiPart
  PROVE  SlotInv'
  <1>1. /\ PlatformTypeOK /\ ApiTypeOK /\ SchedTypeOK /\ kills \in 0 .. MaxKills
        /\ deletions \subseteq Tasks /\ restarted \in BOOLEAN
    BY DEF SlotInv, TypeOK
  <1>2. PlatformTypeOK' /\ ApiTypeOK'
    BY <1>1, ApiTypes DEF ApiPart, ApiNext
  <1>3. /\ UNCHANGED <<workerVars, gcVars, schedVars, kills, restarted>>
        /\ deletions' \subseteq Tasks
    BY <1>1 DEF ApiPart, ApiFrame
  <1>4. SchedTypeOK'
    BY <1>1, <1>3 DEF SchedTypeOK, schedVars
  <1> QED
    BY <1>1, <1>2, <1>3, <1>4, OthersMove

\* The scheduler and its timers preserve the invariant (task.go:189-236).
LEMMA SchedKeeps ==
  ASSUME SlotInv, SchedPart
  PROVE  SlotInv'
  <1>1. /\ PlatformTypeOK /\ ApiTypeOK /\ SchedTypeOK /\ kills \in 0 .. MaxKills
        /\ deletions \subseteq Tasks /\ restarted \in BOOLEAN
        /\ rows \in Tables /\ faults \in 0 .. MaxFaults
    BY DEF SlotInv, TypeOK, PlatformTypeOK, Tables
  <1>2. SchedNext /\ UNCHANGED <<workerVars, gcVars, apiVars, kills, deletions, restarted>>
    BY DEF SchedPart, SchedFrame, histVars
  <1>3. ApiTypeOK'
    BY <1>1, <1>2 DEF ApiTypeOK, apiVars
  <1>4. CASE ReadUpcoming
    <2>1. PlatformTypeOK'
      BY <1>1, <1>4 DEF PlatformTypeOK, platformVars, ReadUpcoming
    <2>2. SchedTypeOK'
      BY <1>1, <1>4 DEF SchedTypeOK, ReadUpcoming, Upcoming
    <2> QED
      BY <1>1, <1>2, <1>3, <2>1, <2>2, OthersMove
  <1>5. ASSUME NEW t \in Tasks, Register(t) PROVE SlotInv'
    <2>1. PlatformTypeOK'
      BY <1>1, <1>5 DEF PlatformTypeOK, platformVars, Register
    <2>2. SchedTypeOK'
      BY <1>1, <1>5 DEF SchedTypeOK, Register
    <2> QED
      BY <1>1, <1>2, <1>3, <2>1, <2>2, OthersMove
  <1>6. ASSUME NEW t \in Tasks, Fire(t) PROVE SlotInv'
    <2>1. PlatformTypeOK'
      BY <1>1, <1>6, FaultsCounted DEF PlatformTypeOK, Fire, Phases
    <2>2. SchedTypeOK'
      BY <1>1, <1>6 DEF SchedTypeOK, Fire
    <2> QED
      BY <1>1, <1>2, <1>3, <2>1, <2>2, OthersMove
  <1>7. ASSUME NEW t \in Tasks, Enqueue(t) PROVE SlotInv'
    <2>1. MarkQueued(rows, t) \in Tables
      BY <1>1, <1>7, MarksTable
    <2>2. PlatformTypeOK'
      BY <1>1, <1>7, <2>1, FaultsCounted DEF PlatformTypeOK, Enqueue, Tables
    <2>3. SchedTypeOK'
      BY <1>1, <1>7 DEF SchedTypeOK, Enqueue
    <2> QED
      BY <1>1, <1>2, <1>3, <2>2, <2>3, OthersMove
  <1> QED
    BY <1>2, <1>4, <1>5, <1>6, <1>7 DEF SchedNext

\* Time and programs that end preserve the invariant.
LEMMA EnvKeeps ==
  ASSUME SlotInv, EnvPart
  PROVE  SlotInv'
  <1>1. /\ PlatformTypeOK /\ ApiTypeOK /\ SchedTypeOK /\ kills \in 0 .. MaxKills
        /\ deletions \subseteq Tasks /\ restarted \in BOOLEAN
    BY DEF SlotInv, TypeOK
  <1>2. UNCHANGED <<workerVars, gcVars, apiVars, schedVars, kills, deletions, restarted>>
    BY DEF EnvPart, EnvFrame, histVars
  <1>3. PlatformTypeOK'
    <2>1. CASE ClockTick
      BY <1>1, <2>1 DEF PlatformTypeOK, ClockTick
    <2>2. ASSUME NEW c \in Conts, ContainerExit(c) PROVE PlatformTypeOK'
      <3>1. PICK end \in {<<"exited0", {"full"}>>, <<"exited0", {}>>,
                          <<"failed", {}>>, <<"failed", {"partial"}>>} :
              /\ conts' = SetState(c, end[1])
              /\ ws' = [ws EXCEPT ![conts[c].task] = Wrote(@, end[2])]
        BY <2>2 DEF ContainerExit
      <3> DEFINE st == end[1]
                 files == end[2]
      <3>2. st \in {"exited0", "failed"} /\ files \in SUBSET Files
        BY DEF Files
      <3>3. conts' = SetState(c, st) /\ ws' = [ws EXCEPT ![conts[c].task] = Wrote(@, files)]
        BY <3>1
      <3> HIDE DEF st, files
      <3>4. conts' \in [Conts -> [task : Tasks \cup {NoTask}, st : ContStates]]
        BY <1>1, <3>2, <3>3 DEF PlatformTypeOK, SetState, ContStates
      <3>5. ws' \in [Tasks -> SUBSET (Files \cup {"input"})]
        BY <1>1, <3>2, <3>3 DEF PlatformTypeOK, Wrote
      <3> QED
        BY <1>1, <2>2, <3>4, <3>5 DEF PlatformTypeOK, ContainerExit
    <2> QED
      BY <2>1, <2>2 DEF EnvPart, Environment
  <1>4. ApiTypeOK' /\ SchedTypeOK'
    BY <1>1, <1>2 DEF ApiTypeOK, SchedTypeOK, apiVars, schedVars
  <1> QED
    BY <1>1, <1>2, <1>3, <1>4, OthersMove

-----------------------------------------------------------------------------
(* The process: what it starts with satisfies the invariant. *)

\* The worker and the collector of a new process: no goroutine, no slot taken.
Fresh ==
  /\ sem = 0 /\ worker = LoopStart /\ recoverQ = <<>>
  /\ gor = [g \in Goroutines |-> Idle]
  /\ rescue = [t \in Tasks |-> NoRescue] /\ sweep = SweepStart

\* What a process starts with satisfies the worker's part of the invariant.
LEMMA FreshStart == Fresh => WorkerTypeOK /\ GcTypeOK /\ Handles /\ SlotAccounting
  <1> SUFFICES ASSUME Fresh
               PROVE  WorkerTypeOK /\ GcTypeOK /\ Handles /\ SlotAccounting
    OBVIOUS
  <1> USE DEF Fresh
  <1>1. WorkerTypeOK
    <2>1. Idle \in Goroutine
      BY DEF Idle, Goroutine
    <2>2. recoverQ \in Seq([task : Tasks, cid : Conts])
      BY EmptySeq
    <2> QED
      BY <2>1, <2>2 DEF WorkerTypeOK, LoopStart, LoopPCs
  <1>2. GcTypeOK
    BY DEF GcTypeOK, NoRescue, RescuePCs, SweepStart
  <1>3. Handles
    BY DEF Handles, LoopHands, GoroutinesOK, RescuesOK, LoopStart, Idle, NoRescue
  <1>4. Holders = {}
    BY DEF Holders, Live, Idle
  <1>5. SlotAccounting
    BY <1>4, FS_EmptySet, WorkerAssumption DEF SlotAccounting, LoopSlots, LoopStart
  <1> QED
    BY <1>1, <1>2, <1>3, <1>5

\* A fresh installation satisfies the invariant.
LEMMA InitSlotInv ==
  ASSUME Init
  PROVE  SlotInv
  <1>1. WorkerTypeOK /\ GcTypeOK /\ Handles /\ SlotAccounting
    BY FreshStart DEF Fresh, Init, WorkerInit, GcInit
  <1>2. PlatformTypeOK
    BY PlatformAssumption
       DEF Init, PlatformInit, PlatformTypeOK, Rows, NoRow, Unused, ContStates, Phases
  <1>3. ApiTypeOK
    BY ApiAssumption DEF Init, ApiInit, ApiTypeOK, NewRun, NoStop, RunPCs
  <1>4. SchedTypeOK
    BY DEF Init, SchedInit, SchedTypeOK
  <1>5. kills \in 0 .. MaxKills
    BY KillAssumption DEF Init
  <1>6. deletions \subseteq Tasks
    BY DEF Init
  <1>7. restarted \in BOOLEAN
    BY DEF Init
  <1> QED
    BY <1>1, <1>2, <1>3, <1>4, <1>5, <1>6, <1>7 DEF SlotInv, TypeOK

\* Starts, shutdowns, crashes and panics preserve the invariant (main.go:44-107).
LEMMA ProcessKeeps ==
  ASSUME SlotInv, Process
  PROVE  SlotInv'
  <1>1. /\ PlatformTypeOK /\ ApiTypeOK /\ SchedTypeOK /\ kills \in 0 .. MaxKills
        /\ deletions \subseteq Tasks /\ restarted \in BOOLEAN
    BY DEF SlotInv, TypeOK
  <1>2. CASE Boot \/ Terminate
    <2>1. UNCHANGED <<workerVars, gcVars, apiVars, schedVars, deletions, restarted>>
      BY <1>2 DEF Boot, Terminate, histVars
    <2>2. PlatformTypeOK'
      BY <1>1, <1>2 DEF PlatformTypeOK, Boot, Terminate, Phases
    <2>3. ApiTypeOK' /\ SchedTypeOK'
      BY <1>1, <2>1 DEF ApiTypeOK, SchedTypeOK, apiVars, schedVars
    <2>4. kills' \in 0 .. MaxKills
      BY <1>1, <1>2, KillAssumption DEF Boot, Terminate
    <2> QED
      BY <1>1, <2>1, <2>2, <2>3, <2>4, OthersMove
  <1>3. CASE Crash \/ Abort \/ Exit \/ ExitEarly
    <2>1. ProcessEnds /\ kills' \in 0 .. MaxKills
      BY <1>1, <1>3, KillAssumption DEF Crash, Abort, Exit, ExitEarly
    <2>2. WorkerTypeOK' /\ GcTypeOK' /\ Handles' /\ SlotAccounting'
      <3>1. Fresh'
        BY <2>1 DEF Fresh, ProcessEnds, WorkerReset, GcReset
      <3> QED
        BY <3>1, FreshStart, PTL
    <2>3. PlatformTypeOK'
      BY <1>1, <2>1 DEF PlatformTypeOK, ProcessEnds, Phases
    <2>4. ApiTypeOK'
      BY <1>1, <2>1 DEF ApiTypeOK, ProcessEnds, ApiReset, NewRun, RunOver, NoStop, RunPCs
    <2>5. SchedTypeOK'
      BY <2>1 DEF SchedTypeOK, ProcessEnds, SchedReset
    <2> QED
      BY <1>1, <2>1, <2>2, <2>3, <2>4, <2>5 DEF SlotInv, TypeOK, ProcessEnds
  <1> QED
    BY <1>2, <1>3 DEF Process

-----------------------------------------------------------------------------
(* The theorems *)

\* Every step of the service preserves the invariant.
LEMMA NextSlotInv ==
  ASSUME SlotInv, [Next]_vars
  PROVE  SlotInv'
  <1>1. CASE Next
    BY <1>1, WorkerKeeps, GcKeeps, ApiKeeps, SchedKeeps, EnvKeeps, ProcessKeeps DEF Next
  <1>2. CASE UNCHANGED vars
    <2>1. /\ UNCHANGED <<workerVars, gcVars, apiVars, schedVars, platformVars>>
          /\ UNCHANGED <<kills, deletions, restarted>>
      BY <1>2 DEF vars, histVars
    <2>2. /\ PlatformTypeOK /\ ApiTypeOK /\ SchedTypeOK /\ kills \in 0 .. MaxKills
          /\ deletions \subseteq Tasks /\ restarted \in BOOLEAN
      BY DEF SlotInv, TypeOK
    <2>3. PlatformTypeOK' /\ ApiTypeOK' /\ SchedTypeOK'
      BY <2>1, <2>2 DEF PlatformTypeOK, ApiTypeOK, SchedTypeOK, platformVars, apiVars, schedVars
    <2> QED
      BY <2>1, <2>2, <2>3, OthersMove
  <1> QED
    BY <1>1, <1>2

\* The inductive invariant holds in every state of the service.
THEOREM SlotInvariant == Spec => []SlotInv
  BY InitSlotInv, NextSlotInv, PTL DEF Spec

\* Every variable keeps its type: rows of the table, containers, directories, the
\* loop, goroutines, queues, requests and timers, over failures and restarts.
THEOREM TypeCorrect == Spec => []TypeOK
  <1>1. SlotInv => TypeOK
    BY DEF SlotInv
  <1> QED
    BY <1>1, SlotInvariant, PTL

\* No path through processQueue and processTask loses a slot of the semaphore or
\* gives one back twice (task.go:345-394), whatever fails and however many tasks,
\* goroutines and recovered containers there are.
THEOREM SlotsAccounted == Spec => []SlotAccounting
  <1>1. SlotInv => SlotAccounting
    BY DEF SlotInv
  <1> QED
    BY <1>1, SlotInvariant, PTL

\* When the loop reports at shutdown that all active tasks are finished
\* (task.go:315-319), no goroutine of a claimed task is left: with every slot in
\* the loop's own hands there is none for a goroutine to hold.
THEOREM DrainIsComplete == Spec => []DrainComplete
  <1>1. SlotInv => DrainComplete
    <2> SUFFICES ASSUME SlotInv, worker.pc = "stopped" PROVE Holders = {}
      BY DEF DrainComplete
    <2>1. LoopSlots = MaxWorkers
      BY WorkerAssumption DEF SlotInv, Handles, LoopHands, LoopSlots
    <2>2. Cardinality(Holders) = 0
      BY <2>1, HoldersFinite, WorkerAssumption DEF SlotInv, SlotAccounting
    <2> QED
      BY <2>2, HoldersFinite, FS_EmptySet
  <1> QED
    BY <1>1, SlotInvariant, PTL

==============================================================================
