---------------------------- MODULE ContainerProofs ----------------------------
(***************************************************************************)
(* What holds of the containers and of the inputs of tasks over crashes and*)
(* recovery, for every set of tasks, containers and goroutines: as long as *)
(* no call failed, a container that still runs for a running task is waited*)
(* for, and a task that waits to be run still has its input.               *)
(*                                                                         *)
(* The row keeps the container id over the mark "queued", so the id of a   *)
(* row is not always that of a container somebody waits for.  What makes it*)
(* safe is that a row goes back to the queue only when its container does  *)
(* not run any more (CalmFits), and that whoever waits for a container     *)
(* waits for the one the row names (CidFits).                              *)
(***************************************************************************)
EXTENDS OwnershipProofs

\* c was started for t.
Started(c, t) == c \in Conts /\ conts[c].task = t /\ conts[c].st # "unused"

\* c has run and does not run any more, or never will.
Quiet(c) == c \in Conts /\ conts[c].st \notin {"unused", "running"}

\* Where a goroutine has not marked its task running yet, and where it has.
EarlyPCs == {"check", "start", "markrun"}
WatchPCs == {"wait", "recheck", "upload", "complete", "stopc", "marks"}
SavePCs  == {"recheck", "upload", "complete"}

\* The container id a goroutine has is that of its task's row.
GorCid(g) ==
  gor[g].pc # "idle" =>
    /\ gor[g].pc \in {"check", "start"} => gor[g].cid = NoCont
    /\ gor[g].pc \in WatchPCs \cup {"markrun"} => gor[g].cid # NoCont
    /\ gor[g].cid # NoCont => Started(gor[g].cid, gor[g].task)
    /\ gor[g].pc \in WatchPCs =>
         rows[gor[g].task].status = "absent" \/ rows[gor[g].task].cid = gor[g].cid
    /\ gor[g].pc \in SavePCs => Quiet(gor[g].cid)

\* The container ids the queue, the collector and a stop request have for t.
CidFits(t) ==
  /\ rows[t].cid # NoCont => Started(rows[t].cid, t)
  /\ stop[t].pc \in {"mark", "stop"} => Started(stop[t].cid, t)
  /\ rescue[t].pc # "idle" => rescue[t].cid # NoCont /\ rescue[t].cid = rows[t].cid
  /\ \A i \in 1 .. Len(recoverQ) : recoverQ[i].task = t =>
       /\ Started(recoverQ[i].cid, t)
       /\ rows[t].status = "absent" \/ recoverQ[i].cid = rows[t].cid

\* t waits to be run, or is being run and has not been marked running yet.
Early(t) ==
  \/ rows[t].status \in {"queued", "scheduled"} \/ InHand(t)
  \/ \E g \in Goroutines : Runs(g, t) /\ gor[g].pc \in EarlyPCs

Alive(t) ==
  rows[t].status = "running" /\ rows[t].cid # NoCont /\ conts[rows[t].cid].st = "running"

\* Somebody waits for the container of t, or will look at it.
LookedAfter(t) ==
  \/ InHands(t) \/ phase \in {"down", "panicked"}
  \/ phase = "gc" /\ (sweep.pc = "tasks" \/ rescue[t].pc \in {"exists", "state"})

\* What is left to do for g does not settle the row.
Settling(g) == gor[g].pc = "cleanup" \/ (gor[g].pc = "remove" /\ ~gor[g].err)

\* What holds of t as long as no call failed.
CalmFits(t) ==
  /\ Early(t) => rows[t].cid = NoCont \/ Quiet(rows[t].cid)
  /\ rescue[t].pc \notin {"idle", "exists", "state"} => Quiet(rescue[t].cid)
  /\ \A g \in Goroutines : Runs(g, t) /\ Settling(g) => rows[t].status # "running"
  /\ Alive(t) => LookedAfter(t)

Calm(t) == faults = 0 => CalmFits(t)

ActiveStatus == {"running", "scheduled", "queued"}

\* The directory of t is still needed.
NeedsInput(t) ==
  \/ rows[t].status \in ActiveStatus \/ Early(t)
  \/ run[t].pc \in {"image", "cache", "insert"}

InputFits(t) ==
  /\ faults = 0 /\ t \notin deletions /\ NeedsInput(t) => "input" \in ws[t]
  /\ faults = 0 /\ run[t].pc \in {"hit", "undo"} =>
       ~InHands(t) /\ rows[t].status \notin ActiveStatus
  /\ del[t] \in {"workspace", "row"} => t \in deletions
  /\ phase \in {"down", "gc"} => run[t].pc \in {"new", "over"} /\ del[t] = "none"

\* The containers the collector is about to remove are not those of active tasks.
OrphansFit(t) ==
  phase = "gc" /\ sweep.pc = "orphans" =>
    \A c \in sweep.conts : conts[c].task = t => rows[t].status \notin ActiveStatus

ContFits(t) == CidFits(t) /\ Calm(t) /\ InputFits(t) /\ OrphansFit(t)

\* What the collector has listed are containers.
Listed ==
  phase = "gc" /\ sweep.pc \in {"active", "orphans"} =>
    \A c \in sweep.conts : conts[c].st # "unused"

Containers ==
  /\ Listed
  /\ \A t \in Tasks : ContFits(t)
  /\ \A g \in Goroutines : GorCid(g)

\* The inductive invariant.
ContInv == OwnInv /\ Containers

-----------------------------------------------------------------------------
(* What a step does to the containers and the directories *)

\* A container is started once, for one task, and does not run again once it ended.
ContsMove ==
  \A c \in Conts : conts[c].st # "unused" =>
    /\ conts'[c].task = conts[c].task /\ conts'[c].st # "unused"
    /\ conts'[c].st = "running" => conts[c].st = "running"
    /\ conts'[c].st = "exited0" => conts[c].st \in {"running", "exited0"}

\* The input of u is not removed.
InputKept(u) == "input" \in ws[u] => "input" \in ws'[u]

\* ContainerStop, and what the program writes before it ends (client.go:182).
LEMMA StoppedMoves ==
  ASSUME PlatformTypeOK, NEW c, Stopped(c)
  PROVE  ContsMove /\ \A u \in Tasks : InputKept(u)
<1>1. CASE UNCHANGED <<conts, ws>>
  BY <1>1 DEF ContsMove, InputKept
<1>2. ASSUME c \in Conts, conts[c].st = "running", NEW st \in {"exited0", "failed"},
             NEW files \in {{}, {"partial"}}, conts' = SetState(c, st),
             ws' = [ws EXCEPT ![conts[c].task] = Wrote(@, files)]
      PROVE  ContsMove /\ \A u \in Tasks : InputKept(u)
  BY <1>2 DEF PlatformTypeOK, SetState, ContsMove, InputKept, Wrote
<1> QED
  BY <1>1, <1>2 DEF Stopped

\* The removal of a container (client.go:195).
LEMMA RemovedMoves ==
  ASSUME PlatformTypeOK, NEW c, Removed(c)
  PROVE  ContsMove
  BY DEF PlatformTypeOK, Removed, SetState, ContsMove

\* The start of a container, known of or not.
LEMMA StartMoves ==
  ASSUME PlatformTypeOK, NEW c \in Conts, conts[c].st = "unused", NEW r,
         conts' = [conts EXCEPT ![c] = r]
  PROVE  ContsMove
  BY DEF PlatformTypeOK, ContsMove

\* The end of a program.
LEMMA ExitMoves ==
  ASSUME PlatformTypeOK, NEW c \in Conts, ContainerExit(c)
  PROVE  ContsMove /\ \A u \in Tasks : InputKept(u)
<1>1. PICK end \in {<<"exited0", {"full"}>>, <<"exited0", {}>>,
                    <<"failed", {}>>, <<"failed", {"partial"}>>} :
        /\ conts' = SetState(c, end[1])
        /\ ws' = [ws EXCEPT ![conts[c].task] = Wrote(@, end[2])]
  BY DEF ContainerExit
<1>2. conts[c].st = "running" /\ end[1] \in {"exited0", "failed"}
  BY <1>1 DEF ContainerExit
<1> QED
  BY <1>1, <1>2 DEF PlatformTypeOK, SetState, ContsMove, InputKept, Wrote

\* Every step: no container is started twice or brought back.
LEMMA NextMovesConts ==
  ASSUME SlotInv, Next
  PROVE  ContsMove
<1>1. PlatformTypeOK
  BY DEF SlotInv, TypeOK
<1>2. CASE UNCHANGED conts
  BY <1>2 DEF ContsMove
<1>3. ASSUME NEW g \in Goroutines, Step(g) PROVE ContsMove
  <2>1. CASE Start(g)
    BY <1>1, <2>1, StartMoves DEF Start
  <2>2. CASE StartCutShort(g)
    BY <1>1, <2>2, StartMoves DEF StartCutShort
  <2>3. CASE StopExpired(g)
    BY <1>1, <1>2, <2>3, StoppedMoves DEF StopExpired
  <2>4. CASE RemoveCont(g)
    BY <1>1, <1>2, <2>4, RemovedMoves DEF RemoveCont
  <2>5. Start(g) \/ StartCutShort(g) \/ StopExpired(g) \/ RemoveCont(g) \/ UNCHANGED conts
    BY <1>3 DEF Step, Check, StartFails, MarkRun, Wait, MarkExpired, Recheck, Upload,
                Complete, MarkFail, Finish
  <2> QED
    BY <1>2, <2>1, <2>2, <2>3, <2>4, <2>5
<1>4. ASSUME WorkerPart PROVE ContsMove
  <2>1. UNCHANGED conts \/ \E g \in Goroutines : Step(g)
    BY <1>4 DEF WorkerPart, WorkerNext, LoopNext, Tick, NoSlot, TakeSlot, Claim, LookupHit,
                MarkCached, Drain, FillSlot, Drained, TakeRecovered, StartTask, Expire,
                platformVars
  <2> QED
    BY <1>2, <1>3, <2>1
<1>5. ASSUME GcPart PROVE ContsMove
  <2>1. UNCHANGED conts \/ (\E c : Removed(c))
    BY <1>5 DEF GcPart, GcNext, ListRunning, ListConts, ListActive, Swept, GcOver, SweepOne,
                RescueStep, RescueExists, RescueGone, RescueState, RescueRemove, RescueRedo,
                RescueUpload, RescueComplete, RescueCleanup, platformVars
  <2> QED
    BY <1>1, <1>2, <2>1, RemovedMoves
<1>6. ASSUME ApiPart PROVE ContsMove
  <2>1. UNCHANGED conts \/ (\E c : Stopped(c))
    BY <1>6 DEF ApiPart, ApiNext, RunStep, StopStep, DeleteStep, SaveInput, FindImage,
                FindCached, InsertRow, RunCleanup, StopRead, StopMark, StopCont, DeleteRead,
                DeleteArtifacts, DeleteWorkspace, DeleteRow, StopRequest, DeleteRequest,
                platformVars
  <2> QED
    BY <1>1, <1>2, <2>1, StoppedMoves
<1>7. SchedPart \/ Process \/ EnvPart => ContsMove
  <2>1. SchedPart \/ Process \/ EnvPart =>
          UNCHANGED conts \/ (\E c \in Conts : ContainerExit(c))
    BY DEF SchedPart, SchedNext, ReadUpcoming, Register, Fire, Enqueue, Process, ProcessEnds,
           Boot, Crash, Abort, Terminate, Exit, ExitEarly, EnvPart, Environment, ClockTick,
           platformVars
  <2> QED
    BY <1>1, <1>2, <2>1, ExitMoves
<1> QED
  BY <1>4, <1>5, <1>6, <1>7 DEF Next

\* A call that failed is counted.
LEMMA FaultNoted ==
  ASSUME PlatformTypeOK, Fault
  PROVE  faults' # 0
<1>1. faults \in Nat /\ faults' = faults + 1
  BY PlatformAssumption DEF PlatformTypeOK, Fault
<1> QED
  BY <1>1

\* The count of failed calls only grows.
LEMMA FaultsGrow ==
  ASSUME SlotInv, Next
  PROVE  faults' = 0 => faults = 0
<1> DEFINE Counted == faults' \in {faults, faults + 1}
<1> USE DEF Answered, Fault, AnsweredIn, FailsIn, Done, Closing, Cleaned
<1>2. ASSUME NEW g \in Goroutines, Step(g) PROVE Counted
  <2>1. ASSUME Check(g) \/ Start(g) \/ StartFails(g) \/ StartCutShort(g) PROVE Counted
    BY <2>1 DEF Check, Start, StartFails, StartCutShort
  <2>2. ASSUME MarkRun(g) \/ Wait(g) \/ StopExpired(g) \/ MarkExpired(g) PROVE Counted
    BY <2>2 DEF MarkRun, Wait, StopExpired, MarkExpired
  <2>3. ASSUME Recheck(g) \/ Upload(g) \/ Complete(g) PROVE Counted
    BY <2>3 DEF Recheck, Upload, Complete
  <2>4. ASSUME RemoveCont(g) \/ MarkFail(g) \/ Finish(g) PROVE Counted
    BY <2>4 DEF RemoveCont, MarkFail, Finish
  <2> QED
    BY <1>2, <2>1, <2>2, <2>3, <2>4 DEF Step
<1>3. ASSUME WorkerPart PROVE Counted
  <2>1. ASSUME LoopNext PROVE Counted
    BY <2>1 DEF LoopNext, Tick, NoSlot, TakeSlot, Claim, LookupHit, MarkCached, Drain,
                FillSlot, Drained, TakeRecovered, StartTask, platformVars
  <2>2. ASSUME NEW g \in Goroutines, Expire(g) PROVE Counted
    BY <2>2 DEF Expire, platformVars
  <2> QED
    BY <1>2, <1>3, <2>1, <2>2 DEF WorkerPart, WorkerNext
<1>4. ASSUME GcPart PROVE Counted
  <2>1. ASSUME NEW t \in Tasks, RescueStep(t) PROVE Counted
    BY <2>1 DEF RescueStep, RescueExists, RescueGone, RescueState, RescueRemove, RescueRedo,
                RescueUpload, RescueComplete, RescueCleanup
  <2>2. ASSUME NEW c \in Conts, SweepOne(c) PROVE Counted
    BY <2>2 DEF SweepOne
  <2>3. ASSUME ListRunning \/ ListConts \/ ListActive \/ Swept \/ GcOver PROVE Counted
    BY <2>3 DEF ListRunning, ListConts, ListActive, Swept, GcOver, platformVars
  <2> QED
    BY <1>4, <2>1, <2>2, <2>3 DEF GcPart, GcNext
<1>5. ASSUME ApiPart PROVE Counted
  BY <1>5 DEF ApiPart, ApiNext, RunStep, StopStep, DeleteStep, SaveInput, FindImage,
                FindCached, InsertRow, RunCleanup, StopRead, StopMark, StopCont, DeleteRead,
                DeleteArtifacts, DeleteWorkspace, DeleteRow, StopRequest, DeleteRequest,
                platformVars
<1>6. ASSUME SchedPart PROVE Counted
  BY <1>6 DEF SchedPart, SchedNext, ReadUpcoming, Register, Fire, Enqueue, platformVars, AnsweredIn, FailsIn
<1>7. ASSUME EnvPart \/ Process PROVE Counted
  BY <1>7 DEF Process, ProcessEnds, Boot, Crash, Abort, Terminate, Exit, ExitEarly, EnvPart,
              Environment, ClockTick, ContainerExit
<1>8. Counted
  BY <1>3, <1>4, <1>5, <1>6, <1>7 DEF Next
<1>9. faults \in Nat
  BY PlatformAssumption DEF SlotInv, TypeOK, PlatformTypeOK
<1> QED
  BY <1>8, <1>9

-----------------------------------------------------------------------------
(* What a step leaves as it is *)

\* Nobody takes u, or lets go of it.
HandsSame(u) ==
  /\ InHand(u)' => InHand(u)
  /\ InHands(u)' <=> InHands(u)
  /\ \A i \in 1 .. Len(recoverQ') : recoverQ'[i].task = u =>
       \E j \in 1 .. Len(recoverQ) : recoverQ[j] = recoverQ'[i]
  /\ \A g \in Goroutines : Runs(g, u)' =>
       Runs(g, u) /\ gor'[g].pc = gor[g].pc /\ gor'[g].err = gor[g].err

Kept(u) ==
  /\ HandsSame(u)
  /\ rows'[u] = rows[u] /\ rescue'[u] = rescue[u]
  /\ run'[u] = run[u] /\ stop'[u] = stop[u] /\ del'[u] = del[u]

\* Nothing is forgotten, and the containers go their way.
Moves ==
  /\ ContsMove /\ (faults' = 0 => faults = 0) /\ deletions \subseteq deletions'
  /\ phase' \in {"down", "gc"} => phase \in {"down", "gc"}

\* What was started for a task stays so; what has stopped stays so.
LEMMA StartedKept ==
  ASSUME ContsMove, NEW c, NEW u
  PROVE  (Started(c, u) => Started(c, u)') /\ (Quiet(c) => Quiet(c)')
  BY DEF ContsMove, Started, Quiet

\* A container that runs ran before.
LEMMA AliveKept ==
  ASSUME NEW u \in Tasks, ContsMove, CidFits(u),
         rows'[u].cid = rows[u].cid, Alive(u)', rows[u].status = "running"
  PROVE  Alive(u)
<1>1. rows[u].cid # NoCont /\ Started(rows[u].cid, u)
  BY DEF Alive, CidFits
<1> QED
  BY <1>1 DEF Alive, Started, ContsMove

\* Whoever waits for the container of u goes on to.
LEMMA WatchKept ==
  ASSUME NEW u \in Tasks, UNCHANGED sweep, rescue'[u] = rescue[u], InHands(u) => InHands(u)',
         phase' \in {phase, "panicked"} \/ Up, LookedAfter(u)
  PROVE  LookedAfter(u)'
  BY DEF LookedAfter, Up

\* The collector goes on with the same list.
LEMMA OrphansKept ==
  ASSUME GcTypeOK, NEW u \in Tasks, ContsMove, Listed, OrphansFit(u), UNCHANGED sweep,
         phase' = "gc" => phase = "gc",
         rows'[u].status \in ActiveStatus => rows[u].status \in ActiveStatus
  PROVE  OrphansFit(u)' /\ Listed'
  BY DEF GcTypeOK, ContsMove, Listed, OrphansFit

\* The task a step does not concern.
LEMMA KeptFits ==
  ASSUME NEW u \in Tasks, ContFits(u), Kept(u), Moves, InputKept(u) \/ ~NeedsInput(u),
         OrphansFit(u)', faults' = 0 /\ Alive(u) => LookedAfter(u)'
  PROVE  ContFits(u)'
<1>1. CidFits(u)'
  BY StartedKept DEF ContFits, CidFits, Kept, HandsSame, Moves
<1>2. Early(u)' => Early(u)
  BY DEF Early, Kept, HandsSame
<1>3. Calm(u)'
  <2> SUFFICES ASSUME faults' = 0 PROVE CalmFits(u)'
    BY DEF Calm
  <2>1. CalmFits(u)
    BY DEF ContFits, Calm, Moves
  <2>2. /\ Early(u)' => rows'[u].cid = NoCont \/ Quiet(rows[u].cid)'
        /\ rescue'[u].pc \notin {"idle", "exists", "state"} => Quiet(rescue[u].cid)'
    BY <1>2, <2>1, StartedKept DEF CalmFits, Kept, Moves, Quiet
  <2>3. \A g \in Goroutines : Runs(g, u)' /\ Settling(g)' => rows'[u].status # "running"
    BY <2>1 DEF CalmFits, Kept, HandsSame, Settling
  <2>4. Alive(u)' => LookedAfter(u)'
    <3>1. Alive(u)' => rows[u].status = "running"
      BY DEF Alive, Kept
    <3>2. CidFits(u) /\ ContsMove /\ rows'[u].cid = rows[u].cid
      BY DEF ContFits, Moves, Kept
    <3> QED
      BY <3>1, <3>2, AliveKept
  <2> QED
    BY <2>2, <2>3, <2>4 DEF CalmFits
<1>4. NeedsInput(u)' => NeedsInput(u)
  BY <1>2 DEF NeedsInput, Kept
<1>5. InputFits(u)'
  BY <1>4 DEF ContFits, InputFits, InputKept, Kept, HandsSame, Moves
<1> QED
  BY <1>1, <1>3, <1>5 DEF ContFits

\* The same for a step after which the collector and the hands are as before.
LEMMA FrameFits ==
  ASSUME GcTypeOK, NEW u \in Tasks, ContFits(u), Listed, Kept(u), Moves, InputKept(u), UNCHANGED sweep,
         phase' \in {phase, "panicked"} \/ (Up /\ phase' # "gc")
  PROVE  ContFits(u)'
<1>1. phase' = "gc" => phase = "gc"
  OBVIOUS
<1>2. OrphansFit(u)'
  BY <1>1, OrphansKept DEF ContFits, Kept, Moves
<1>3. ASSUME faults' = 0, Alive(u) PROVE LookedAfter(u)'
  <2>1. LookedAfter(u)
    BY <1>3 DEF ContFits, Calm, CalmFits, Moves
  <2> QED
    BY <2>1, WatchKept DEF Kept, HandsSame
<1> QED
  BY <1>2, <1>3, KeptFits

\* The goroutine a step does not concern; the row of its task may go.
LEMMA CidKept ==
  ASSUME NEW g \in Goroutines, GorCid(g), ContsMove,
         gor'[g].pc # "idle" =>
           /\ gor'[g].pc = gor[g].pc /\ gor'[g].task = gor[g].task /\ gor'[g].cid = gor[g].cid
           /\ \/ rows'[gor[g].task].status = "absent"
              \/ /\ rows[gor[g].task].status # "absent"
                 /\ rows'[gor[g].task].cid = rows[gor[g].task].cid
  PROVE  GorCid(g)'
<1>1. Started(gor[g].cid, gor[g].task) /\ gor'[g].task = gor[g].task /\ gor'[g].cid = gor[g].cid
        => Started(gor[g].cid, gor[g].task)'
  BY StartedKept DEF Started
<1>2. Quiet(gor[g].cid) /\ gor'[g].cid = gor[g].cid => Quiet(gor[g].cid)'
  BY StartedKept DEF Quiet
<1>3. gor'[g].pc = "idle" => GorCid(g)'
  BY DEF GorCid
<1>4. gor'[g].pc # "idle" => GorCid(g)'
  BY <1>1, <1>2 DEF GorCid
<1> QED
  BY <1>3, <1>4

-----------------------------------------------------------------------------
(* The goroutines *)

\* What a call of processTask or waitAndSaveTask does to its task.
WorkMoves(g, t) ==
  /\ GorCid(g)'
  /\ gor'[g].pc \in EarlyPCs => gor[g].pc \in EarlyPCs /\ rows'[t] = rows[t]
  /\ rows'[t].cid = rows[t].cid \/ (gor[g].pc = "markrun" /\ rows'[t].cid = gor[g].cid)
  /\ rows'[t].status = "running" => rows[t].status = "running" \/ gor[g].pc = "markrun"
  /\ faults' = 0 /\ Settling(g)' => rows'[t].status # "running"
  /\ faults' = 0 /\ gor'[g].pc = "idle" => ~Alive(t)'
  /\ gor[g].pc # "cleanup" => \A u \in Tasks : InputKept(u)

\* The return from the body keeps the container id; a recovered task is let go.
LEMMA LeaveCid ==
  ASSUME GorType, NEW g \in Goroutines, GorCid(g), ContsMove, gor[g].pc # "idle",
         NEW err \in BOOLEAN, Leave(g, err)
  PROVE  /\ GorCid(g)' /\ gor'[g].pc \in {"idle", "markfail", "remove"}
         /\ gor'[g].pc = "idle" => gor[g].kind = "recovered"
         /\ Settling(g)' => ~err
<1>1. CASE gor[g].kind = "recovered"
  BY <1>1, LeaveFacts DEF GorCid, Settling
<1>2. CASE gor[g].kind # "recovered"
  <2>1. /\ gor'[g].pc \in {"markfail", "remove"} /\ gor'[g].task = gor[g].task
        /\ gor'[g].cid = gor[g].cid /\ gor'[g].err = err
    BY <1>2, LeaveFacts
  <2>2. gor[g].cid # NoCont => Started(gor[g].cid, gor[g].task)'
    BY <2>1, StartedKept DEF GorCid, Started
  <2> QED
    BY <2>1, <2>2 DEF GorCid, Settling, WatchPCs, SavePCs
<1> QED
  BY <1>1, <1>2

\* The next call keeps it too.
LEMMA GotoCid ==
  ASSUME GorType, NEW g \in Goroutines, GorCid(g), ContsMove, gor[g].pc # "idle",
         NEW pc, Goto(g, pc),
         pc \in {"check", "start"} => gor[g].cid = NoCont,
         pc \in WatchPCs \cup {"markrun"} => gor[g].cid # NoCont,
         pc \in WatchPCs =>
           rows'[gor[g].task].status = "absent" \/ rows'[gor[g].task].cid = gor[g].cid,
         pc \in SavePCs => Quiet(gor[g].cid)
  PROVE  GorCid(g)' /\ gor'[g].pc = pc /\ gor'[g].task = gor[g].task /\ gor'[g].err = gor[g].err
<1>1. gor'[g].pc = pc /\ gor'[g].task = gor[g].task /\ gor'[g].cid = gor[g].cid
      /\ gor'[g].err = gor[g].err
  BY GotoFacts
<1>2. gor[g].cid # NoCont => Started(gor[g].cid, gor[g].task)'
  BY <1>1, StartedKept DEF GorCid, Started
<1>3. Quiet(gor[g].cid) => Quiet(gor[g].cid)'
  BY <1>1, StartedKept DEF Quiet
<1> QED
  BY <1>1, <1>2, <1>3 DEF GorCid

\* A task whose container is not the one that runs is not looked after by anybody,
\* and need not be.
LEMMA NotAlive ==
  ASSUME NEW t \in Tasks, CidFits(t), ContsMove, rows'[t].cid = rows[t].cid,
         rows[t].cid = NoCont \/ Quiet(rows[t].cid) \/ rows'[t].status # "running"
  PROVE  ~Alive(t)'
<1>1. Quiet(rows[t].cid) => conts[rows[t].cid].st \notin {"unused", "running"}
                            /\ rows[t].cid \in Conts
  BY DEF Quiet
<1> QED
  BY <1>1 DEF Alive, ContsMove

\* Before the task is marked running.
LEMMA EarlyStep ==
  ASSUME OwnInv, Containers, ContsMove, NEW g \in Goroutines,
         NEW t \in Tasks, t = gor[g].task,
         Check(g) \/ Start(g) \/ StartFails(g) \/ StartCutShort(g)
  PROVE  WorkMoves(g, t)
<1>1. /\ GorType /\ GoroutinesOK /\ GorCid(g) /\ rows' = rows /\ ws' = ws
      /\ gor[g].pc \in {"check", "start"}
  BY DEF OwnInv, SlotInv, TypeOK, WorkerTypeOK, GorType, Handles, Containers, Check, Start,
         StartFails, StartCutShort, At
<1>2. gor[g].kind # "recovered" /\ gor[g].cid = NoCont
  BY <1>1 DEF GoroutinesOK, RecoveredPCs, GorCid
<1> SUFFICES /\ GorCid(g)' /\ gor'[g].pc # "idle" /\ ~(Settling(g)' /\ faults' = 0)
  BY <1>1 DEF WorkMoves, EarlyPCs, InputKept
<1>3. CASE \E err \in {TRUE} : Leave(g, err)
  BY <1>1, <1>2, <1>3, LeaveCid
<1>4. CASE UNCHANGED gor
  BY <1>1, <1>4, StartedKept DEF GorCid, Settling, WatchPCs, SavePCs
<1>5. CASE Goto(g, "start")
  BY <1>1, <1>2, <1>5, GotoCid DEF WatchPCs, SavePCs, Settling
<1>6. CASE Start(g)
  <2>1. PICK c \in Conts : /\ conts' = [conts EXCEPT ![c] = [task |-> gor[g].task, st |-> "running"]]
                           /\ gor' = [gor EXCEPT ![g].pc = "markrun", ![g].cid = c]
    BY <1>6 DEF Start
  <2>2. conts \in [Conts -> [task : Tasks \cup {NoTask}, st : ContStates]] /\ NoCont \notin Conts
    BY StoreAssumption DEF OwnInv, SlotInv, TypeOK, PlatformTypeOK
  <2>3. gor'[g].pc = "markrun" /\ gor'[g].cid = c /\ gor'[g].task = gor[g].task
    BY <1>1, <2>1 DEF GorType, Goroutine
  <2>4. conts'[c].task = gor[g].task /\ conts'[c].st = "running"
    BY <2>1, <2>2
  <2> QED
    BY <2>2, <2>3, <2>4 DEF GorCid, Started, Settling, WatchPCs, SavePCs
<1> QED
  BY <1>3, <1>4, <1>5, <1>6 DEF Check, StartFails, StartCutShort, Start

\* The mark "running" gives the row the container id of the goroutine.
LEMMA MarkStep ==
  ASSUME OwnInv, Containers, ContsMove, NEW g \in Goroutines,
         NEW t \in Tasks, t = gor[g].task, MarkRun(g)
  PROVE  WorkMoves(g, t)
<1>1. /\ GorType /\ GoroutinesOK /\ GorCid(g) /\ rows \in Tables /\ ws' = ws
      /\ gor[g].pc = "markrun"
  BY DEF OwnInv, SlotInv, TypeOK, WorkerTypeOK, PlatformTypeOK, Tables, GorType, Handles,
         Containers, MarkRun, At
<1>2. gor[g].kind # "recovered" /\ gor[g].cid # NoCont
  BY <1>1 DEF GoroutinesOK, RecoveredPCs, GorCid, WatchPCs
<1>3. /\ rows' \in {rows, MarkRunning(rows, t, gor[g].cid)}
      /\ \/ Goto(g, "wait") /\ Exists(rows, t) /\ rows' = MarkRunning(rows, t, gor[g].cid)
         \/ Leave(g, TRUE)
  BY DEF MarkRun
<1>4. rows'[t].cid = rows[t].cid \/ rows'[t].cid = gor[g].cid
  BY <1>1, <1>3, RunningMark
<1>5. GorCid(g)' /\ gor'[g].pc # "idle" /\ ~Settling(g)' /\ gor'[g].pc \notin EarlyPCs
  <2>1. CASE Goto(g, "wait") /\ Exists(rows, t) /\ rows' = MarkRunning(rows, t, gor[g].cid)
    <3>1. rows'[t].cid = gor[g].cid
      BY <1>1, <2>1, RunningMark DEF Exists
    <3> QED
      BY <1>1, <1>2, <2>1, <3>1, GotoCid DEF WatchPCs, SavePCs, Settling, EarlyPCs
  <2>2. CASE Leave(g, TRUE)
    BY <1>1, <1>2, <2>2, LeaveCid DEF Settling, EarlyPCs
  <2> QED
    BY <1>3, <2>1, <2>2
<1> QED
  BY <1>1, <1>4, <1>5 DEF WorkMoves, InputKept

\* The wait for a container, and the two calls after a timeout.
LEMMA WaitStep ==
  ASSUME OwnInv, Containers, ContsMove, NEW g \in Goroutines,
         NEW t \in Tasks, t = gor[g].task, Wait(g) \/ StopExpired(g) \/ MarkExpired(g)
  PROVE  WorkMoves(g, t)
<1>1. /\ GorType /\ GorCid(g) /\ rows \in Tables /\ CidFits(t) /\ PlatformTypeOK
      /\ gor[g].pc \in {"wait", "stopc", "marks"}
  BY DEF OwnInv, SlotInv, TypeOK, WorkerTypeOK, PlatformTypeOK, Tables, GorType,
         Containers, ContFits, Wait, StopExpired, MarkExpired, At
<1>2. /\ gor[g].cid # NoCont /\ Started(gor[g].cid, t)
      /\ rows[t].status = "absent" \/ rows[t].cid = gor[g].cid
  BY <1>1 DEF GorCid, WatchPCs
<1>3. CASE Wait(g)
  <2>1. rows' = rows /\ ws' = ws
    BY <1>3 DEF Wait
  <2>2. \/ conts[gor[g].cid].st = "exited0" /\ Goto(g, "recheck")
        \/ conts[gor[g].cid].st \in {"failed", "removed"} /\ Leave(g, TRUE)
        \/ faults' # 0 /\ Leave(g, TRUE)
        \/ Goto(g, "stopc")
    BY <1>1, <1>3, FaultNoted DEF Wait
  <2>3. CASE Leave(g, TRUE)
    <3>1. /\ GorCid(g)' /\ gor'[g].pc \in {"idle", "markfail", "remove"} /\ ~Settling(g)'
      BY <1>1, <2>3, LeaveCid
    <3>2. faults' = 0 => rows[t].status = "absent" \/ Quiet(rows[t].cid) \/ gor'[g].pc # "idle"
      <4>1. CASE Goto(g, "recheck") \/ Goto(g, "stopc")
        BY <1>1, <4>1, GotoFacts
      <4>2. Started(gor[g].cid, t) /\ conts[gor[g].cid].st \in {"failed", "removed"}
              => Quiet(gor[g].cid)
        BY DEF Started, Quiet
      <4> QED
        BY <1>2, <2>2, <4>1, <4>2
    <3>3. faults' = 0 /\ gor'[g].pc = "idle" => ~Alive(t)'
      BY <1>1, <2>1, <3>2, NotAlive
    <3> QED
      BY <2>1, <3>1, <3>3 DEF WorkMoves, EarlyPCs, InputKept
  <2>4. CASE conts[gor[g].cid].st = "exited0" /\ Goto(g, "recheck")
    <3>1. Quiet(gor[g].cid)
      BY <1>2, <2>4 DEF Started, Quiet
    <3>2. GorCid(g)' /\ gor'[g].pc = "recheck"
      BY <1>1, <1>2, <2>1, <2>4, <3>1, GotoCid DEF WatchPCs, SavePCs
    <3> QED
      BY <2>1, <3>2 DEF WorkMoves, EarlyPCs, InputKept, Settling
  <2>5. CASE Goto(g, "stopc")
    <3>1. GorCid(g)' /\ gor'[g].pc = "stopc"
      BY <1>1, <1>2, <2>1, <2>5, GotoCid DEF WatchPCs, SavePCs
    <3> QED
      BY <2>1, <3>1 DEF WorkMoves, EarlyPCs, InputKept, Settling
  <2> QED
    BY <2>2, <2>3, <2>4, <2>5
<1>4. CASE StopExpired(g)
  <2>1. rows' = rows /\ Goto(g, "marks") /\ \A u \in Tasks : InputKept(u)
    BY <1>1, <1>4, StoppedMoves DEF StopExpired, InputKept
  <2>2. GorCid(g)' /\ gor'[g].pc = "marks"
    BY <1>1, <1>2, <2>1, GotoCid DEF WatchPCs, SavePCs
  <2> QED
    BY <2>1, <2>2 DEF WorkMoves, EarlyPCs, Settling
<1>5. CASE MarkExpired(g)
  <2>1. /\ ws' = ws /\ Leave(g, TRUE)
        /\ rows' = SetStatus(rows, t, "stopped") \/ (rows' = rows /\ faults' # 0)
    BY <1>1, <1>5, FaultNoted DEF MarkExpired, MarkStopped
  <2>2. /\ GorCid(g)' /\ gor'[g].pc \in {"idle", "markfail", "remove"} /\ ~Settling(g)'
    BY <1>1, <2>1, LeaveCid
  <2>3. /\ rows'[t].cid = rows[t].cid /\ (faults' = 0 => rows'[t].status # "running")
        /\ rows'[t].status = "running" => rows[t].status = "running"
    BY <1>1, <2>1, StatusMark
  <2>4. faults' = 0 => ~Alive(t)'
    BY <2>3 DEF Alive
  <2> QED
    BY <2>1, <2>2, <2>3, <2>4 DEF WorkMoves, EarlyPCs, InputKept
<1> QED
  BY <1>3, <1>4, <1>5

\* From the check of the status to the mark "completed".
LEMMA SaveStep ==
  ASSUME OwnInv, Containers, ContsMove, NEW g \in Goroutines,
         NEW t \in Tasks, t = gor[g].task, Recheck(g) \/ Upload(g) \/ Complete(g)
  PROVE  WorkMoves(g, t)
<1>1. /\ GorType /\ GorCid(g) /\ rows \in Tables /\ CidFits(t) /\ RowFits(t) /\ Runs(g, t)
      /\ gor[g].pc \in SavePCs /\ ws' = ws
  BY DEF OwnInv, SlotInv, TypeOK, WorkerTypeOK, PlatformTypeOK, Tables, GorType, Ownership,
         Owned, Runs, Containers, ContFits, Recheck, Upload, Complete, At, SavePCs
<1>2. /\ gor[g].cid # NoCont /\ Started(gor[g].cid, t) /\ Quiet(gor[g].cid)
      /\ rows[t].status = "absent" \/ rows[t].cid = gor[g].cid
  BY <1>1 DEF GorCid, WatchPCs, SavePCs
<1>3. /\ rows'[t].cid = rows[t].cid
      /\ rows'[t].status = "absent" <=> rows[t].status = "absent"
      /\ rows'[t].status = "running" => rows[t].status = "running"
  <2>1. rows' = rows \/ \E p : rows' = MarkCompleted(rows, t, p)
    BY DEF Recheck, Upload, Complete
  <2> QED
    BY <1>1, <2>1, CompletedMark
<1>4. ~Alive(t)'
  <2>1. CASE rows[t].status = "absent"
    BY <1>3, <2>1 DEF Alive
  <2>2. CASE rows[t].cid = gor[g].cid
    BY <1>2, <1>3, <2>2, <1>1, NotAlive
  <2> QED
    BY <1>2, <2>1, <2>2
<1> SUFFICES GorCid(g)' /\ gor'[g].pc \notin EarlyPCs /\ (Settling(g)' => rows'[t].status # "running")
  BY <1>1, <1>3, <1>4 DEF WorkMoves, InputKept
<1>5. ASSUME NEW err \in BOOLEAN, Leave(g, err), err \/ rows'[t].status # "running"
      PROVE  GorCid(g)' /\ gor'[g].pc \notin EarlyPCs
             /\ (Settling(g)' => rows'[t].status # "running")
  BY <1>1, <1>5, LeaveCid DEF EarlyPCs, SavePCs
<1>6. CASE Recheck(g)
  <2>1. \/ UNCHANGED gor
        \/ Leave(g, FALSE) /\ rows[t].status = "stopped"
        \/ Leave(g, TRUE)
        \/ Goto(g, "upload")
    BY <1>6 DEF Recheck
  <2>2. rows' = rows
    BY <1>6 DEF Recheck
  <2>3. CASE UNCHANGED gor
    <3>1. GorCid(g)'
      BY <1>1, <1>3, <2>2, <2>3, CidKept
    <3> QED
      BY <1>1, <2>3, <3>1 DEF SavePCs, EarlyPCs, Settling
  <2>4. CASE Goto(g, "upload")
    BY <1>1, <1>2, <2>2, <2>4, GotoCid DEF WatchPCs, SavePCs, EarlyPCs, Settling
  <2> QED
    BY <1>5, <2>1, <2>2, <2>3, <2>4
<1>7. CASE Upload(g)
  <2>1. rows' = rows
    BY <1>7 DEF Upload
  <2>2. ASSUME NEW f \in Files, gor' = [gor EXCEPT ![g].pc = "complete", ![g].path = <<t, f>>]
        PROVE  GorCid(g)' /\ gor'[g].pc \notin EarlyPCs /\ ~Settling(g)'
    <3>1. gor'[g].pc = "complete" /\ gor'[g].task = gor[g].task /\ gor'[g].cid = gor[g].cid
      BY <1>1, <2>2 DEF GorType, Goroutine
    <3>2. Started(gor[g].cid, gor[g].task)' /\ Quiet(gor[g].cid)'
      BY <1>2, <3>1, StartedKept DEF Started, Quiet
    <3> QED
      BY <1>2, <2>1, <3>1, <3>2 DEF GorCid, EarlyPCs, Settling
  <2>3. Leave(g, TRUE) \/ \E f \in Files :
          gor' = [gor EXCEPT ![g].pc = "complete", ![g].path = <<t, f>>]
    BY <1>7 DEF Upload, Results
  <2> QED
    BY <1>5, <2>2, <2>3
<1>8. CASE Complete(g)
  <2>1. \/ rows' = MarkCompleted(rows, t, gor[g].path) /\ Leave(g, ~Exists(rows, t))
        \/ Leave(g, TRUE)
    BY <1>8 DEF Complete
  <2>2. rows' = MarkCompleted(rows, t, gor[g].path) => rows'[t].status # "running"
    BY <1>1, CompletedMark
  <2>3. Leave(g, ~Exists(rows, t)) => Leave(g, TRUE) \/ Leave(g, FALSE)
    BY DEF Exists
  <2> QED
    BY <1>5, <2>1, <2>2, <2>3
<1> QED
  BY <1>6, <1>7, <1>8

\* The deferred calls settle the row before the directory is removed.
LEMMA DeferredStep ==
  ASSUME OwnInv, Containers, ContsMove, (faults' = 0 => faults = 0), NEW g \in Goroutines,
         NEW t \in Tasks, t = gor[g].task, RemoveCont(g) \/ MarkFail(g) \/ Finish(g)
  PROVE  WorkMoves(g, t)
<1>1. /\ GorType /\ GorCid(g) /\ rows \in Tables /\ CidFits(t) /\ RowFits(t) /\ Runs(g, t)
      /\ Calm(t) /\ PlatformTypeOK
  BY DEF OwnInv, SlotInv, TypeOK, WorkerTypeOK, PlatformTypeOK, Tables, GorType, Ownership,
         Owned, Runs, Containers, ContFits, RemoveCont, MarkFail, Finish, At
<1>2. CASE RemoveCont(g)
  <2>1. /\ gor[g].pc = "remove" /\ rows' = rows /\ ws' = ws
        /\ Goto(g, IF gor[g].err THEN "markfail" ELSE "cleanup")
    BY <1>2 DEF RemoveCont, At
  <2>2. GorCid(g)' /\ gor'[g].pc = IF gor[g].err THEN "markfail" ELSE "cleanup"
    BY <1>1, <2>1, GotoCid DEF WatchPCs, SavePCs
  <2>3. Settling(g)' => Settling(g)
    BY <2>1, <2>2 DEF Settling
  <2>4. faults' = 0 /\ Settling(g) => rows[t].status # "running"
    BY <1>1 DEF Calm, CalmFits
  <2> QED
    BY <2>1, <2>2, <2>3, <2>4 DEF WorkMoves, EarlyPCs, InputKept
<1>3. CASE MarkFail(g)
  <2>1. /\ gor[g].pc = "markfail" /\ ws' = ws /\ Goto(g, "cleanup")
        /\ rows' = MarkFailed(rows, t) \/ (rows' = rows /\ faults' # 0)
    BY <1>1, <1>3, FaultNoted DEF MarkFail, At
  <2>2. GorCid(g)' /\ gor'[g].pc = "cleanup"
    BY <1>1, <2>1, GotoCid DEF WatchPCs, SavePCs
  <2>3. /\ rows'[t].cid = rows[t].cid
        /\ rows'[t].status = "running" => rows[t].status = "running"
    BY <1>1, <2>1, StatusMark DEF MarkFailed
  <2>4. rows' = MarkFailed(rows, t) => rows'[t].status # "running"
    BY <1>1, StatusMark DEF MarkFailed
  <2> QED
    BY <2>1, <2>2, <2>3, <2>4 DEF WorkMoves, EarlyPCs, InputKept
<1>4. CASE Finish(g)
  <2>1. gor[g].pc = "cleanup" /\ rows' = rows /\ gor' = [gor EXCEPT ![g] = Idle]
    BY <1>4 DEF Finish, At
  <2>2. gor'[g].pc = "idle"
    BY <1>1, <2>1 DEF GorType, Idle
  <2>3. Settling(g)
    BY <2>1 DEF Settling
  <2>4. faults' = 0 => rows[t].status # "running"
    BY <1>1, <2>3 DEF Calm, CalmFits
  <2>5. faults' = 0 => ~Alive(t)'
    BY <2>1, <2>4 DEF Alive
  <2> QED
    BY <2>1, <2>2, <2>5 DEF WorkMoves, EarlyPCs, InputKept, Settling, GorCid
<1> QED
  BY <1>2, <1>3, <1>4

\* A step of a goroutine: it has its task, and nobody else has.
LEMMA StepFits ==
  ASSUME ContInv, Moves, NEW g \in Goroutines, Step(g), WorkerFrame
  PROVE  Containers'
<1> PICK t \in Tasks : t = gor[g].task
  BY StepMoves DEF ContInv
<1>1. /\ Up /\ gor[g].pc # "idle" /\ phase' \in {phase, "panicked"}
      /\ UNCHANGED <<worker, recoverQ, rescue, sweep, run, stop, del, deletions>>
      /\ RowMoves(t) /\ GorMoves(g)
  BY StepMoves DEF ContInv, WorkerFrame, gcVars, apiVars, histVars
<1>2. /\ WorkMoves(g, t) /\ ContsMove /\ (faults' = 0 => faults = 0)
  BY EarlyStep, MarkStep, WaitStep, SaveStep, DeferredStep DEF Step, ContInv, Moves
<1>3. /\ ContFits(t) /\ Owned(t) /\ Runs(g, t) /\ GoroutinesOK /\ Listed
      /\ GcTypeOK /\ PlatformTypeOK
      /\ \A h \in Goroutines : GorCid(h)
  BY <1>1 DEF ContInv, OwnInv, SlotInv, TypeOK, Handles, Ownership, Containers, Runs
<1>4. /\ ~InHand(t) /\ ~InRecoverQ(t) /\ ~Pending(t) /\ rescue[t].pc = "idle" /\ InHands(t)
      /\ \A h \in Goroutines \ {g} : ~Runs(h, t) /\ gor'[h] = gor[h]
      /\ rows[t].status \in Over
  BY <1>1, <1>3 DEF Owned, OneHand, RowFits, RescueFits, InHands, GorMoves, Over, Up
<1>5. phase' # "gc" /\ phase' # "down"
  BY <1>1 DEF Up
<1>6. \A h \in Goroutines : Runs(h, t)' => h = g
  BY <1>4 DEF Runs
<1>7. ~InHand(t)' /\ ~InRecoverQ(t)'
  BY <1>1, <1>4 DEF InHand, InRecoverQ
<1>8. rows'[t].status \in Over
  BY <1>1, <1>4 DEF RowMoves, SameRow, BecomesRunning, BecomesCompleted, BecomesFailed,
                    BecomesStopped, Over, Open
<1>9. Early(t)' => gor[g].pc \in EarlyPCs /\ rows'[t] = rows[t]
  BY <1>2, <1>6, <1>7, <1>8 DEF Early, WorkMoves, Over, Open
<1>10. CidFits(t)'
  <2>1. rows'[t].cid # NoCont => Started(rows[t].cid, t)'
    <3>1. CASE rows'[t].cid = rows[t].cid
      BY <1>2, <1>3, <3>1, StartedKept DEF ContFits, CidFits, Started
    <3>2. CASE gor[g].pc = "markrun" /\ rows'[t].cid = gor[g].cid
      BY <1>1, <1>2, <1>3, <3>2, StartedKept DEF GorCid, Started
    <3> QED
      BY <1>2, <3>1, <3>2 DEF WorkMoves
  <2>2. \A i \in 1 .. Len(recoverQ') : recoverQ'[i].task # t
    BY <1>7 DEF InRecoverQ
  <2>3. stop[t].pc \in {"mark", "stop"} => Started(stop[t].cid, t)'
    BY <1>1, <1>2, <1>3, StartedKept DEF ContFits, CidFits, Started
  <2> QED
    BY <1>1, <1>4, <2>1, <2>2, <2>3 DEF CidFits
<1>11. Calm(t)'
  <2> SUFFICES ASSUME faults' = 0 PROVE CalmFits(t)'
    BY DEF Calm
  <2>1. CalmFits(t)
    BY <1>2, <1>3 DEF ContFits, Calm
  <2>2. Early(t)' => rows'[t].cid = NoCont \/ Quiet(rows[t].cid)'
    <3>1. Early(t)' => Early(t) /\ rows'[t] = rows[t]
      BY <1>3, <1>9 DEF Early
    <3> QED
      BY <1>2, <2>1, <3>1, StartedKept DEF CalmFits, Quiet
  <2>3. \A h \in Goroutines : Runs(h, t)' /\ Settling(h)' => rows'[t].status # "running"
    BY <1>2, <1>6 DEF WorkMoves
  <2>4. Alive(t)' => LookedAfter(t)'
    <3>1. CASE gor'[g].pc = "idle"
      BY <1>2, <3>1 DEF WorkMoves
    <3>2. CASE gor'[g].pc # "idle"
      BY <1>1, <3>2 DEF GorMoves, LookedAfter, InHands, Runs
    <3> QED
      BY <3>1, <3>2
  <2> QED
    BY <1>1, <1>4, <2>2, <2>3, <2>4 DEF CalmFits
<1>12. InputFits(t)'
  <2>1. /\ faults' = 0 /\ t \notin deletions' /\ NeedsInput(t)' => "input" \in ws'[t]
    <3> SUFFICES ASSUME faults = 0, t \notin deletions, NeedsInput(t)'
                 PROVE  gor[g].pc # "cleanup" /\ "input" \in ws[t]
      BY <1>1, <1>2 DEF WorkMoves, InputKept
    <3>1. run[t].pc \notin {"image", "cache", "insert"}
      BY <1>4 DEF Pending
    <3>2. rows'[t].status = "running" \/ Early(t)'
      BY <1>1, <1>8, <3>1 DEF NeedsInput, ActiveStatus, Over, Open
    <3>3. gor[g].pc \in EarlyPCs \/ rows[t].status = "running"
      BY <1>2, <1>9, <3>2 DEF WorkMoves, EarlyPCs
    <3>4. NeedsInput(t)
      BY <1>3, <3>3 DEF NeedsInput, ActiveStatus, Early
    <3>5. gor[g].pc # "cleanup"
      <4>1. gor[g].pc = "cleanup" => rows[t].status # "running"
        BY <1>3 DEF ContFits, Calm, CalmFits, Settling
      <4> QED
        BY <3>3, <4>1 DEF EarlyPCs
    <3> QED
      BY <1>3, <3>4, <3>5 DEF ContFits, InputFits
  <2>2. faults' = 0 => run[t].pc \notin {"hit", "undo"}
    BY <1>2, <1>3, <1>4 DEF ContFits, InputFits
  <2> QED
    BY <1>1, <1>3, <1>5, <2>1, <2>2 DEF ContFits, InputFits
<1>13. ContFits(t)'
  BY <1>5, <1>10, <1>11, <1>12 DEF ContFits, OrphansFit
<1>14. ASSUME NEW u \in Tasks \ {t} PROVE ContFits(u)'
  <2>1. /\ rows'[u] = rows[u] /\ (InHand(u)' <=> InHand(u))
        /\ (InRecoverQ(u)' <=> InRecoverQ(u))
        /\ \A h \in Goroutines : Runs(h, u)' <=> Runs(h, u)
        /\ \A h \in Goroutines : Runs(h, u)' => gor'[h] = gor[h]
    BY <1>1 DEF RowMoves, OthersKept, GorMoves, Runs, InHand, InRecoverQ
  <2>2. Kept(u)
    BY <1>1, <2>1 DEF Kept, HandsSame, InHands
  <2>3. InputKept(u)
    <3>1. CASE gor[g].pc # "cleanup"
      BY <1>2, <3>1 DEF WorkMoves
    <3>2. CASE gor[g].pc = "cleanup"
      <4>1. Finish(g)
        BY <3>2 DEF Step, Check, Start, StartFails, StartCutShort, MarkRun, Wait, StopExpired,
                    MarkExpired, Recheck, Upload, Complete, RemoveCont, MarkFail, At
      <4> QED
        BY <1>3, <4>1 DEF Finish, Cleaned, InputKept, PlatformTypeOK
    <3> QED
      BY <3>1, <3>2
  <2>4. ContFits(u)
    BY DEF ContInv, Containers
  <2> QED
    BY <1>1, <1>3, <2>2, <2>3, <2>4, FrameFits
<1>15. ASSUME NEW h \in Goroutines PROVE GorCid(h)'
  <2>1. CASE h = g
    BY <1>2, <2>1 DEF WorkMoves
  <2>2. CASE h # g
    <3>1. gor'[h] = gor[h] /\ (gor[h].pc # "idle" => gor[h].task \in Tasks \ {t})
      BY <1>3, <1>4, <2>2 DEF GoroutinesOK, Runs
    <3>2. gor[h].pc # "idle" => rows'[gor[h].task] = rows[gor[h].task]
      BY <1>1, <3>1 DEF RowMoves, OthersKept
    <3> QED
      BY <1>2, <1>3, <3>1, <3>2, CidKept
  <2> QED
    BY <2>1, <2>2
<1> QED
  BY <1>5, <1>13, <1>14, <1>15 DEF Containers, Listed

-----------------------------------------------------------------------------
(* The loop *)

\* What a step that writes no container id does to the goroutines' ids.
LEMMA CidsStay ==
  ASSUME ContInv, ContsMove, UNCHANGED gor,
         \A u \in Tasks : \/ rows'[u].status = "absent"
                          \/ rows[u].status # "absent" /\ rows'[u].cid = rows[u].cid
                          \/ Pending(u)
  PROVE  \A g \in Goroutines : GorCid(g)'
<1> SUFFICES ASSUME NEW g \in Goroutines PROVE GorCid(g)'
  OBVIOUS
<1>1. GorCid(g) /\ (gor[g].pc # "idle" => gor[g].task \in Tasks /\ ~Pending(gor[g].task))
  <2>1. ASSUME gor[g].pc # "idle" PROVE gor[g].task \in Tasks /\ ~Pending(gor[g].task)
    <3>1. PICK t \in Tasks : t = gor[g].task
      BY <2>1 DEF ContInv, OwnInv, SlotInv, Handles, GoroutinesOK
    <3>2. RowFits(t) /\ InHands(t)
      BY <2>1, <3>1 DEF ContInv, OwnInv, Ownership, Owned, InHands, Runs
    <3> QED
      BY <3>1, <3>2 DEF RowFits
  <2> QED
    BY <2>1 DEF ContInv, Containers
<1> QED
  BY <1>1, CidKept

\* A step that gives a task to the next pair of hands, or lets go of it.
LEMMA PassedFits ==
  ASSUME ContInv, Moves, Up, NEW t \in Tasks, UNCHANGED <<phase, rescue, run, stop, del>>,
         InputKept(t), rows'[t].cid = rows[t].cid,
         rows[t].status = "absent" => rows'[t].status = "absent",
         \A i \in 1 .. Len(recoverQ') : recoverQ'[i].task = t =>
           \E j \in 1 .. Len(recoverQ) : recoverQ[j] = recoverQ'[i],
         Early(t)' => Early(t), Early(t) \/ InHands(t)',
         InHands(t) \/ rows[t].status = "queued",
         rows'[t].status \in ActiveStatus => NeedsInput(t),
         \A g \in Goroutines : Runs(g, t)' => ~Settling(g)'
  PROVE  ContFits(t)'
<1>1. /\ CidFits(t) /\ Calm(t) /\ InputFits(t) /\ ContsMove /\ (faults' = 0 => faults = 0)
      /\ rescue[t].pc = "idle" /\ phase' # "gc" /\ phase' # "down"
      /\ ~Pending(t) /\ deletions \subseteq deletions'
  <2>1. Owned(t) /\ NoRow.status = "absent"
    BY DEF ContInv, OwnInv, Ownership, NoRow
  <2> QED
    BY <2>1 DEF ContInv, Containers, ContFits, Moves, Owned, RescueFits, RowFits, Up
<1>2. CidFits(t)'
  BY <1>1, StartedKept DEF CidFits
<1>3. Calm(t)'
  <2> SUFFICES ASSUME faults' = 0 PROVE CalmFits(t)'
    BY DEF Calm
  <2>1. CalmFits(t)
    BY <1>1 DEF Calm
  <2>2. Early(t) => rows[t].cid = NoCont \/ Quiet(rows[t].cid)
    BY <2>1 DEF CalmFits
  <2>3. Early(t) => ~Alive(t)'
    BY <1>1, <2>2, NotAlive
  <2>4. Early(t)' => rows'[t].cid = NoCont \/ Quiet(rows[t].cid)'
    BY <1>1, <2>2, StartedKept DEF Quiet
  <2>5. Alive(t)' => LookedAfter(t)'
    BY <2>3 DEF LookedAfter
  <2> QED
    BY <1>1, <2>4, <2>5 DEF CalmFits
<1>4. InputFits(t)'
  <2>1. NeedsInput(t)' => NeedsInput(t)
    BY <1>1 DEF NeedsInput, Pending
  <2>2. faults = 0 => run[t].pc \notin {"hit", "undo"}
    BY <1>1 DEF InputFits, ActiveStatus
  <2> QED
    BY <1>1, <2>1, <2>2 DEF InputFits, InputKept
<1> QED
  BY <1>1, <1>2, <1>3, <1>4 DEF ContFits, OrphansFit

\* The timeout of a task, and the steps of the loop that take no task and let go of
\* none.
LEMMA QuietLoopFits ==
  ASSUME ContInv, Moves, WorkerFrame,
         \/ Tick \/ NoSlot \/ TakeSlot \/ LookupHit \/ Drain \/ FillSlot \/ Drained
         \/ \E g \in Goroutines : Expire(g)
  PROVE  Containers'
<1>1. /\ Up /\ UNCHANGED <<rows, conts, ws, phase, recoverQ, rescue, sweep, run, stop, del>>
  BY DEF Tick, NoSlot, TakeSlot, LookupHit, Drain, FillSlot, Drained, Expire, Closing, Up,
         platformVars, WorkerFrame, gcVars, apiVars
<1>2. worker \in [pc : LoopPCs, task : Tasks \cup {NoTask},
                  path : Paths \cup {NoPath}, filled : Nat]
      /\ gor \in [Goroutines -> Goroutine] /\ GcTypeOK
  BY DEF ContInv, OwnInv, SlotInv, TypeOK, WorkerTypeOK
<1>3. \A u \in Tasks : InHand(u)' <=> InHand(u)
  <2>1. CASE UNCHANGED worker
    BY <2>1 DEF InHand
  <2>2. CASE LookupHit
    BY <1>2, <2>2 DEF LookupHit, InHand
  <2>3. CASE Tick \/ NoSlot \/ TakeSlot \/ Drain \/ FillSlot \/ Drained
    BY <1>2, <2>3 DEF Tick, NoSlot, TakeSlot, Drain, FillSlot, Drained, To, LoopStart, InHand
  <2> QED
    BY <2>1, <2>2, <2>3 DEF Expire
<1>4. \A g \in Goroutines : /\ gor'[g].pc = gor[g].pc /\ gor'[g].task = gor[g].task
                            /\ gor'[g].cid = gor[g].cid /\ gor'[g].err = gor[g].err
  <2>1. CASE UNCHANGED gor
    BY <2>1
  <2>2. ASSUME NEW g \in Goroutines, Expire(g)
        PROVE  \A h \in Goroutines : /\ gor'[h].pc = gor[h].pc /\ gor'[h].task = gor[h].task
                                     /\ gor'[h].cid = gor[h].cid /\ gor'[h].err = gor[h].err
    BY <1>2, <2>2 DEF Expire, Goroutine
  <2> QED
    BY <2>1, <2>2 DEF Tick, NoSlot, TakeSlot, LookupHit, Drain, FillSlot, Drained
<1>5. ASSUME NEW u \in Tasks PROVE ContFits(u)'
  <2>1. \A g \in Goroutines : Runs(g, u)' <=> Runs(g, u)
    BY <1>4 DEF Runs
  <2>2. InRecoverQ(u)' <=> InRecoverQ(u)
    BY <1>1 DEF InRecoverQ
  <2>3. Kept(u) /\ InputKept(u)
    BY <1>1, <1>3, <1>4, <2>1, <2>2 DEF Kept, HandsSame, InHands, InputKept
  <2> QED
    BY <1>1, <1>2, <2>3, FrameFits DEF ContInv, Containers
<1>6. ASSUME NEW g \in Goroutines PROVE GorCid(g)'
  <2>1. GorCid(g) /\ ContsMove
    BY DEF ContInv, Containers, Moves
  <2> QED
    BY <1>1, <1>4, <2>1, CidKept
<1> QED
  BY <1>1, <1>5, <1>6 DEF Containers, Listed, Up

\* The tasks that neither the loop nor a goroutine passes on.
LEMMA OthersFit ==
  ASSUME ContInv, Moves, Up, UNCHANGED <<phase, rescue, sweep, run, stop, del, ws>>,
         NEW t \in Tasks, OthersKept(t), ContFits(t)',
         \A u \in Tasks \ {t} : HandsSame(u)
  PROVE  (\A u \in Tasks : ContFits(u)') /\ Listed'
<1>1. ASSUME NEW u \in Tasks \ {t} PROVE ContFits(u)'
  <2>1. ContFits(u) /\ Listed /\ GcTypeOK
    BY DEF ContInv, Containers, OwnInv, SlotInv, TypeOK
  <2>2. Kept(u) /\ InputKept(u)
    BY DEF Kept, OthersKept, InputKept
  <2> QED
    BY <2>1, <2>2, FrameFits
<1> QED
  BY <1>1 DEF Listed, Up

\* The claim: the task waited in the queue.
LEMMA ClaimFits ==
  ASSUME ContInv, Moves, WorkerFrame, Claim
  PROVE  Containers'
<1>1. /\ Up /\ worker.pc = "claim" /\ rows \in Tables /\ GcTypeOK
      /\ UNCHANGED <<conts, ws, phase, recoverQ, gor, rescue, sweep, run, stop, del>>
  BY DEF Claim, WorkerFrame, ContInv, OwnInv, SlotInv, TypeOK, PlatformTypeOK, Tables,
         gcVars, apiVars
<1>2. Return => worker'.pc = "tick"
  BY DEF Return, To, LoopStart
<1>3. /\ \A u \in Tasks, g \in Goroutines : Runs(g, u)' <=> Runs(g, u)
      /\ \A u \in Tasks : ~InHand(u) /\ (InRecoverQ(u)' <=> InRecoverQ(u))
  BY <1>1 DEF Runs, InHand, InRecoverQ
<1>4. ASSUME NEW u \in Tasks, ~InHand(u)' PROVE HandsSame(u)
  BY <1>1, <1>3, <1>4 DEF HandsSame, InHands
<1>5. CASE UNCHANGED rows /\ Return
  <2>1. ASSUME NEW u \in Tasks PROVE ContFits(u)'
    <3>1. Kept(u) /\ InputKept(u) /\ ContFits(u) /\ Listed
      BY <1>1, <1>2, <1>4, <1>5 DEF Kept, InputKept, InHand, ContInv, Containers
    <3> QED
      BY <1>1, <3>1, FrameFits
  <2>2. \A g \in Goroutines : GorCid(g)'
    BY <1>1, <1>5, CidsStay DEF Moves
  <2> QED
    BY <1>1, <2>1, <2>2 DEF Containers, Listed, Up
<1>6. ASSUME NEW t \in NextQueued(rows, clock), rows' = Claimed(rows, t),
             worker' = [To("lookup") EXCEPT !.task = t] \/ Return
      PROVE  Containers'
  <2>1. t \in Tasks /\ rows[t].status = "queued"
    BY <1>6, NextQueuedIsQueued
  <2>2. /\ OthersKept(t) /\ rows'[t].cid = rows[t].cid
        /\ rows'[t].status = "running"
    BY <1>1, <1>6, <2>1, StatusMark DEF Claimed, OthersKept
  <2>3. worker'.pc \in {"lookup", "tick"} /\ (worker'.pc = "lookup" => worker'.task = t)
    BY <1>2, <1>6 DEF To, LoopStart
  <2>4. Early(t) /\ \A g \in Goroutines : ~Runs(g, t)
    <3>1. RowFits(t)
      BY <2>1 DEF ContInv, OwnInv, Ownership, Owned
    <3> QED
      BY <2>1, <3>1 DEF RowFits, Early, Over, Open
  <2>5. ContFits(t)'
    BY <1>1, <1>3, <2>1, <2>2, <2>4, PassedFits DEF InputKept, NeedsInput
  <2>6. \A u \in Tasks \ {t} : HandsSame(u)
    BY <1>4, <2>3 DEF InHand
  <2>7. \A g \in Goroutines : GorCid(g)'
    BY <1>1, <2>1, <2>2, CidsStay DEF Moves, OthersKept
  <2> QED
    BY <1>1, <2>1, <2>2, <2>5, <2>6, <2>7, OthersFit DEF Containers
<1> QED
  BY <1>5, <1>6 DEF Claim

\* A hit is written, or not: the loop lets go of the task.
LEMMA MarkCachedFits ==
  ASSUME ContInv, Moves, WorkerFrame, MarkCached
  PROVE  Containers'
<1> PICK t \in Tasks : t = worker.task
  BY DEF ContInv, OwnInv, SlotInv, Handles, LoopHands, MarkCached
<1>1. /\ Up /\ worker.pc = "cached" /\ rows \in Tables /\ GcTypeOK
      /\ UNCHANGED <<conts, ws, phase, recoverQ, gor, rescue, sweep, run, stop, del>>
  BY DEF MarkCached, WorkerFrame, ContInv, OwnInv, SlotInv, TypeOK, PlatformTypeOK, Tables,
         gcVars, apiVars
<1>2. worker'.pc = "tick"
  BY DEF MarkCached, Return, To, LoopStart
<1>3. /\ \A u \in Tasks, g \in Goroutines : Runs(g, u)' <=> Runs(g, u)
      /\ \A u \in Tasks : ~InHand(u)' /\ (InRecoverQ(u)' <=> InRecoverQ(u))
  BY <1>1, <1>2 DEF Runs, InHand, InRecoverQ
<1>4. InHand(t) /\ \A g \in Goroutines : ~Runs(g, t)
  BY <1>1 DEF InHand, ContInv, OwnInv, Ownership, Owned, OneHand
<1>5. rows[t].status \in Open
  BY <1>4 DEF ContInv, OwnInv, Ownership, Owned, RowFits
<1>6. rows' = rows \/ rows' = MarkCompleted(rows, t, worker.path)
  BY DEF MarkCached
<1>7. /\ OthersKept(t) /\ rows'[t].cid = rows[t].cid
      /\ rows'[t].status \in {rows[t].status, "completed"}
      /\ rows[t].status = "absent" <=> rows'[t].status = "absent"
  BY <1>1, <1>6, CompletedMark DEF OthersKept
<1>8. ContFits(t)'
  BY <1>1, <1>3, <1>4, <1>5, <1>7, PassedFits
     DEF InputKept, NeedsInput, Early, InHands, Open, ActiveStatus
<1>9. \A u \in Tasks \ {t} : HandsSame(u)
  BY <1>1, <1>3 DEF HandsSame, InHands, InHand
<1>10. \A g \in Goroutines : GorCid(g)'
  BY <1>1, <1>7, CidsStay DEF Moves, OthersKept
<1> QED
  BY <1>1, <1>7, <1>8, <1>9, <1>10, OthersFit DEF Containers

\* The goroutine a step of the loop starts has its task to itself.
LEMMA StartedCids ==
  ASSUME ContInv, ContsMove, UNCHANGED rows, NEW g \in Goroutines,
         \A h \in Goroutines \ {g} : gor'[h] = gor[h], GorCid(g)'
  PROVE  \A h \in Goroutines : GorCid(h)'
  BY CidKept DEF ContInv, Containers

\* The loop gives the claimed task to a goroutine.
LEMMA StartTaskFits ==
  ASSUME ContInv, Moves, WorkerFrame, NEW g \in Goroutines, StartTask(g)
  PROVE  Containers'
<1> PICK t \in Tasks : t = worker.task
  BY DEF ContInv, OwnInv, SlotInv, Handles, LoopHands, StartTask
<1>1. /\ Up /\ worker.pc = "lookup" /\ gor[g].pc = "idle" /\ GcTypeOK
      /\ gor \in [Goroutines -> Goroutine]
      /\ UNCHANGED <<rows, conts, ws, phase, recoverQ, rescue, sweep, run, stop, del>>
  BY DEF StartTask, WorkerFrame, ContInv, OwnInv, SlotInv, TypeOK, WorkerTypeOK,
         gcVars, apiVars
<1>2. /\ \A h \in Goroutines \ {g} : gor'[h] = gor[h]
      /\ gor'[g].pc = "check" /\ gor'[g].task = t /\ gor'[g].cid = NoCont
      /\ worker'.pc = "loop"
  BY <1>1 DEF StartTask, Spawned, To, LoopStart
<1>3. InHand(t) /\ \A h \in Goroutines : ~Runs(h, t)
  BY <1>1 DEF InHand, ContInv, OwnInv, Ownership, Owned, OneHand
<1>4. /\ \A u \in Tasks : ~InHand(u)' /\ (InRecoverQ(u)' <=> InRecoverQ(u))
      /\ \A u \in Tasks \ {t} : ~InHand(u)
      /\ \A u \in Tasks \ {t} : \A h \in Goroutines : Runs(h, u)' <=> Runs(h, u)
      /\ \A h \in Goroutines : Runs(h, t)' => h = g
  BY <1>1, <1>2, <1>3 DEF Runs, InHand, InRecoverQ
<1>5. Early(t)
  BY <1>3 DEF Early
<1>6. rows[t].status \in ActiveStatus => NeedsInput(t)
  BY DEF NeedsInput
<1>7. ContFits(t)'
  BY <1>1, <1>2, <1>3, <1>4, <1>5, <1>6, PassedFits DEF InputKept, InHands, Settling
<1>8. \A u \in Tasks \ {t} : HandsSame(u)
  BY <1>1, <1>2, <1>4 DEF HandsSame, InHands, Runs
<1>9. GorCid(g)'
  BY <1>2 DEF GorCid, WatchPCs, SavePCs
<1>10. \A h \in Goroutines : GorCid(h)'
  BY <1>1, <1>2, <1>9, StartedCids DEF Moves
<1> QED
  BY <1>1, <1>7, <1>8, <1>10, OthersFit DEF Containers, OthersKept

\* What is left of a queue was in it.
LEMMA TailIsPart ==
  ASSUME recoverQ \in Seq([task : Tasks, cid : Conts]), recoverQ # <<>>,
         recoverQ' = Tail(recoverQ)
  PROVE  /\ 1 \in 1 .. Len(recoverQ) /\ Head(recoverQ) = recoverQ[1]
         /\ recoverQ[1] \in [task : Tasks, cid : Conts]
         /\ \A i \in 1 .. Len(recoverQ') : \E j \in 1 .. Len(recoverQ) : recoverQ[j] = recoverQ'[i]
<1>1. Len(recoverQ) \in Nat /\ Len(recoverQ) > 0 /\ Head(recoverQ) = recoverQ[1]
  BY EmptySeq
<1>2. /\ Head(recoverQ) \in [task : Tasks, cid : Conts]
      /\ Len(recoverQ') = Len(recoverQ) - 1
      /\ \A i \in 1 .. Len(recoverQ') : recoverQ'[i] = recoverQ[i + 1]
  BY HeadTailProperties
<1>3. \A i \in 1 .. Len(recoverQ') : i + 1 \in 1 .. Len(recoverQ)
  BY <1>1, <1>2
<1> QED
  BY <1>1, <1>2, <1>3

\* A task the collector handed over gets its goroutine, which waits for the container
\* of the row.
LEMMA TakeRecoveredFits ==
  ASSUME ContInv, Moves, WorkerFrame, NEW g \in Goroutines, TakeRecovered(g)
  PROVE  Containers'
<1>1. /\ recoverQ \in Seq([task : Tasks, cid : Conts]) /\ recoverQ # <<>>
      /\ recoverQ' = Tail(recoverQ) /\ gor \in [Goroutines -> Goroutine]
      /\ \A u \in Tasks : OnceQueued(u)
  BY DEF TakeRecovered, ContInv, OwnInv, SlotInv, TypeOK, WorkerTypeOK, Ownership, Owned,
         OneHand
<1> PICK t \in Tasks : t = Head(recoverQ).task
  BY <1>1, HeadTaken
<1> PICK c \in Conts : c = Head(recoverQ).cid
  BY <1>1, TailIsPart
<1>2. /\ Up /\ worker.pc = "loop" /\ gor[g].pc = "idle" /\ GcTypeOK
      /\ UNCHANGED <<rows, conts, ws, phase, rescue, sweep, run, stop, del>>
  BY DEF TakeRecovered, WorkerFrame, platformVars, ContInv, OwnInv, SlotInv, TypeOK,
         gcVars, apiVars
<1>3. /\ \A h \in Goroutines \ {g} : gor'[h] = gor[h]
      /\ gor'[g].pc = "wait" /\ gor'[g].task = t /\ gor'[g].cid = c /\ worker'.pc = "tick"
  BY <1>1, <1>2 DEF TakeRecovered, Spawned, To, LoopStart
<1>4. InRecoverQ(t) /\ ~InRecoverQ(t)' /\ \A u \in Tasks \ {t} : InRecoverQ(u)' <=> InRecoverQ(u)
  BY <1>1, HeadTaken
<1>5. ~InHand(t) /\ \A h \in Goroutines : ~Runs(h, t)
  BY <1>4 DEF ContInv, OwnInv, Ownership, Owned, OneHand
<1>6. /\ \A u \in Tasks : ~InHand(u)' /\ ~InHand(u)
      /\ \A u \in Tasks \ {t} : \A h \in Goroutines : Runs(h, u)' <=> Runs(h, u)
      /\ \A h \in Goroutines : Runs(h, t)' => h = g
  BY <1>2, <1>3, <1>5 DEF Runs, InHand
<1>7. ContFits(t)'
  <2>1. Early(t)' => Early(t)
    BY <1>2, <1>3, <1>6 DEF Early, EarlyPCs
  <2>2. InHands(t) /\ InHands(t)' /\ ~Settling(g)'
    BY <1>3, <1>4 DEF InHands, Runs, Settling
  <2>3. rows[t].status \in ActiveStatus => NeedsInput(t)
    BY DEF NeedsInput
  <2> QED
    BY <1>1, <1>2, <1>6, <2>1, <2>2, <2>3, PassedFits, TailIsPart DEF InputKept
<1>8. ASSUME NEW u \in Tasks \ {t} PROVE HandsSame(u)
  BY <1>1, <1>3, <1>4, <1>6, TailIsPart DEF HandsSame, InHands, Runs
<1>9. GorCid(g)'
  <2>1. Started(c, t) /\ (rows[t].status = "absent" \/ rows[t].cid = c) /\ c # NoCont
    <3>1. CidFits(t)
      BY DEF ContInv, Containers, ContFits
    <3>2. NoCont \notin Conts
      BY StoreAssumption
    <3> QED
      BY <1>1, <3>1, <3>2, TailIsPart DEF CidFits
  <2>2. Started(c, t)'
    BY <2>1, StartedKept DEF Moves
  <2> QED
    BY <1>2, <1>3, <2>1, <2>2 DEF GorCid, Started, WatchPCs, SavePCs
<1>10. \A h \in Goroutines : GorCid(h)'
  BY <1>2, <1>3, <1>9, StartedCids DEF Moves
<1> QED
  BY <1>2, <1>7, <1>8, <1>10, OthersFit DEF Containers, OthersKept

\* The worker.
LEMMA WorkerFits ==
  ASSUME ContInv, Moves, WorkerPart
  PROVE  Containers'
<1>1. WorkerFrame
  BY DEF WorkerPart
<1>2. CASE LoopNext
  BY <1>1, <1>2, QuietLoopFits, ClaimFits, MarkCachedFits, StartTaskFits, TakeRecoveredFits
     DEF LoopNext
<1>3. ASSUME NEW g \in Goroutines, Step(g) \/ Expire(g)
      PROVE  Containers'
  BY <1>1, <1>3, StepFits, QuietLoopFits
<1> QED
  BY <1>2, <1>3 DEF WorkerPart, WorkerNext

-----------------------------------------------------------------------------
(* The collector *)

\* After a call of cleanupTask that did not fail, the container of the task runs no
\* more, is looked at next, or is the worker's to wait for.
CleanupSettles(t) ==
  /\ rescue'[t].pc # "idle" => rescue'[t].cid = rescue[t].cid
  /\ rows'[t].cid = rows[t].cid
  /\ faults' = 0 => rescue'[t].pc = "state" \/ InRecoverQ(t)' \/ Quiet(rescue[t].cid)
  /\ rescue[t].pc # "cleanup" => UNCHANGED ws

\* A queue one longer.
LEMMA AppendIsPart ==
  ASSUME recoverQ \in Seq([task : Tasks, cid : Conts]), NEW e \in [task : Tasks, cid : Conts],
         recoverQ' = Append(recoverQ, e)
  PROVE  /\ InRecoverQ(e.task)'
         /\ \A i \in 1 .. Len(recoverQ') :
              recoverQ'[i] = e \/ \E j \in 1 .. Len(recoverQ) : recoverQ[j] = recoverQ'[i]
<1> DEFINE n == Len(recoverQ)
<1>1. /\ n \in Nat /\ Len(recoverQ') = n + 1
      /\ \A i \in 1 .. n : recoverQ'[i] = recoverQ[i]
      /\ recoverQ'[n + 1] = e
  BY LenProperties, AppendProperties
<1>2. /\ n + 1 \in 1 .. Len(recoverQ')
      /\ \A i \in 1 .. Len(recoverQ') : i \in 1 .. n \/ i = n + 1
  BY <1>1
<1> HIDE DEF n
<1> QED
  BY <1>1, <1>2 DEF InRecoverQ, n

\* The outcome of each call of cleanupTask (garbagecollector.go:77-:127).
LEMMA CleanupOutcome ==
  ASSUME ContInv, NEW t \in Tasks, RescueStep(t)
  PROVE  CleanupSettles(t)
<1>1. /\ rows \in Tables /\ CidFits(t) /\ Calm(t) /\ PlatformTypeOK /\ RescuesOK
      /\ rescue \in [Tasks -> [pc : RescuePCs, cid : Conts \cup {NoCont},
                               path : Paths \cup {NoPath}]]
      /\ recoverQ \in Seq([task : Tasks, cid : Conts])
  BY DEF ContInv, OwnInv, SlotInv, TypeOK, PlatformTypeOK, Tables, GcTypeOK, WorkerTypeOK,
         Handles, Containers, ContFits
<1>2. rescue[t].pc # "idle" /\ (faults' = 0 => faults = 0)
  <2>1. rescue[t].pc # "idle"
    BY CleanupMoves DEF ContInv
  <2>2. faults' \in {faults, faults + 1} /\ faults \in Nat
    BY <1>1, PlatformAssumption
       DEF RescueStep, RescueExists, RescueGone, RescueState, RescueRemove, RescueRedo,
           RescueUpload, RescueComplete, RescueCleanup, Cleaned, Answered, Fault,
           PlatformTypeOK
  <2> QED
    BY <2>1, <2>2
<1>3. rescue[t].cid \in Conts /\ Started(rescue[t].cid, t)
  BY <1>1, <1>2 DEF RescuesOK, CidFits
<1>4. ASSUME NEW pc, RescueGoto(t, pc) PROVE rescue'[t].pc = pc /\ rescue'[t].cid = rescue[t].cid
  BY <1>1, <1>4 DEF RescueGoto
<1>5. ASSUME RescueEnds(t) PROVE rescue'[t].pc = "idle"
  BY <1>1, <1>5 DEF RescueEnds, NoRescue
<1>6. rows'[t].cid = rows[t].cid
  <2>1. rows' = rows \/ rows' = SetStatus(rows, t, "queued")
        \/ rows' = MarkCompleted(rows, t, rescue[t].path)
    BY DEF RescueStep, RescueExists, RescueGone, RescueState, RescueRemove, RescueRedo,
           RescueUpload, RescueComplete, RescueCleanup, MarkQueued
  <2> QED
    BY <1>1, <2>1, StatusMark, CompletedMark
<1>7. rescue[t].pc # "cleanup" => UNCHANGED ws
  BY DEF RescueStep, RescueExists, RescueGone, RescueState, RescueRemove, RescueRedo,
         RescueUpload, RescueComplete, RescueCleanup, RescueAt
<1>8. CASE RescueExists(t)
  <2>1. ~Present(rescue[t].cid) => Quiet(rescue[t].cid)
    BY <1>3 DEF Present, Started, Quiet
  <2>2. \/ RescueGoto(t, "state")
        \/ RescueGoto(t, "gone") /\ ~Present(rescue[t].cid)
        \/ RescueEnds(t) /\ faults' # 0
    BY <1>1, <1>8, FaultNoted DEF RescueExists
  <2> QED
    BY <1>4, <1>5, <1>6, <1>7, <2>1, <2>2 DEF CleanupSettles
<1>9. CASE RescueState(t)
  <2>1. conts[rescue[t].cid].st # "running" => Quiet(rescue[t].cid)
    BY <1>3 DEF Started, Quiet
  <2>2. \/ /\ RescueEnds(t) /\ conts[rescue[t].cid].st = "running"
           /\ recoverQ' = Append(recoverQ, [task |-> t, cid |-> rescue[t].cid])
        \/ /\ conts[rescue[t].cid].st # "running"
           /\ RescueEnds(t) \/ RescueGoto(t, "remove") \/ RescueGoto(t, "upload")
        \/ RescueEnds(t) /\ faults' # 0
    BY <1>1, <1>9, FaultNoted DEF RescueState
  <2>3. recoverQ' = Append(recoverQ, [task |-> t, cid |-> rescue[t].cid]) => InRecoverQ(t)'
    BY <1>1, <1>3, AppendIsPart
  <2> QED
    BY <1>4, <1>5, <1>6, <1>7, <2>1, <2>2, <2>3 DEF CleanupSettles
<1>10. ASSUME rescue[t].pc \notin {"exists", "state"} PROVE CleanupSettles(t)
  <2>1. faults' = 0 => Quiet(rescue[t].cid)
    BY <1>1, <1>2, <1>10 DEF Calm, CalmFits
  <2>2. ASSUME NEW p, rescue' = [rescue EXCEPT ![t].pc = "complete", ![t].path = p]
        PROVE  rescue'[t].cid = rescue[t].cid
    BY <1>1, <2>2
  <2>3. \/ RescueEnds(t) \/ (\E pc : RescueGoto(t, pc))
        \/ \E p : rescue' = [rescue EXCEPT ![t].pc = "complete", ![t].path = p]
    BY <1>10 DEF RescueStep, RescueExists, RescueGone, RescueState, RescueRemove, RescueRedo,
           RescueUpload, RescueComplete, RescueCleanup, RescueAt
  <2> QED
    BY <1>4, <1>5, <1>6, <1>7, <2>1, <2>2, <2>3 DEF CleanupSettles
<1> QED
  BY <1>8, <1>9, <1>10
     DEF RescueStep, RescueGone, RescueRemove, RescueRedo, RescueUpload, RescueComplete,
         RescueCleanup, RescueAt

\* A step of cleanupTask keeps the invariant.
LEMMA CleanupFits ==
  ASSUME ContInv, Moves, GcFrame, NEW t \in Tasks, RescueStep(t)
  PROVE  Containers'
<1>1. /\ phase = "gc" /\ UNCHANGED <<phase, worker, gor, sweep, run, stop, del, deletions>>
      /\ rescue[t].pc # "idle" /\ RescueGoesOn(t) /\ CleanupSettles(t)
  BY CleanupMoves, CleanupOutcome DEF ContInv, GcFrame, apiVars, histVars
<1>2. /\ ContFits(t) /\ Listed /\ GcTypeOK /\ PlatformTypeOK /\ ~InHands(t) /\ RescuesOK
      /\ recoverQ \in Seq([task : Tasks, cid : Conts])
      /\ worker.pc = "tick" /\ \A g \in Goroutines : gor[g].pc = "idle"
  BY <1>1 DEF ContInv, OwnInv, SlotInv, TypeOK, WorkerTypeOK, Handles, Ownership, PhaseFits,
              Owned, RescueFits, Containers
<1>3. rescue[t].cid \in Conts /\ rescue[t].cid = rows[t].cid /\ Started(rescue[t].cid, t)
      /\ rows[t].status # "absent" /\ ContsMove
  BY <1>1, <1>2 DEF RescuesOK, ContFits, CidFits, RescueGoesOn, Moves
<1>4. /\ rows'[t].status \in {"queued", "running", "completed"}
      /\ rows'[t].status \in ActiveStatus => rows[t].status \in ActiveStatus
  BY <1>1 DEF RescueGoesOn, SameRow, BecomesQueued, BecomesCompleted, ActiveStatus
<1>5. \A u \in Tasks : /\ ~InHand(u) /\ ~InHand(u)'
                       /\ \A g \in Goroutines : ~Runs(g, u) /\ ~Runs(g, u)'
  BY <1>1, <1>2 DEF InHand, Runs
<1>6. \A i \in 1 .. Len(recoverQ') :
        \/ recoverQ'[i] = [task |-> t, cid |-> rescue[t].cid]
        \/ \E j \in 1 .. Len(recoverQ) : recoverQ[j] = recoverQ'[i]
  <2>1. CASE recoverQ' = recoverQ
    BY <2>1
  <2>2. CASE recoverQ' = Append(recoverQ, [task |-> t, cid |-> rescue[t].cid])
    BY <1>2, <1>3, <2>2, AppendIsPart
  <2> QED
    BY <1>1, <2>1, <2>2 DEF RescueGoesOn
<1>7. CidFits(t)'
  <2>1. Started(rows[t].cid, t)' /\ rows'[t].cid = rows[t].cid
    BY <1>1, <1>3, StartedKept DEF CleanupSettles, Started
  <2>2. \A i \in 1 .. Len(recoverQ) : recoverQ[i].task # t
    BY <1>2 DEF InHands, InRecoverQ
  <2>3. \A i \in 1 .. Len(recoverQ') : recoverQ'[i].task = t => recoverQ'[i].cid = rows[t].cid
    BY <1>3, <1>6, <2>2
  <2>4. rescue'[t].pc # "idle" => rescue'[t].cid # NoCont /\ rescue'[t].cid = rows[t].cid
    BY <1>1, <1>2, <1>3 DEF CleanupSettles, ContFits, CidFits
  <2>5. stop[t].pc \in {"mark", "stop"} => Started(stop[t].cid, t)'
    BY <1>1, <1>2, <1>3, StartedKept DEF ContFits, CidFits, Started
  <2> QED
    BY <1>1, <2>1, <2>3, <2>4, <2>5 DEF CidFits, Started
<1>8. Calm(t)'
  <2> SUFFICES ASSUME faults' = 0 PROVE CalmFits(t)'
    BY DEF Calm
  <2>1. rescue'[t].pc = "state" \/ InRecoverQ(t)' \/ Quiet(rows[t].cid)'
    BY <1>1, <1>3, StartedKept DEF CleanupSettles, Quiet
  <2>2. InRecoverQ(t)' => rescue'[t].pc = "idle" /\ rows'[t].status = "running"
    BY <1>1, <1>2 DEF RescueGoesOn, InHands, InRecoverQ
  <2>3. Early(t)' => rows'[t].status = "queued"
    BY <1>4, <1>5 DEF Early
  <2>4. rescue'[t].pc = "state" => rows'[t].status = "running"
    BY <1>1 DEF RescueGoesOn, RescueAtWork
  <2>5. rescue'[t].pc # "idle" => rescue'[t].cid = rows[t].cid
    BY <1>1, <1>3 DEF CleanupSettles
  <2>6. Early(t)' => rows'[t].cid = NoCont \/ Quiet(rows[t].cid)'
    BY <2>1, <2>2, <2>3, <2>4
  <2>9. rows'[t].cid = rows[t].cid
    BY <1>1 DEF CleanupSettles
  <2>7. rescue'[t].pc \notin {"idle", "exists", "state"} => Quiet(rescue[t].cid)'
    BY <2>1, <2>2, <2>5, <2>9 DEF Quiet
  <2>8. Alive(t)' => LookedAfter(t)'
    <3>1. CASE rescue'[t].pc = "state" \/ InRecoverQ(t)'
      BY <1>1, <3>1 DEF LookedAfter, InHands
    <3>2. CASE Quiet(rows[t].cid)'
      BY <1>1, <3>2 DEF CleanupSettles, Quiet, Alive
    <3> QED
      BY <2>1, <3>1, <3>2
  <2> QED
    BY <1>5, <2>6, <2>7, <2>8, <2>9 DEF CalmFits
<1>9. InputFits(t)' /\ OrphansFit(t)' /\ Listed'
  <2>1. NeedsInput(t)' => rows'[t].status \in ActiveStatus
    BY <1>1, <1>2, <1>5 DEF NeedsInput, Early, ActiveStatus, ContFits, InputFits
  <2>2. rows'[t].status \in ActiveStatus => NeedsInput(t) /\ rescue[t].pc # "cleanup"
    <3>1. rescue[t].pc = "cleanup" => rows'[t].status = "completed"
      <4>1. rescue[t].pc = "cleanup" => UNCHANGED rows /\ rows[t].status = "completed"
        BY DEF RescueStep, RescueExists, RescueGone, RescueState, RescueRemove, RescueRedo,
               RescueUpload, RescueComplete, RescueCleanup, RescueAt, ContInv, OwnInv,
               Ownership, Owned, RescueFits, RescueAtWork
      <4> QED
        BY <4>1
    <3> QED
      BY <1>4, <3>1 DEF NeedsInput, ActiveStatus
  <2>3. OrphansFit(t)' /\ Listed'
    BY <1>1, <1>2, <1>3, <1>4, OrphansKept DEF ContFits
  <2> QED
    BY <1>1, <1>2, <2>1, <2>2, <2>3 DEF ContFits, InputFits, CleanupSettles, Moves
<1>10. ASSUME NEW u \in Tasks \ {t} PROVE ContFits(u)'
  <2>1. InRecoverQ(u)' <=> InRecoverQ(u)
    <3>1. CASE recoverQ' = recoverQ
      BY <3>1 DEF InRecoverQ
    <3>2. CASE recoverQ' = Append(recoverQ, [task |-> t, cid |-> rescue[t].cid])
      BY <1>2, <1>3, <3>2, HandedOver DEF InHands
    <3> QED
      BY <1>1, <3>1, <3>2 DEF RescueGoesOn
  <2>2. Kept(u)
    BY <1>1, <1>5, <1>6, <2>1 DEF Kept, HandsSame, InHands, RescueGoesOn, OthersKept
  <2>3. InputKept(u)
    <3>1. CASE rescue[t].pc # "cleanup"
      BY <1>1, <3>1 DEF CleanupSettles, InputKept
    <3>2. CASE rescue[t].pc = "cleanup"
      <4>1. Cleaned(t)
        BY <3>2 DEF RescueStep, RescueExists, RescueGone, RescueState, RescueRemove, RescueRedo,
               RescueUpload, RescueComplete, RescueCleanup, RescueAt
      <4> QED
        BY <1>2, <4>1 DEF Cleaned, InputKept, PlatformTypeOK
    <3> QED
      BY <3>1, <3>2
  <2> QED
    BY <1>1, <1>2, <2>2, <2>3, FrameFits DEF ContInv, Containers
<1>11. ContFits(t)'
  BY <1>7, <1>8, <1>9 DEF ContFits
<1>12. \A g \in Goroutines : GorCid(g)'
  BY <1>1, <1>2 DEF GorCid
<1> QED
  BY <1>9, <1>10, <1>11, <1>12 DEF Containers

\* The list of the running tasks (garbagecollector.go:59): a container that still runs
\* is in it.
LEMMA ListRunningFits ==
  ASSUME ContInv, Moves, GcFrame, ListRunning
  PROVE  Containers'
<1>1. /\ phase = "gc" /\ phase' = "gc" /\ sweep.pc = "tasks" /\ GcTypeOK /\ PlatformTypeOK
      /\ UNCHANGED <<rows, conts, ws, worker, recoverQ, gor, run, stop, del, deletions>>
      /\ sweep'.pc \in {"list", "over"} /\ (faults' = 0 => faults = 0)
      /\ \A g \in Goroutines : gor[g].pc = "idle" /\ GorCid(g)
      /\ \A u \in Tasks : ContFits(u) /\ rescue[u].pc = "idle"
  BY DEF ListRunning, Collecting, GcFrame, workerVars, apiVars, histVars, ContInv, OwnInv,
         SlotInv, TypeOK, GcTypeOK, Ownership, PhaseFits, NobodyWorks, Containers, Moves
<1>2. Listed' /\ \A g \in Goroutines : GorCid(g)'
  BY <1>1 DEF Listed, GorCid
<1>3. ASSUME NEW u \in Tasks PROVE ContFits(u)'
  <2>1. HandsSame(u) /\ OrphansFit(u)'
    BY <1>1, HandsKept DEF HandsSame, OrphansFit
  <2>2. CASE Fault /\ UNCHANGED rescue
    <3>1. faults' # 0
      BY <1>1, <2>2, FaultNoted
    <3> QED
      BY <1>1, <2>1, <2>2, <3>1, KeptFits DEF Kept, InputKept
  <2>3. ASSUME rescue' = [t \in Tasks |->
                            IF t \in RunningWithContainer(rows)
                            THEN [NoRescue EXCEPT !.pc = "exists", !.cid = rows[t].cid]
                            ELSE NoRescue]
        PROVE  ContFits(u)'
    <3>1. /\ rescue'[u].pc \in {"idle", "exists"}
          /\ rescue'[u].pc = "exists" => rescue'[u].cid = rows[u].cid /\ rows[u].cid # NoCont
          /\ rows[u].status = "running" /\ rows[u].cid # NoCont => rescue'[u].pc = "exists"
      BY <2>3 DEF RunningWithContainer, NoRescue
    <3>2. CidFits(u)'
      BY <1>1, <3>1 DEF ContFits, CidFits, Started
    <3>3. Calm(u)'
      BY <1>1, <3>1 DEF ContFits, Calm, CalmFits, Early, InHand, Runs, Settling, Alive,
                        LookedAfter, Quiet
    <3>4. InputFits(u)'
      BY <1>1, <2>1 DEF ContFits, InputFits, NeedsInput, Early, InHand, Runs, HandsSame
    <3> QED
      BY <2>1, <3>2, <3>3, <3>4 DEF ContFits
  <2> QED
    BY <2>2, <2>3 DEF ListRunning
<1> QED
  BY <1>2, <1>3 DEF Containers

\* The rest of Cleanup: what it removes are containers of tasks that are over, with
\* their directories (garbagecollector.go:129-:167).
LEMMA SweepFits ==
  ASSUME ContInv, Moves, GcFrame,
         \/ ListConts \/ ListActive \/ Swept \/ GcOver
         \/ \E c \in Conts : SweepOne(c)
  PROVE  Containers'
<1>1. /\ phase = "gc" /\ phase' \in {"gc", "serving"} /\ sweep.pc # "tasks" /\ GcTypeOK
      /\ UNCHANGED <<rows, worker, recoverQ, gor, rescue, run, stop, del, deletions>>
      /\ sweep'.pc # "tasks" /\ PlatformTypeOK /\ Listed /\ ContsMove
      /\ (faults' = 0 => faults = 0)
      /\ phase' = "serving" => \A u \in Tasks : rescue[u].pc = "idle"
      /\ \A g \in Goroutines : gor[g].pc = "idle" /\ GorCid(g)
      /\ \A u \in Tasks : ContFits(u) /\ ~InHand(u)
  BY DEF ListConts, ListActive, Swept, GcOver, SweepOne, Collecting, GcFrame, workerVars,
         platformVars, apiVars, histVars, ContInv, OwnInv, SlotInv, TypeOK, GcTypeOK,
         Ownership, PhaseFits, Containers, Moves, InHand
<1>2. \A g \in Goroutines : GorCid(g)'
  BY <1>1 DEF GorCid
<1>3. ASSUME NEW u \in Tasks
      PROVE  Kept(u) /\ (faults' = 0 /\ Alive(u) => LookedAfter(u)')
  <2>1. Kept(u)
    BY <1>1, HandsKept DEF Kept, HandsSame
  <2>2. ASSUME faults' = 0, Alive(u) PROVE LookedAfter(u)'
    <3>1. InHands(u) \/ rescue[u].pc \in {"exists", "state"}
      BY <1>1, <2>2 DEF ContFits, Calm, CalmFits, LookedAfter
    <3> QED
      BY <1>1, <2>1, <3>1 DEF LookedAfter, Kept, HandsSame
  <2> QED
    BY <2>1, <2>2
<1>4. (\A u \in Tasks : OrphansFit(u)' /\ (InputKept(u) \/ ~NeedsInput(u))) /\ Listed'
  <2>1. CASE ListConts
    BY <1>1, <2>1 DEF ListConts, GcTypeOK, OrphansFit, Listed, InputKept, Present
  <2>2. CASE ListActive
    <3>1. UNCHANGED <<conts, ws>>
      BY <2>2 DEF ListActive
    <3>2. \A c \in sweep'.conts : sweep'.pc = "orphans" =>
            c \in sweep.conts /\ conts[c].task \notin Active(rows)
      BY <1>1, <2>2 DEF ListActive, GcTypeOK
    <3>3. sweep.pc = "active" /\ sweep'.pc \in {"orphans", "over"}
      BY <1>1, <2>2 DEF ListActive, GcTypeOK
    <3> QED
      BY <1>1, <3>1, <3>2, <3>3 DEF OrphansFit, Listed, InputKept, Active, ActiveStatus
  <2>3. CASE Swept
    BY <1>1, <2>3 DEF Swept, GcTypeOK, OrphansFit, Listed, InputKept, platformVars
  <2>4. CASE GcOver
    BY <2>4 DEF GcOver, OrphansFit, Listed, InputKept
  <2>5. ASSUME NEW c \in Conts, SweepOne(c)
        PROVE  (\A u \in Tasks : OrphansFit(u)' /\ (InputKept(u) \/ ~NeedsInput(u))) /\ Listed'
    <3>1. /\ sweep.pc = "orphans" /\ c \in sweep.conts /\ phase' = "gc"
          /\ sweep'.pc = "orphans" /\ sweep'.conts \subseteq sweep.conts
          /\ ws' = ws \/ ws' = [ws EXCEPT ![conts[c].task] = {}]
      BY <1>1, <2>5 DEF SweepOne, Cleaned, GcTypeOK
    <3>2. \A d \in sweep'.conts : d \in Conts /\ conts[d].st # "unused"
      BY <1>1, <3>1 DEF Listed, GcTypeOK
    <3>3. Listed' /\ \A u \in Tasks : OrphansFit(u)'
      BY <1>1, <3>1, <3>2 DEF ContsMove, Listed, OrphansFit, ContFits
    <3>4. ASSUME NEW u \in Tasks PROVE InputKept(u) \/ ~NeedsInput(u)
      <4>1. CASE u = conts[c].task
        <5>1. rows[u].status \notin ActiveStatus
          BY <1>1, <3>1, <4>1 DEF ContFits, OrphansFit
        <5> QED
          BY <1>1, <5>1 DEF NeedsInput, Early, Runs, ActiveStatus, ContFits, InputFits
      <4>2. CASE u # conts[c].task
        BY <1>1, <3>1, <4>2 DEF PlatformTypeOK, InputKept
      <4> QED
        BY <4>1, <4>2
    <3> QED
      BY <3>3, <3>4
  <2> QED
    BY <2>1, <2>2, <2>3, <2>4, <2>5
<1>5. \A u \in Tasks : ContFits(u)'
  BY <1>1, <1>3, <1>4, KeptFits
<1> QED
  BY <1>2, <1>4, <1>5 DEF Containers

\* A step of the collector keeps the invariant.
LEMMA GcFits ==
  ASSUME ContInv, Moves, GcPart
  PROVE  Containers'
  BY CleanupFits, ListRunningFits, SweepFits DEF GcPart, GcNext

-----------------------------------------------------------------------------
(* The handlers *)

\* A step of a handler or a timer, which concerns one task and takes none in hands.
LEMMA OneTaskFits ==
  ASSUME ContInv, Moves, Up, phase' \in {phase, "panicked"}, NEW t \in Tasks,
         UNCHANGED <<worker, recoverQ, gor, rescue, sweep>>, OthersKept(t),
         \A u \in Tasks \ {t} : /\ run'[u] = run[u] /\ stop'[u] = stop[u] /\ del'[u] = del[u]
                                /\ InputKept(u),
         \/ rows'[t].cid = rows[t].cid /\ (rows[t].status = "absent" => rows'[t].status = "absent")
         \/ rows'[t].cid = NoCont /\ (Pending(t) \/ rows'[t].status = "absent"),
         rows'[t].status = "running" => rows[t].status = "running",
         Early(t)' => Early(t) \/ rows'[t].cid = NoCont \/ Quiet(rows'[t].cid),
         stop'[t].pc \in {"mark", "stop"} => Started(stop'[t].cid, t),
         InputFits(t)'
  PROVE  Containers'
<1>1. /\ ContsMove /\ ContFits(t) /\ Owned(t) /\ phase' # "gc" /\ GcTypeOK
      /\ (faults' = 0 => faults = 0)
  BY DEF ContInv, OwnInv, SlotInv, TypeOK, Ownership, Containers, Moves, Up
<1>2. \A u \in Tasks : HandsSame(u)
  BY HandsKept DEF HandsSame
<1>3. ASSUME NEW u \in Tasks \ {t} PROVE ContFits(u)'
  BY <1>1, <1>2, <1>3, FrameFits DEF ContInv, Containers, Kept, OthersKept
<1>4. rescue[t].pc = "idle" /\ (Pending(t) => ~InHands(t))
  BY <1>1 DEF Owned, RescueFits, RowFits, Up
<1>5. CidFits(t)'
  <2>1. /\ rows'[t].cid # NoCont => Started(rows'[t].cid, t)
        /\ \A i \in 1 .. Len(recoverQ) : recoverQ[i].task = t => Started(recoverQ[i].cid, t)
    BY <1>1 DEF ContFits, CidFits
  <2>2. ASSUME NEW c, Started(c, t) PROVE c \in Conts /\ conts'[c].task = t /\ conts'[c].st # "unused"
    BY <1>1, <2>2, StartedKept DEF Started, ContsMove
  <2>3. \A i \in 1 .. Len(recoverQ) : recoverQ[i].task = t =>
           rows'[t].status = "absent" \/ recoverQ[i].cid = rows'[t].cid
    BY <1>1, <1>4 DEF ContFits, CidFits, InHands, InRecoverQ
  <2> QED
    BY <1>4, <2>1, <2>2, <2>3 DEF CidFits, Started
<1>6. Calm(t)'
  <2> SUFFICES ASSUME faults' = 0 PROVE CalmFits(t)'
    BY DEF Calm
  <2>1. CalmFits(t) /\ CidFits(t)
    BY <1>1 DEF ContFits, Calm
  <2>2. Quiet(rows'[t].cid) => Quiet(rows[t].cid)'
    BY <1>1 DEF Quiet, ContsMove
  <2>3. Early(t)' => rows'[t].cid = NoCont \/ Quiet(rows[t].cid)'
    BY <2>1, <2>2 DEF CalmFits, Quiet
  <2>4. Alive(t)' => Alive(t)
    <3>1. Alive(t)' => rows'[t].cid = rows[t].cid /\ rows[t].status = "running"
      BY DEF Alive
    <3> QED
      BY <1>1, <2>1, <3>1, AliveKept
  <2>5. Alive(t)' => LookedAfter(t)'
    BY <1>2, <2>1, <2>4, WatchKept DEF CalmFits, HandsSame
  <2>6. \A g \in Goroutines : Runs(g, t)' /\ Settling(g)' => rows'[t].status # "running"
    BY <2>1 DEF CalmFits, Runs, Settling
  <2> QED
    BY <1>4, <2>3, <2>5, <2>6 DEF CalmFits
<1>7. ContFits(t)' /\ Listed'
  BY <1>1, <1>5, <1>6 DEF ContFits, OrphansFit, Listed
<1>8. \A g \in Goroutines : GorCid(g)'
  <2>1. ASSUME NEW u \in Tasks
        PROVE  \/ rows'[u].status = "absent"
               \/ rows[u].status # "absent" /\ rows'[u].cid = rows[u].cid
               \/ Pending(u)
    BY DEF OthersKept
  <2> QED
    BY <1>1, <2>1, CidsStay
<1> QED
  BY <1>3, <1>7, <1>8 DEF Containers

\* The input of t stays, and nobody needs it who did not before.
LEMMA InputStays ==
  ASSUME Moves, Up, phase' \in {phase, "panicked"}, NEW t \in Tasks, InputFits(t),
         UNCHANGED <<worker, recoverQ, gor>>, InputKept(t),
         rows'[t].status \in ActiveStatus => rows[t].status \in ActiveStatus,
         run'[t] = run[t], del'[t] \in {"workspace", "row"} => t \in deletions'
  PROVE  InputFits(t)'
<1>1. NeedsInput(t)' => NeedsInput(t)
  BY DEF NeedsInput, Early, InHand, Runs, ActiveStatus
<1> QED
  BY <1>1, HandsKept DEF InputFits, InputKept, Moves, Up

\* The request that creates t: until the INSERT its directory is in use, and the
\* deferred cleanup runs only when no row is left that needs it (task.go:103-:166).
LEMMA RunFits ==
  ASSUME ContInv, Moves, ApiFrame, NEW t \in Tasks, RunStep(t)
  PROVE  Containers'
<1>1. /\ Up /\ UNCHANGED <<phase, conts, stop, del, worker, recoverQ, gor, rescue, sweep>>
      /\ rows \in Tables /\ PlatformTypeOK /\ ContFits(t) /\ Owned(t)
      /\ run \in [Tasks -> [pc : RunPCs, path : Paths \cup {NoPath}]]
      /\ deletions \subseteq deletions' /\ (faults' = 0 => faults = 0)
  BY DEF RunStep, SaveInput, FindImage, FindCached, InsertRow, RunCleanup, RunAt, Serving, Up,
         platformVars, ApiFrame, workerVars, gcVars, ContInv, OwnInv, SlotInv, TypeOK,
         PlatformTypeOK, ApiTypeOK, Tables, Ownership, Containers, Moves
<1>2. /\ InputFits(t) /\ NoRow.status = "absent" /\ NoRow.cid = NoCont
      /\ Pending(t) => rows[t] = NoRow /\ ~InHands(t)
      /\ stop[t].pc \in {"mark", "stop"} => Started(stop[t].cid, t)
      /\ InHand(t)' <=> InHand(t)
      /\ InHands(t)' <=> InHands(t)
      /\ \A g \in Goroutines : Runs(g, t)' <=> Runs(g, t)
  BY <1>1, HandsKept DEF ContFits, CidFits, Owned, RowFits, NoRow
<1>3. run[t].pc \in {"new", "image", "cache", "insert", "hit", "undo"}
  BY DEF RunStep, SaveInput, FindImage, FindCached, InsertRow, RunCleanup, RunAt
<1>4. \A u \in Tasks \ {t} : run'[u] = run[u] /\ InputKept(u)
  BY <1>1 DEF RunStep, SaveInput, FindImage, FindCached, InsertRow, RunCleanup, RunGoto,
              RunEnds, Cleaned, platformVars, PlatformTypeOK, InputKept
<1>5. ASSUME rows' = rows, InputFits(t)' PROVE Containers'
  <2>1. OthersKept(t) /\ (Early(t)' => Early(t))
    BY <1>1, <1>2, <1>5 DEF OthersKept, Early
  <2> QED
    BY <1>1, <1>2, <1>4, <1>5, <2>1, OneTaskFits
<1>6. /\ del'[t] \in {"workspace", "row"} => t \in deletions'
      /\ phase' \notin {"down", "gc"}
  BY <1>1, <1>2 DEF InputFits, Up
<1>7. CASE SaveInput(t)
  <2>1. /\ rows' = rows /\ run[t].pc = "new" /\ run'[t].pc \in {"image", "over"}
        /\ ws'[t] = {"input"}
    BY <1>1, <1>7 DEF SaveInput, RunGoto, RunEnds, RunOver, PlatformTypeOK
  <2> QED
    BY <1>5, <1>6, <2>1 DEF InputFits
<1>8. CASE FindImage(t) \/ FindCached(t)
  <2>1. /\ rows' = rows /\ ws' = ws /\ run[t].pc \in {"image", "cache"}
        /\ run'[t].pc \in {"cache", "insert", "undo"}
    BY <1>1, <1>8 DEF FindImage, FindCached, RunAt, RunGoto, platformVars
  <2>2. NeedsInput(t) /\ ~InHands(t) /\ rows[t].status \notin ActiveStatus
    BY <1>2, <2>1 DEF NeedsInput, Pending, ActiveStatus
  <2>3. "input" \in ws[t] \/ faults' # 0 \/ t \in deletions'
    BY <1>1, <1>2, <2>2 DEF InputFits
  <2>4. ~InHands(t)'
    BY <1>2, <2>2
  <2> QED
    BY <1>5, <1>6, <2>1, <2>2, <2>3, <2>4 DEF InputFits
<1>9. CASE InsertRow(t)
  <2>1. /\ ws' = ws /\ run[t].pc = "insert" /\ Pending(t) /\ rows[t] = NoRow /\ ~InHands(t)
    BY <1>2, <1>9 DEF InsertRow, RunAt, Pending
  <2>2. rows' = rows \/ Inserted(t)
    BY <1>9 DEF InsertRow
  <2>3. Inserted(t) => /\ OthersKept(t) /\ rows'[t].cid = NoCont
                       /\ rows'[t].status \in {"completed", "scheduled", "queued"}
                       /\ run[t].path # NoPath => rows'[t].status = "completed"
    BY <1>1 DEF Inserted, Insert, FirstStatus, OthersKept, Tables
  <2>4. /\ run'[t].pc \in {"hit", "over"} \/ (run'[t].pc = "undo" /\ faults' # 0)
        /\ run'[t].pc = "hit" => Inserted(t) /\ run[t].path # NoPath
    BY <1>1, <1>9, FaultNoted DEF InsertRow, RunGoto, RunEnds, RunOver
  <2>5. "input" \in ws[t] \/ faults' # 0 \/ t \in deletions'
    BY <1>1, <1>2, <2>1 DEF InputFits, NeedsInput
  <2>6. ~InHands(t)'
    BY <1>2, <2>1
  <2>7. InputFits(t)'
    BY <1>6, <2>1, <2>3, <2>4, <2>5, <2>6 DEF InputFits, ActiveStatus
  <2>8. rows' = rows \/ (/\ OthersKept(t) /\ rows'[t].cid = NoCont
                         /\ rows'[t].status # "running")
    BY <2>2, <2>3
  <2>9. CASE OthersKept(t) /\ rows'[t].cid = NoCont /\ rows'[t].status # "running"
    BY <1>1, <1>2, <1>4, <2>1, <2>7, <2>9, OneTaskFits
  <2> QED
    BY <1>5, <2>7, <2>8, <2>9
<1>10. CASE RunCleanup(t)
  <2>1. rows' = rows /\ run[t].pc \in {"hit", "undo"} /\ run'[t].pc = "over"
    BY <1>1, <1>10 DEF RunCleanup, RunAt, RunEnds, RunOver
  <2>2. faults' = 0 => ~NeedsInput(t)'
    <3> SUFFICES ASSUME faults' = 0 PROVE ~NeedsInput(t)'
      OBVIOUS
    <3>1. ~InHands(t) /\ rows[t].status \notin ActiveStatus
      BY <1>1, <1>2, <2>1 DEF InputFits
    <3> QED
      BY <1>2, <2>1, <3>1 DEF NeedsInput, Early, InHands, ActiveStatus
  <2> QED
    BY <1>5, <1>6, <2>1, <2>2 DEF InputFits
<1> QED
  BY <1>7, <1>8, <1>9, <1>10 DEF RunStep

\* A request to stop t works on the container the row names (task.go:168-:187).
LEMMA StopFits ==
  ASSUME ContInv, Moves, ApiFrame, NEW t \in Tasks, StopRequest(t) \/ StopStep(t)
  PROVE  Containers'
<1>1. /\ Up /\ UNCHANGED <<phase, run, del, worker, recoverQ, gor, rescue, sweep>>
      /\ rows \in Tables /\ PlatformTypeOK /\ ContFits(t)
      /\ stop \in [Tasks -> [pc : {"none", "read", "mark", "stop"}, cid : Conts \cup {NoCont}]]
      /\ deletions \subseteq deletions'
  BY DEF StopRequest, StopStep, StopRead, StopMark, StopCont, StopAt, Serving, Up,
         platformVars, ApiFrame, workerVars, gcVars, ContInv, OwnInv, SlotInv, TypeOK,
         PlatformTypeOK, ApiTypeOK, Tables, Containers, Moves
<1>2. \A u \in Tasks : InputKept(u) /\ (u # t => stop'[u] = stop[u])
  <2>1. UNCHANGED ws \/ \E c : Stopped(c)
    BY DEF StopRequest, StopStep, StopRead, StopMark, StopCont, platformVars
  <2>2. \A u \in Tasks : InputKept(u)
    BY <1>1, <2>1, StoppedMoves DEF InputKept
  <2> QED
    BY <1>1, <2>2 DEF StopRequest, StopStep, StopRead, StopMark, StopCont, StopEnds
<1>3. rows' = rows \/ rows' = SetStatus(rows, t, "stopped")
  BY DEF StopRequest, StopStep, StopRead, StopMark, StopCont, MarkStopped, platformVars
<1>4. /\ OthersKept(t) /\ rows'[t].cid = rows[t].cid
      /\ rows[t].status = "absent" => rows'[t].status = "absent"
      /\ rows'[t].status = rows[t].status \/ rows'[t].status = "stopped"
  BY <1>1, <1>3, StatusMark DEF OthersKept
<1>5. stop'[t].pc \in {"mark", "stop"} => Started(stop'[t].cid, t)
  <2>1. \/ stop'[t].pc \in {"none", "read"}
        \/ stop'[t].cid = rows[t].cid /\ rows[t].cid # NoCont
        \/ stop[t].pc = "mark" /\ stop'[t].cid = stop[t].cid
    BY <1>1 DEF StopRequest, StopStep, StopRead, StopMark, StopCont, StopAt, StopEnds, NoStop
  <2> QED
    BY <1>1, <2>1 DEF ContFits, CidFits
<1>6. Early(t)' => Early(t)
  BY <1>1, <1>4, HandsKept DEF Early
<1>7. InputFits(t)'
  BY <1>1, <1>2, <1>4, InputStays DEF ContFits, InputFits, ActiveStatus
<1> QED
  BY <1>1, <1>2, <1>4, <1>5, <1>6, <1>7, OneTaskFits

\* A request to delete t: what it removes is noted before the directory goes
\* (task.go:268-:278).
LEMMA DeleteFits ==
  ASSUME ContInv, Moves, ApiFrame, NEW t \in Tasks, DeleteRequest(t) \/ DeleteStep(t)
  PROVE  Containers'
<1>1. /\ Up /\ UNCHANGED <<phase, run, stop, worker, recoverQ, gor, rescue, sweep>>
      /\ rows \in Tables /\ PlatformTypeOK /\ ContFits(t)
      /\ del \in [Tasks -> {"none", "read", "artifacts", "workspace", "row"}]
      /\ deletions' = deletions \cup {u \in Tasks : del[u] = "artifacts" /\ del'[u] # del[u]}
  BY DEF DeleteRequest, DeleteStep, DeleteRead, DeleteArtifacts, DeleteWorkspace, DeleteRow,
         DelAt, Serving, Up, platformVars, ApiFrame, workerVars, gcVars, ContInv, OwnInv,
         SlotInv, TypeOK, PlatformTypeOK, ApiTypeOK, Tables, Containers
<1>2. \A u \in Tasks \ {t} : InputKept(u) /\ del'[u] = del[u]
  BY <1>1 DEF DeleteRequest, DeleteStep, DeleteRead, DeleteArtifacts, DeleteWorkspace,
              DeleteRow, DelGoto, platformVars, PlatformTypeOK, InputKept
<1>3. /\ OthersKept(t)
      /\ rows'[t] = rows[t] \/ (rows'[t].status = "absent" /\ rows'[t].cid = NoCont)
  <2>1. rows' = rows \/ rows' = Deleted(rows, t)
    BY DEF DeleteRequest, DeleteStep, DeleteRead, DeleteArtifacts, DeleteWorkspace, DeleteRow,
           platformVars
  <2> QED
    BY <1>1, <2>1 DEF Deleted, NoRow, OthersKept, Tables
<1>4. /\ del'[t] \in {"workspace", "row"} => t \in deletions'
      /\ t \in deletions' \/ InputKept(t)
  <2>1. del[t] \in {"workspace", "row"} => t \in deletions
    BY <1>1 DEF ContFits, InputFits
  <2>2. del'[t] \in {"workspace", "row"} =>
          del[t] \in {"workspace", "row"} \/ (del[t] = "artifacts" /\ del'[t] # del[t])
    BY <1>1 DEF DeleteRequest, DeleteStep, DeleteRead, DeleteArtifacts, DeleteWorkspace,
                DeleteRow, DelAt, DelGoto
  <2>3. del[t] = "workspace" \/ UNCHANGED ws
    BY DEF DeleteRequest, DeleteStep, DeleteRead, DeleteArtifacts, DeleteWorkspace,
           DeleteRow, DelAt, platformVars
  <2> QED
    BY <1>1, <2>1, <2>2, <2>3 DEF InputKept
<1>5. InputFits(t)'
  <2>1. NeedsInput(t)' => NeedsInput(t)
    BY <1>1, <1>3, HandsKept DEF NeedsInput, Early, ActiveStatus
  <2>2. rows'[t].status \in ActiveStatus => rows[t].status \in ActiveStatus
    BY <1>3 DEF ActiveStatus
  <2> QED
    BY <1>1, <1>4, <2>1, <2>2, HandsKept DEF ContFits, InputFits, InputKept, Moves, Up
<1>6. /\ Early(t)' => Early(t)
      /\ stop[t].pc \in {"mark", "stop"} => Started(stop[t].cid, t)
  BY <1>1, <1>3, HandsKept DEF Early, ContFits, CidFits
<1> QED
  BY <1>1, <1>2, <1>3, <1>5, <1>6, OneTaskFits

\* A step of a handler keeps the invariant.
LEMMA ApiFits ==
  ASSUME ContInv, Moves, ApiPart
  PROVE  Containers'
  BY RunFits, StopFits, DeleteFits DEF ApiPart, ApiNext

-----------------------------------------------------------------------------
(* Timers, programs and the process *)

\* The scheduler: a task that is marked queued by a timer has had no container yet.
LEMMA SchedFits ==
  ASSUME ContInv, Moves, SchedPart
  PROVE  Containers'
<1>1. /\ Up /\ phase' \in {phase, "panicked"} /\ rows \in Tables
      /\ UNCHANGED <<conts, ws, worker, recoverQ, gor, rescue, sweep, run, stop, del, deletions>>
      /\ \A u \in Tasks : ContFits(u) /\ Owned(u)
  BY DEF SchedPart, SchedNext, ReadUpcoming, Register, Fire, Enqueue, Up, platformVars,
         SchedFrame, workerVars, gcVars, apiVars, histVars, ContInv, OwnInv, SlotInv, TypeOK,
         PlatformTypeOK, Tables, Ownership, Containers
<1>2. \A u \in Tasks : InputKept(u) /\ (stop[u].pc \in {"mark", "stop"} => Started(stop[u].cid, u))
  BY <1>1 DEF InputKept, ContFits, CidFits
<1>3. CASE rows' = rows
  <2>1. ASSUME NEW u \in Tasks PROVE ContFits(u)'
    <3>1. Kept(u)
      BY <1>1, <1>3, HandsKept DEF Kept, HandsSame
    <3> QED
      BY <1>1, <1>2, <3>1, FrameFits DEF ContInv, Containers, OwnInv, SlotInv, TypeOK
  <2> QED
    BY <1>1, <1>3, <2>1, CidsStay DEF Containers, Listed, Up, ContInv, Moves
<1>4. ASSUME NEW t \in Tasks, Enqueue(t), rows' # rows PROVE Containers'
  <2>1. /\ rows' = SetStatus(rows, t, "queued") /\ firing[t] > 0
    BY <1>4 DEF Enqueue, MarkQueued
  <2>2. rows[t].status = "scheduled" /\ rows[t].cid = NoCont
    BY <1>1, <1>4, <2>1, StatusMark DEF Owned, TimerFits
  <2>3. OthersKept(t) /\ rows'[t].cid = NoCont /\ rows'[t].status = "queued"
    BY <1>1, <2>1, <2>2, StatusMark DEF OthersKept
  <2>4. InputFits(t)'
    BY <1>1, <1>2, <2>2, <2>3, InputStays DEF ContFits, InputFits, ActiveStatus
  <2> QED
    BY <1>1, <1>2, <2>2, <2>3, <2>4, OneTaskFits
<1> QED
  BY <1>3, <1>4 DEF SchedPart, SchedNext, ReadUpcoming, Register, Fire, platformVars

\* Time and the programs in the containers.
LEMMA EnvFits ==
  ASSUME ContInv, Moves, EnvPart
  PROVE  Containers'
<1>1. UNCHANGED <<rows, phase, worker, recoverQ, gor, rescue, sweep, run, stop, del>>
  BY DEF EnvPart, Environment, ClockTick, ContainerExit, EnvFrame, workerVars, gcVars, apiVars
<1>2. /\ PlatformTypeOK /\ GcTypeOK /\ Listed /\ ContsMove
      /\ \A u \in Tasks : ContFits(u)
  BY DEF ContInv, OwnInv, SlotInv, TypeOK, Containers, Moves
<1>3. \A u \in Tasks : InputKept(u)
  BY <1>2, ExitMoves DEF EnvPart, Environment, ClockTick, InputKept
<1>4. ASSUME NEW u \in Tasks PROVE ContFits(u)' /\ Listed'
  <2>1. Kept(u)
    BY <1>1, HandsKept DEF Kept, HandsSame
  <2>2. Listed'
    BY <1>1, <1>2, OrphansKept DEF ContFits
  <2> QED
    BY <1>1, <1>2, <1>3, <2>1, <2>2, FrameFits
<1>5. Listed'
  BY <1>1, <1>2 DEF Listed, ContsMove, GcTypeOK
<1> QED
  BY <1>1, <1>2, <1>4, <1>5, CidsStay DEF Containers

\* A new process starts with what the table, the daemon and the directories say.
LEMMA EndFits ==
  ASSUME ContInv, ProcessEnds
  PROVE  Containers'
<1>1. /\ UNCHANGED <<rows, conts, ws, faults, deletions>> /\ phase' = "down"
      /\ worker' = LoopStart /\ recoverQ' = <<>> /\ gor' = [g \in Goroutines |-> Idle]
      /\ rescue' = [t \in Tasks |-> NoRescue] /\ sweep' = SweepStart
      /\ run' = [t \in Tasks |-> IF run[t].pc = "new" THEN NewRun ELSE RunOver]
      /\ stop' = [t \in Tasks |-> NoStop] /\ del' = [t \in Tasks |-> "none"]
  BY DEF ProcessEnds, WorkerReset, GcReset, ApiReset
<1>2. \A g \in Goroutines : gor'[g].pc = "idle"
  BY <1>1 DEF Idle
<1>3. ASSUME NEW u \in Tasks PROVE ContFits(u)'
  <2>1. /\ ContFits(u) /\ ~InHand(u)' /\ (\A g \in Goroutines : ~Runs(g, u)')
        /\ rescue'[u].pc = "idle" /\ stop'[u].pc = "none" /\ del'[u] = "none"
        /\ run'[u].pc \in {"new", "over"}
    BY <1>1, <1>2 DEF ContInv, Containers, InHand, LoopStart, Runs, NoRescue, NoStop, NewRun,
                      RunOver
  <2>2. CidFits(u)' /\ OrphansFit(u)'
    BY <1>1, <2>1 DEF ContFits, CidFits, Started, OrphansFit
  <2>3. Early(u)' => Early(u)
    BY <1>1, <2>1 DEF Early
  <2>4. Calm(u)'
    BY <1>1, <2>1, <2>3 DEF ContFits, Calm, CalmFits, LookedAfter, Quiet
  <2>5. InputFits(u)'
    BY <1>1, <2>1, <2>3 DEF ContFits, InputFits, NeedsInput
  <2> QED
    BY <2>2, <2>4, <2>5 DEF ContFits
<1> QED
  BY <1>1, <1>2, <1>3 DEF Containers, Listed, GorCid

\* The start of a process, and a signal: nothing changes but the phase.
LEMMA PhaseStepFits ==
  ASSUME ContInv, Moves, Boot \/ Terminate
  PROVE  Containers'
<1>1. UNCHANGED <<rows, conts, ws, faults, worker, recoverQ, gor, rescue, sweep, run, stop, del>>
  BY DEF Boot, Terminate, workerVars, gcVars, apiVars
<1>2. /\ \A u \in Tasks : ContFits(u)
      /\ phase' = "gc" => sweep.pc = "tasks"
      /\ phase' = "closing" => phase = "serving"
      /\ phase' \in {"gc", "closing"} /\ ContsMove
  BY DEF Boot, Terminate, ContInv, OwnInv, Ownership, PhaseFits, Containers, Moves
<1>3. ASSUME NEW u \in Tasks PROVE ContFits(u)'
  <2>1. Kept(u) /\ InputKept(u) /\ OrphansFit(u)'
    BY <1>1, <1>2, HandsKept DEF Kept, HandsSame, InputKept, OrphansFit
  <2>2. faults' = 0 /\ Alive(u) => LookedAfter(u)'
    BY <1>1, <1>2, HandsKept DEF ContFits, Calm, CalmFits, LookedAfter
  <2> QED
    BY <1>2, <2>1, <2>2, KeptFits
<1> QED
  BY <1>1, <1>2, <1>3, CidsStay DEF Containers, Listed

\* What every step but the end of the process does.
LEMMA NextMoves ==
  ASSUME OwnInv, Next
  PROVE  Moves \/ ProcessEnds
<1>1. ContsMove /\ (faults' = 0 => faults = 0)
  BY NextMovesConts, FaultsGrow DEF OwnInv
<1>2. deletions \subseteq deletions'
  BY DEF Next, WorkerPart, WorkerFrame, GcPart, GcFrame, ApiPart, ApiFrame, SchedPart,
         SchedFrame, EnvPart, EnvFrame, Process, ProcessEnds, Boot, Crash, Abort, Terminate,
         Exit, ExitEarly, histVars
<1>3. (phase' \in {"down", "gc"} => phase \in {"down", "gc"}) \/ ProcessEnds
  <2>1. CASE WorkerPart
    <3>1. phase' \in {phase, "panicked"}
      <4>1. LoopNext \/ (\E g \in Goroutines : Expire(g)) => phase' = phase
        BY DEF LoopNext, Tick, NoSlot, TakeSlot, Claim, LookupHit, MarkCached, Drain,
               FillSlot, Drained, TakeRecovered, StartTask, Expire, platformVars
      <4>2. (\E g \in Goroutines : Step(g)) => phase' \in {phase, "panicked"}
        BY StepMoves
      <4> QED
        BY <2>1, <4>1, <4>2 DEF WorkerPart, WorkerNext
    <3> QED
      BY <3>1
  <2>2. CASE GcPart
    <3>1. phase = "gc"
      BY <2>2 DEF GcPart, GcNext, ListRunning, ListConts, ListActive, Swept, GcOver, SweepOne,
                  RescueStep, RescueExists, RescueGone, RescueState, RescueRemove, RescueRedo,
                  RescueUpload, RescueComplete, RescueCleanup, RescueAt, Collecting
    <3> QED
      BY <3>1
  <2>3. CASE ApiPart
    BY <2>3 DEF ApiPart, ApiNext, RunStep, StopStep, DeleteStep, SaveInput, FindImage,
                FindCached, InsertRow, RunCleanup, StopRead, StopMark, StopCont, DeleteRead,
                DeleteArtifacts, DeleteWorkspace, DeleteRow, StopRequest, DeleteRequest,
                platformVars
  <2>4. CASE SchedPart
    BY <2>4 DEF SchedPart, SchedNext, ReadUpcoming, Register, Fire, Enqueue, platformVars
  <2>5. CASE EnvPart
    BY <2>5 DEF EnvPart, Environment, ClockTick, ContainerExit
  <2>6. CASE Process
    BY <2>6 DEF Process, Boot, Crash, Abort, Terminate, Exit, ExitEarly
  <2> QED
    BY <2>1, <2>2, <2>3, <2>4, <2>5, <2>6 DEF Next
<1> QED
  BY <1>1, <1>2, <1>3 DEF Moves

-----------------------------------------------------------------------------
(* The theorems *)

\* There is no container, no row and no directory yet.
LEMMA InitContInv == Init => ContInv
<1> SUFFICES ASSUME Init PROVE ContInv
  OBVIOUS
<1>1. /\ rows = [t \in Tasks |-> NoRow] /\ phase = "down" /\ worker = LoopStart
      /\ recoverQ = <<>> /\ gor = [g \in Goroutines |-> Idle]
      /\ rescue = [t \in Tasks |-> NoRescue]
      /\ run = [t \in Tasks |-> NewRun] /\ stop = [t \in Tasks |-> NoStop]
      /\ del = [t \in Tasks |-> "none"]
  BY DEF Init, PlatformInit, WorkerInit, GcInit, ApiInit
<1>2. \A g \in Goroutines : gor[g].pc = "idle"
  BY <1>1 DEF Idle
<1>3. ASSUME NEW u \in Tasks PROVE ContFits(u)
  <2>1. /\ rows[u].status = "absent" /\ rows[u].cid = NoCont /\ ~InHand(u)
        /\ (\A g \in Goroutines : ~Runs(g, u)) /\ rescue[u].pc = "idle"
        /\ stop[u].pc = "none" /\ run[u].pc = "new" /\ del[u] = "none"
    BY <1>1, <1>2 DEF NoRow, InHand, LoopStart, Runs, NoRescue, NoStop, NewRun
  <2>2. CidFits(u) /\ OrphansFit(u)
    BY <1>1, <2>1 DEF CidFits, OrphansFit
  <2>3. ~Early(u)
    BY <2>1 DEF Early
  <2>4. Calm(u) /\ InputFits(u)
    BY <1>1, <2>1, <2>3 DEF Calm, CalmFits, Alive, InputFits, NeedsInput, ActiveStatus
  <2> QED
    BY <2>2, <2>4 DEF ContFits
<1> QED
  BY <1>1, <1>2, <1>3, InitOwned DEF ContInv, Containers, Listed, GorCid

\* Every step keeps the invariant.
LEMMA NextContInv == ContInv /\ [Next]_vars => ContInv'
<1> SUFFICES ASSUME ContInv, [Next]_vars PROVE ContInv'
  OBVIOUS
<1>1. OwnInv' /\ OwnInv
  BY NextOwned DEF ContInv
<1>2. CASE Next
  <2>1. CASE ProcessEnds
    BY <1>1, <2>1, EndFits DEF ContInv
  <2>2. CASE Moves
    <3>1. Process => ProcessEnds \/ Boot \/ Terminate
      BY DEF Process, Crash, Abort, Exit, ExitEarly
    <3>2. Containers'
      BY <1>2, <2>2, <3>1, WorkerFits, GcFits, ApiFits, SchedFits, EnvFits, EndFits,
         PhaseStepFits DEF Next
    <3> QED
      BY <1>1, <3>2 DEF ContInv
  <2> QED
    BY <1>1, <1>2, <2>1, <2>2, NextMoves
<1>3. CASE UNCHANGED vars
  <2>1. UNCHANGED <<rows, conts, ws, faults, phase, worker, recoverQ, gor, rescue, sweep, run,
                    stop, del, deletions>>
    BY <1>3 DEF vars, platformVars, workerVars, gcVars, apiVars, histVars
  <2>2. Moves
    BY <2>1 DEF Moves, ContsMove
  <2>3. ASSUME NEW u \in Tasks PROVE ContFits(u)'
    <3>1. Kept(u) /\ InputKept(u)
      BY <2>1, HandsKept DEF Kept, HandsSame, InputKept
    <3> QED
      BY <2>1, <2>2, <3>1, FrameFits DEF ContInv, Containers, OwnInv, SlotInv, TypeOK
  <2> QED
    BY <1>1, <2>1, <2>2, <2>3, CidsStay DEF ContInv, Containers, Listed, Moves
<1> QED
  BY <1>2, <1>3

\* The invariant from which the theorems follow.
THEOREM ContainerInvariant == Spec => []ContInv
<1> QED
  BY InitContInv, NextContInv, PTL DEF Spec

\* A task that waits to be run still has its input, over crashes and recovery, as long as
\* no call failed and the task is not being deleted.
THEOREM InputsKept == Spec => []QueuedHasInput
<1>1. ContInv => QueuedHasInput
  <2> SUFFICES ASSUME ContInv, NEW t \in Tasks, rows[t].status \in {"queued", "scheduled"},
                      t \notin deletions, faults = 0
               PROVE  "input" \in ws[t]
    BY DEF QueuedHasInput
  <2>1. InputFits(t) /\ NeedsInput(t)
    BY DEF ContInv, Containers, ContFits, NeedsInput, ActiveStatus
  <2> QED
    BY <2>1 DEF InputFits
<1> QED
  BY <1>1, ContainerInvariant, PTL

\* Once the collector is done, the container of a running task that still runs is
\* waited for by a goroutine, or is about to be, as long as no call failed.
THEOREM LiveContainersWatched == Spec => []LiveContainerIsWatched
<1>1. ContInv => LiveContainerIsWatched
  <2> SUFFICES ASSUME ContInv, NEW t \in Tasks, Up, Alive(t), faults = 0
               PROVE  InRecoverQ(t) \/ RunBy(t) # {} \/ InHand(t)
    BY DEF LiveContainerIsWatched, Alive
  <2>1. InHands(t)
    BY DEF ContInv, Containers, ContFits, Calm, CalmFits, LookedAfter, Up
  <2> QED
    BY <2>1 DEF InHands, Runs, RunBy, Live
<1> QED
  BY <1>1, ContainerInvariant, PTL

==============================================================================
