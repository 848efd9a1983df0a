----------------------------- MODULE TaskLifecycle -----------------------------
(***************************************************************************)
(* What the service promises about the life of a task, as a client sees it *)
(* in the table: which status may follow which, and on whose account.  A   *)
(* task is held while some part of the process works on it; only a holder  *)
(* runs, completes, fails or requeues a task, nobody claims a task that is *)
(* held, and a completed task names a result of a request with the same    *)
(* signature.  PinnConnect implements this: see LifecycleRefined.          *)
(***************************************************************************)
EXTENDS TaskStore

VARIABLES
  status,   \* status[t]: status of the row, or absent
  result,   \* result[t]: result path of the row
  held      \* held[t]: some part of the process works on t

lifeVars == <<status, result, held>>

\* Results t may be given: its own, or a cached one.
ResultsOf(t) == {p \in Paths : Sig[p[1]] = Sig[t]}

LifeInit ==
  /\ status = [t \in Tasks |-> "absent"]
  /\ result = [t \in Tasks |-> NoPath]
  /\ held = [t \in Tasks |-> FALSE]

Becomes(t, st) == status' = [status EXCEPT ![t] = st]

\* Whoever works on t goes on, or this was the last thing to do.
MayLetGo(t) == held' \in {held, [held EXCEPT ![t] = FALSE]}

\* A run request: to be run now, later, or already answered from the cache.
Submit(t) ==
  /\ status[t] = "absent" /\ ~held[t] /\ UNCHANGED held
  /\ \/ \E st \in {"queued", "scheduled"} : Becomes(t, st) /\ UNCHANGED result
     \/ /\ Becomes(t, "completed")
        /\ \E p \in ResultsOf(t) : result' = [result EXCEPT ![t] = p]

\* The time of a scheduled task has come.
Wake(t) ==
  /\ status[t] = "scheduled" /\ Becomes(t, "queued")
  /\ UNCHANGED <<result, held>>

\* The worker takes a waiting task, or takes it and never hears of it.
Claim(t) ==
  /\ status[t] = "queued" /\ ~held[t] /\ Becomes(t, "running")
  /\ held' \in {held, [held EXCEPT ![t] = TRUE]}
  /\ UNCHANGED result

\* The container runs, whether or not the task was stopped meanwhile.
Run(t) ==
  /\ held[t] /\ status[t] \in {"running", "stopped"} /\ Becomes(t, "running")
  /\ MayLetGo(t) /\ UNCHANGED result

Complete(t) ==
  /\ held[t] /\ status[t] \in {"queued", "running", "stopped"} /\ Becomes(t, "completed")
  /\ \E p \in ResultsOf(t) : result' = [result EXCEPT ![t] = p]
  /\ MayLetGo(t)

Fail(t) ==
  /\ held[t] /\ status[t] \in {"running", "completed"} /\ Becomes(t, "failed")
  /\ MayLetGo(t) /\ UNCHANGED result

\* Stopped by a client, or by its timeout.
Stop(t) ==
  /\ status[t] # "absent" /\ Becomes(t, "stopped")
  /\ MayLetGo(t) /\ UNCHANGED result

Delete(t) ==
  /\ status[t] # "absent" /\ Becomes(t, "absent")
  /\ result' = [result EXCEPT ![t] = NoPath]
  /\ UNCHANGED held

\* Recovery finds that the container of a running task is gone.
Requeue(t) ==
  /\ held[t] /\ status[t] = "running" /\ Becomes(t, "queued")
  /\ MayLetGo(t) /\ UNCHANGED result

Release(t) ==
  /\ held[t] /\ held' = [held EXCEPT ![t] = FALSE]
  /\ UNCHANGED <<status, result>>

\* A new process takes charge of tasks it finds running.
Recover ==
  /\ \E ts \in SUBSET {t \in Tasks : status[t] = "running"} :
       held' = [t \in Tasks |-> held[t] \/ t \in ts]
  /\ UNCHANGED <<status, result>>

ProcessLost ==
  /\ held' = [t \in Tasks |-> FALSE]
  /\ UNCHANGED <<status, result>>

LifeStep(t) ==
  \/ Submit(t) \/ Wake(t) \/ Claim(t) \/ Run(t) \/ Complete(t) \/ Fail(t)
  \/ Stop(t) \/ Delete(t) \/ Requeue(t) \/ Release(t)

LifeNext == (\E t \in Tasks : LifeStep(t)) \/ Recover \/ ProcessLost

LifeSpec == LifeInit /\ [][LifeNext]_lifeVars

==============================================================================
