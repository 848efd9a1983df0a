------------------------------- MODULE ServerRun -------------------------------
(***************************************************************************)
(* How the process starts, serves and ends: run() of cmd/server/main.go    *)
(* with its deferred calls, Server.Run and the goroutine that listens      *)
(* (internal/server/server.go), the goroutines of the WaitGroup, and those *)
(* nobody waits for.  What they do in between is in PinnConnect; here they *)
(* only borrow connections of the pool.                                    *)
(***************************************************************************)
EXTENDS FiniteSets

CONSTANTS
  Handlers,    \* HTTP requests
  Jobs,        \* goroutines of tasks, started by the worker loop
  Recovered,   \* those that wait for a recovered task, without a slot
  Strays       \* timers and image removals, outside the WaitGroup

Services == {"worker", "scheduler", "cpu"}
Group == Services \cup Jobs
Users == Group \cup Handlers \cup Strays

ASSUME ServerAssumption ==
  /\ Recovered \subseteq Jobs
  /\ Services \cap (Jobs \cup Handlers \cup Strays) = {}
  /\ Jobs \cap (Handlers \cup Strays) = {} /\ Handlers \cap Strays = {}

VARIABLES
  main,       \* the call run() is in
  failed,     \* run() returns an error
  code,       \* exit code of the process, or "none"
  signalled,  \* SIGTERM or an interrupt has come: ctx is done
  listener,   \* the goroutine of Server.Run
  closing,    \* the inShutdown flag of http.Server
  goroutine,  \* goroutine[u]: none, running or returned
  pool,       \* none, open or closed
  conns       \* who holds a connection of the pool

mainVars == <<main, failed>>
userVars == <<goroutine, conns>>
vars == <<mainVars, code, signalled, listener, closing, userVars, pool>>

\* The calls of run() before the server, each with the one after it, and the
\* deferred call that runs first when it fails.
After == [load |-> "docker", docker |-> "storage", storage |-> "migrate",
          migrate |-> "pool", pool |-> "gc"]
Undo == [c \in DOMAIN After |-> IF c \in {"load", "docker"} THEN "exit" ELSE "closeDocker"]

\* serve is the code of Server.Run between the go statement and the select.
Closing == {"closePool", "drainPool", "closeDocker", "exit", "over"}
MainPCs == DOMAIN After \cup Closing
             \cup {"gc", "start", "serve", "select", "shutdown", "wait"}

ServerTypeOK ==
  /\ main \in MainPCs /\ failed \in BOOLEAN /\ code \in {"none", "zero", "one"}
  /\ signalled \in BOOLEAN /\ closing \in BOOLEAN
  /\ listener \in {"none", "starting", "bound", "serving", "failed", "over"}
  /\ goroutine \in [Users -> {"none", "running", "returned"}]
  /\ pool \in {"none", "open", "closed"}
  /\ conns \subseteq {u \in Users : goroutine[u] = "running"}

Init ==
  /\ main = "load" /\ failed = FALSE /\ code = "none"
  /\ signalled = FALSE /\ listener = "none" /\ closing = FALSE
  /\ goroutine = [u \in Users |-> "none"]
  /\ pool = "none" /\ conns = {}

Up == code = "none"

Running(u) == Up /\ goroutine[u] = "running"

InFlight == {h \in Handlers : goroutine[h] = "running"}

-----------------------------------------------------------------------------
(* run() *)

StartupCall ==
  /\ main \in DOMAIN After
  /\ \/ main' = After[main] /\ UNCHANGED failed
     \/ main' = Undo[main] /\ failed' = TRUE
  /\ pool' = IF main' = "gc" THEN "open" ELSE pool
  /\ UNCHANGED <<code, signalled, listener, closing, userVars>>

Moves(from, to) == main = from /\ main' = to

Quietly == UNCHANGED <<failed, code, signalled, userVars>>

\* gc.Cleanup waits for its own goroutines and has no error.
Cleanup == Moves("gc", "start") /\ Quietly /\ UNCHANGED <<listener, closing, pool>>

\* StartWorker, StartScheduler, StartCPULoadFetcher; Run starts the listener.
StartServices ==
  /\ Moves("start", "serve")
  /\ goroutine' = [u \in Users |-> IF u \in Services THEN "running" ELSE goroutine[u]]
  /\ listener' = "starting"
  /\ UNCHANGED <<failed, code, signalled, closing, conns, pool>>

EnterSelect == Moves("serve", "select") /\ Quietly /\ UNCHANGED <<listener, closing, pool>>

\* case <-ctx.Done(), and the beginning of Shutdown, which closes the listener.
BeginShutdown ==
  /\ Moves("select", "shutdown") /\ signalled
  /\ closing' = TRUE
  /\ listener' = IF listener = "serving" THEN "over" ELSE listener
  /\ Quietly /\ UNCHANGED pool

ShutdownDone ==
  /\ Moves("shutdown", "wait") /\ InFlight = {}
  /\ Quietly /\ UNCHANGED <<listener, closing, pool>>

\* Faulty variant: Shutdown gets a context without a timeout.
ShutdownPatient == ShutdownDone

\* The ten seconds are over: Run returns an error.
ShutdownTimesOut ==
  /\ Moves("shutdown", "closePool") /\ InFlight # {}
  /\ failed' = TRUE
  /\ UNCHANGED <<code, signalled, listener, closing, userVars, pool>>

\* Faulty variant: recovered tasks are started by a plain go statement.
WaitForSlots ==
  /\ Moves("wait", "closePool") /\ \A u \in Group \ Recovered : goroutine[u] # "running"
  /\ Quietly /\ UNCHANGED <<listener, closing, pool>>

\* wg.Wait().
WaitForGroup ==
  /\ Moves("wait", "closePool") /\ \A u \in Group : goroutine[u] # "running"
  /\ Quietly /\ UNCHANGED <<listener, closing, pool>>

\* The deferred calls, last one first.  Close of the pool lends no more
\* connections and waits for those that are out.
ClosePool ==
  /\ Moves("closePool", "drainPool") /\ pool' = "closed"
  /\ Quietly /\ UNCHANGED <<listener, closing>>

DrainPool ==
  /\ Moves("drainPool", "closeDocker") /\ conns = {}
  /\ Quietly /\ UNCHANGED <<listener, closing, pool>>

CloseDocker == Moves("closeDocker", "exit") /\ Quietly /\ UNCHANGED <<listener, closing, pool>>

\* main(): os.Exit, or its return, ends every goroutine.
Exit ==
  /\ Moves("exit", "over")
  /\ code' = IF failed THEN "one" ELSE "zero"
  /\ UNCHANGED <<failed, signalled, listener, closing, userVars, pool>>

MainStep ==
  \/ StartupCall \/ Cleanup \/ StartServices \/ EnterSelect \/ BeginShutdown
  \/ ShutdownDone \/ ShutdownTimesOut \/ WaitForGroup \/ ClosePool \/ DrainPool
  \/ CloseDocker \/ Exit

-----------------------------------------------------------------------------
(* The goroutine of Server.Run *)

ListenerBecomes(from, to) ==
  /\ Up /\ listener = from /\ listener' = to
  /\ UNCHANGED <<code, signalled, closing, userVars, pool>>

\* ListenAndServe looks for a shutdown before it binds and before it serves.
Bind ==
  /\ IF closing THEN ListenerBecomes("starting", "over")
     ELSE \E to \in {"bound", "failed"} : ListenerBecomes("starting", to)
  /\ UNCHANGED mainVars

Serve ==
  /\ ListenerBecomes("bound", IF closing THEN "over" ELSE "serving")
  /\ UNCHANGED mainVars

AcceptFails == ListenerBecomes("serving", "failed") /\ UNCHANGED mainVars

\* Faulty variant: nobody receives from errch.
ErrorDropped == ListenerBecomes("failed", "over") /\ UNCHANGED mainVars

\* errch is not buffered: the error arrives only if Run waits in its select;
\* otherwise the default branch logs it.
SendError ==
  /\ ListenerBecomes("failed", "over")
  /\ IF main = "select" THEN main' = "closePool" /\ failed' = TRUE
     ELSE UNCHANGED mainVars

ListenerStep == Bind \/ Serve \/ SendError

-----------------------------------------------------------------------------
(* Everybody else *)

Becomes(u, from, to) ==
  /\ Up /\ goroutine[u] = from
  /\ goroutine' = [goroutine EXCEPT ![u] = to]
  /\ UNCHANGED <<mainVars, code, signalled, listener, closing, conns, pool>>

Accept(h) == listener = "serving" /\ Becomes(h, "none", "running")

\* The loop claims a task, or takes a recovered one.
StartJob(j) == Running("worker") /\ Becomes(j, "none", "running")

\* A tick of the scheduler, or DeleteModel.
StartStray(b) ==
  /\ Running("scheduler") \/ InFlight # {}
  /\ Becomes(b, "none", "running")

\* Faulty variant: the rows of a query are not closed.
ReturnLending(u) == Becomes(u, "running", "returned")

Return(u) == u \notin conns /\ Becomes(u, "running", "returned")

\* The services return when ctx is done; the worker loop when the tasks that
\* hold a slot have given it back.
ServiceReturns(u) ==
  /\ signalled /\ Return(u)
  /\ u = "worker" => \A j \in Jobs \ Recovered : goroutine[j] # "running"

\* The fetcher of the CPU load needs none.
Borrow(u) ==
  /\ u # "cpu" /\ Running(u) /\ pool = "open" /\ u \notin conns
  /\ conns' = conns \cup {u}
  /\ UNCHANGED <<mainVars, code, signalled, listener, closing, goroutine, pool>>

GiveBack(u) ==
  /\ Up /\ u \in conns
  /\ conns' = conns \ {u}
  /\ UNCHANGED <<mainVars, code, signalled, listener, closing, goroutine, pool>>

Signal ==
  /\ Up /\ ~signalled /\ signalled' = TRUE
  /\ UNCHANGED <<mainVars, code, listener, closing, userVars, pool>>

Next ==
  \/ MainStep \/ ListenerStep \/ AcceptFails \/ Signal
  \/ \E h \in Handlers : Accept(h)
  \/ \E j \in Jobs : StartJob(j)
  \/ \E b \in Strays : StartStray(b)
  \/ \E u \in Users : Borrow(u) \/ GiveBack(u)
  \/ \E u \in Services : ServiceReturns(u)
  \/ \E u \in Users \ Services : Return(u)

Spec == Init /\ [][Next]_vars

\* run() and the listener go on when they can; a timer of ten seconds fires;
\* queries end, and so do tasks once ctx is done.  A service whose select has
\* both a tick and ctx.Done is not unlucky for ever.  A handler may take as
\* long as it likes.
Fairness ==
  /\ WF_vars(MainStep) /\ WF_vars(ListenerStep)
  /\ \A u \in Users : WF_vars(GiveBack(u))
  /\ \A u \in Services : SF_vars(ServiceReturns(u))
  /\ \A j \in Jobs : SF_vars(Return(j) /\ signalled)

FairSpec == Spec /\ Fairness

-----------------------------------------------------------------------------
(* Properties *)

\* Unless an error ends it, run() closes the pool and the daemon's client only
\* after a signal, when no request is in flight and every goroutine of the
\* WaitGroup has returned: no task loses its connections in the middle.
OrderlyEnd ==
  main \in Closing /\ ~failed =>
    signalled /\ InFlight = {} /\ \A u \in Group : goroutine[u] # "running"

\* A signal ends the process wherever run() is, though requests hang, a listen
\* error was dropped or the pool is lent out (main.go:45, server.go:95).
SignalEndsProcess == signalled ~> ~Up

\* A server that cannot listen ends the process with an error, if Run is waiting
\* by then (server.go:84); before it waits, the error is lost.
ListenErrorReported ==
  (listener = "failed" /\ main = "select") ~> (code = "one" \/ signalled)

==============================================================================
