---------------------------- MODULE ServerRunProofs ----------------------------
(***************************************************************************)
(* The end of the process is orderly (ServerRun), and its state is of its  *)
(* type, for any set of handlers, tasks and goroutines outside the         *)
(* WaitGroup.                                                              *)
(***************************************************************************)
EXTENDS ServerRun, TLAPS

States == {"none", "running", "returned"}

\* Nothing of the WaitGroup runs, and no request is in flight.
Settled == InFlight = {} /\ \A u \in Group : goroutine[u] # "running"

(* The order of the end.  Once Shutdown has begun no request is accepted,   *)
(* so what it has waited for stays away; and who is left of the WaitGroup   *)
(* when wg.Wait returns could only be started by one that is not.           *)
EndOrder ==
  /\ closing => listener # "serving"
  /\ main \in {"shutdown", "wait"} => closing /\ signalled
  /\ main = "wait" => InFlight = {}
  /\ main \in Closing /\ ~failed => closing /\ signalled /\ Settled

EndInv == goroutine \in [Users -> States] /\ EndOrder

-----------------------------------------------------------------------------

\* A call of the start-up is followed by another, or by a deferred call.
LEMMA StartupOrder ==
  \A c \in DOMAIN After :
    /\ After[c] \in {"docker", "storage", "migrate", "pool", "gc"}
    /\ Undo[c] \in {"exit", "closeDocker"}
BY DEF After, Undo

\* A goroutine that returns or is none of the WaitGroup and no handler leaves
\* what is settled settled, and InFlight no larger.
LEMMA OthersLeaveOrder ==
  ASSUME NEW u \in Users, NEW to \in States, EndInv,
         goroutine' = [goroutine EXCEPT ![u] = to],
         to # "running" \/ u \notin Group \cup Handlers,
         UNCHANGED <<main, failed, signalled, listener, closing>>
  PROVE  EndInv'
<1>1. goroutine' \in [Users -> States]
  BY DEF EndInv
<1>2. InFlight' \subseteq InFlight
  BY DEF EndInv, InFlight, Users
<1>3. Settled => Settled'
  BY <1>2 DEF EndInv, Settled, Group, Users
<1> QED
  BY <1>1, <1>2, <1>3 DEF EndInv, EndOrder

\* The steps of run() keep the order (main.go:44-107, server.go:91-104).
LEMMA MainKeepsOrder == ASSUME EndInv, MainStep PROVE EndInv'
<1> USE DEF EndInv, EndOrder, Closing
<1>1. CASE StartupCall
  <2>1. main' \notin {"shutdown", "wait"} /\ (main' \in Closing => failed')
    BY <1>1, StartupOrder DEF StartupCall
  <2> QED
    BY <1>1, <2>1 DEF StartupCall, userVars
<1>2. CASE StartServices
  BY <1>2 DEF StartServices, Moves, Users, States, Settled
<1>3. CASE Cleanup \/ EnterSelect
  BY <1>3 DEF Cleanup, EnterSelect, Moves, Quietly, userVars
<1>4. CASE BeginShutdown
  BY <1>4 DEF BeginShutdown, Moves, Quietly, userVars
<1>5. CASE ShutdownDone
  BY <1>5 DEF ShutdownDone, Moves, Quietly, userVars, InFlight
<1>6. CASE ShutdownTimesOut
  BY <1>6 DEF ShutdownTimesOut, Moves, userVars
<1>7. CASE WaitForGroup
  BY <1>7 DEF WaitForGroup, Moves, Quietly, userVars, Settled, InFlight
<1>8. CASE ClosePool \/ DrainPool \/ CloseDocker \/ Exit
  BY <1>8 DEF ClosePool, DrainPool, CloseDocker, Exit, Moves, Quietly, userVars,
              Settled, InFlight
<1> QED
  BY <1>1, <1>2, <1>3, <1>4, <1>5, <1>6, <1>7, <1>8 DEF MainStep

\* The listener keeps it: it serves only if no shutdown has begun, and an error
\* it hands over makes the end one with an error (server.go:78-89).
LEMMA ListenerKeepsOrder == ASSUME EndInv, ListenerStep \/ AcceptFails PROVE EndInv'
<1> USE DEF EndInv, EndOrder, Closing, Settled, InFlight, ListenerBecomes, mainVars, userVars
<1>1. CASE Bind
  BY <1>1 DEF Bind
<1>2. CASE Serve
  BY <1>2 DEF Serve
<1>3. CASE SendError
  BY <1>3 DEF SendError
<1>4. CASE AcceptFails
  BY <1>4 DEF AcceptFails
<1> QED
  BY <1>1, <1>2, <1>3, <1>4 DEF ListenerStep

\* Every step keeps it.
LEMMA NextKeepsOrder == ASSUME EndInv, [Next]_vars PROVE EndInv'
<1>1. CASE MainStep
  BY <1>1, MainKeepsOrder
<1>2. CASE ListenerStep \/ AcceptFails
  BY <1>2, ListenerKeepsOrder
<1>3. CASE Signal
  BY <1>3 DEF Signal, EndInv, EndOrder, Settled, InFlight, mainVars, userVars
<1>4. ASSUME NEW h \in Handlers, Accept(h) PROVE EndInv'
  <2>1. ~closing /\ main \notin {"shutdown", "wait"} /\ (main \in Closing => failed)
    BY <1>4 DEF Accept, EndInv, EndOrder
  <2>2. goroutine' \in [Users -> States]
    BY <1>4 DEF Accept, Becomes, EndInv, States
  <2> QED
    BY <1>4, <2>1, <2>2 DEF Accept, Becomes, EndInv, EndOrder, mainVars
<1>5. ASSUME NEW j \in Jobs, StartJob(j) PROVE EndInv'
  <2>1. goroutine' \in [Users -> States]
    BY <1>5 DEF StartJob, Becomes, EndInv, States
  <2>2. InFlight' = InFlight
    BY <1>5, ServerAssumption DEF StartJob, Becomes, EndInv, InFlight, Users
  <2>3. ~Settled
    BY <1>5 DEF StartJob, Running, Settled, Group, Services
  <2> QED
    BY <1>5, <2>1, <2>2, <2>3 DEF StartJob, Becomes, EndInv, EndOrder, mainVars
<1>6. ASSUME NEW b \in Strays, StartStray(b) PROVE EndInv'
  <2>1. b \in Users /\ b \notin Group \cup Handlers
    BY ServerAssumption DEF Users, Group
  <2> QED
    BY <1>6, <2>1, OthersLeaveOrder DEF StartStray, Becomes, mainVars, States
<1>7. ASSUME NEW u \in Users, Return(u) PROVE EndInv'
  BY <1>7, OthersLeaveOrder DEF Return, Becomes, mainVars, States
<1>8. ASSUME NEW u \in Users, Borrow(u) \/ GiveBack(u) PROVE EndInv'
  BY <1>8 DEF Borrow, GiveBack, EndInv, EndOrder, Settled, InFlight, mainVars
<1>9. CASE UNCHANGED vars
  BY <1>9 DEF vars, mainVars, userVars, EndInv, EndOrder, Settled, InFlight
<1>10. Services \subseteq Users
  BY DEF Users, Group
<1> QED
  BY <1>1, <1>2, <1>3, <1>4, <1>5, <1>6, <1>7, <1>8, <1>9, <1>10
     DEF Next, ServiceReturns

\* However many requests and tasks there are: unless run() ends with an error, the
\* pool and the client of the daemon are closed after a signal, when no request is
\* in flight and every goroutine of the WaitGroup has returned (main.go:57-104).
THEOREM EndIsOrderly == Spec => []OrderlyEnd
<1>1. Init => EndInv
  BY DEF Init, EndInv, EndOrder, Closing, States
<1>2. EndInv /\ [Next]_vars => EndInv'
  BY NextKeepsOrder
<1>3. EndInv => OrderlyEnd
  BY DEF EndInv, EndOrder, Settled, OrderlyEnd
<1> QED
  BY <1>1, <1>2, <1>3, PTL DEF Spec

-----------------------------------------------------------------------------
(* Types, and who may hold a connection. *)

\* A call of the start-up leads to a place of run().
LEMMA StartupPlaces ==
  /\ \A c \in DOMAIN After : c \in MainPCs /\ After[c] \in MainPCs /\ Undo[c] \in MainPCs
  /\ {"load", "gc", "start", "serve", "select", "shutdown", "wait"} \subseteq MainPCs
  /\ Closing \subseteq MainPCs
BY DEF After, Undo, MainPCs, Closing

\* A goroutine that changes its state holds no connection, and what is left of
\* the state keeps its type.
LEMMA BecomesTypes ==
  ASSUME ServerTypeOK, NEW u \in Users, NEW from \in States, NEW to \in States,
         Becomes(u, from, to), u \notin conns
  PROVE  ServerTypeOK'
<1>1. goroutine' \in [Users -> States] /\ \A v \in Users : v # u => goroutine'[v] = goroutine[v]
  BY DEF Becomes, ServerTypeOK, States
<1>2. conns' \subseteq {v \in Users : goroutine'[v] = "running"}
  BY <1>1 DEF Becomes, ServerTypeOK
<1> QED
  BY <1>1, <1>2 DEF Becomes, ServerTypeOK, States, mainVars

\* The steps of run() keep the types; the goroutines it starts only add to those
\* that run, so whoever holds a connection goes on running.
LEMMA MainKeepsTypes == ASSUME ServerTypeOK, MainStep PROVE ServerTypeOK'
<1> USE DEF ServerTypeOK, Closing
<1>1. CASE StartupCall
  <2>1. main' \in MainPCs /\ failed' \in BOOLEAN /\ pool' \in {"none", "open", "closed"}
    BY <1>1, StartupPlaces DEF StartupCall
  <2> QED
    BY <1>1, <2>1 DEF StartupCall, userVars
<1>2. CASE StartServices
  <2>1. goroutine' \in [Users -> States]
    BY <1>2 DEF StartServices, States
  <2>2. conns' \subseteq {u \in Users : goroutine'[u] = "running"}
    BY <1>2 DEF StartServices
  <2>3. main' \in MainPCs
    BY <1>2, StartupPlaces DEF StartServices, Moves
  <2> QED
    BY <1>2, <2>1, <2>2, <2>3 DEF StartServices, States
<1>3. CASE Cleanup \/ EnterSelect \/ BeginShutdown \/ ShutdownDone \/ ShutdownTimesOut
  <2>1. main' \in MainPCs
    BY <1>3, StartupPlaces
       DEF Cleanup, EnterSelect, BeginShutdown, ShutdownDone, ShutdownTimesOut, Moves
  <2> QED
    BY <1>3, <2>1 DEF Cleanup, EnterSelect, BeginShutdown, ShutdownDone, ShutdownTimesOut,
                      Quietly, userVars
<1>4. CASE WaitForGroup \/ ClosePool \/ DrainPool \/ CloseDocker \/ Exit
  <2>1. main' \in MainPCs
    BY <1>4, StartupPlaces DEF WaitForGroup, ClosePool, DrainPool, CloseDocker, Exit, Moves
  <2> QED
    BY <1>4, <2>1 DEF WaitForGroup, ClosePool, DrainPool, CloseDocker, Exit, Quietly, userVars
<1> QED
  BY <1>1, <1>2, <1>3, <1>4 DEF MainStep

\* Every step keeps the types.
LEMMA NextKeepsTypes == ASSUME ServerTypeOK, [Next]_vars PROVE ServerTypeOK'
<1>1. CASE MainStep
  BY <1>1, MainKeepsTypes
<1>2. CASE ListenerStep \/ AcceptFails
  <2>1. main' \in MainPCs /\ failed' \in BOOLEAN
    BY <1>2, StartupPlaces DEF ServerTypeOK, ListenerStep, AcceptFails, Bind, Serve, SendError,
       mainVars, Closing
  <2> QED
    BY <1>2, <2>1 DEF ServerTypeOK, ListenerStep, AcceptFails, Bind, Serve, SendError,
       ListenerBecomes, userVars
<1>3. CASE Signal
  BY <1>3 DEF Signal, ServerTypeOK, mainVars, userVars
<1>4. ASSUME NEW u \in Users, Becomes(u, "none", "running") PROVE ServerTypeOK'
  <2>1. u \notin conns
    BY <1>4 DEF Becomes, ServerTypeOK
  <2> QED
    BY <1>4, <2>1, BecomesTypes DEF States
<1>5. ASSUME NEW u \in Users, Return(u) PROVE ServerTypeOK'
  BY <1>5, BecomesTypes DEF Return, States
<1>6. ASSUME NEW u \in Users, Borrow(u) \/ GiveBack(u) PROVE ServerTypeOK'
  BY <1>6 DEF Borrow, GiveBack, Running, ServerTypeOK, mainVars
<1>7. Handlers \cup Jobs \cup Strays \cup Services \subseteq Users
  BY DEF Users, Group
<1>8. CASE UNCHANGED vars
  BY <1>8 DEF vars, mainVars, userVars, ServerTypeOK
<1> QED
  BY <1>1, <1>2, <1>3, <1>4, <1>5, <1>6, <1>7, <1>8
     DEF Next, Accept, StartJob, StartStray, ServiceReturns

\* The state of run() and its goroutines keeps its type; with it, a connection of
\* the pool is held by a goroutine that runs, never by one that has returned.
THEOREM ServerTypes == Spec => []ServerTypeOK
<1>1. Init => ServerTypeOK
  BY StartupPlaces DEF Init, ServerTypeOK
<1>2. ServerTypeOK /\ [Next]_vars => ServerTypeOK'
  BY NextKeepsTypes
<1> QED
  BY <1>1, <1>2, PTL DEF Spec

==============================================================================
