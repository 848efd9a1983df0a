----------------------------- MODULE ContainerStart -----------------------------
(***************************************************************************)
(* Manager.StartContainer of internal/docker/client.go, call by call: look *)
(* for the image, pull it, create a container, start it, and, when the GPU *)
(* driver refuses, do the last two again without a GPU.  The images are    *)
(* those the model service builds and removes meanwhile.                   *)
(*                                                                         *)
(* processTask never asks for a GPU; StartContainer handles callers that   *)
(* do, and they are modelled as such.                                      *)
(***************************************************************************)
EXTENDS ModelService

CONSTANTS
  Starts,      \* calls of StartContainer
  GpuStarts,   \* those with cfg.GPU
  Remote       \* images whose name has a slash or a dot

ASSUME StartAssumption == GpuStarts \subseteq Starts /\ Remote \subseteq Images

VARIABLES
  start,       \* start[s]: where the call is
  box,         \* box[s][k]: the k-th container it has created
  ended,       \* ended[s]: its context is done
  disturbed,   \* history: a call failed, or the context ended
  hasGPU       \* the field of Manager

startVars == <<start, box, ended, disturbed, hasGPU>>

\* undo is the removal before the second try, clean the one before an error.
StartPCs == {"new", "list", "pull", "create", "start", "undo", "clean",
             "started", "failed"}

StartTypeOK ==
  /\ start \in [Starts -> [pc : StartPCs, image : Images \cup {NoImage},
                           device : BOOLEAN, try : 1 .. 2]]
  /\ box \in [Starts -> [1 .. 2 -> {"none", "created", "running", "removed"}]]
  /\ ended \in [Starts -> BOOLEAN]
  /\ disturbed \in [Starts -> BOOLEAN]
  /\ hasGPU \in BOOLEAN

\* setGPUSupport finds the nvidia runtime, or not.
StartInit ==
  /\ start = [s \in Starts |-> [pc |-> "new", image |-> NoImage,
                                device |-> FALSE, try |-> 1]]
  /\ box = [s \in Starts |-> [k \in 1 .. 2 |-> "none"]]
  /\ ended = [s \in Starts |-> FALSE]
  /\ disturbed = [s \in Starts |-> FALSE]
  /\ hasGPU \in BOOLEAN

-----------------------------------------------------------------------------

StartAt(s, pc) == start[s].pc = pc

StartGoto(s, pc) == start' = [start EXCEPT ![s].pc = pc]

BoxBecomes(s, state) == box' = [box EXCEPT ![s][start[s].try] = state]

CallAnswers(s) == ~ended[s] /\ UNCHANGED <<failures, disturbed>>

CallFails(s) ==
  /\ disturbed' = [disturbed EXCEPT ![s] = TRUE]
  /\ \/ ended[s] /\ UNCHANGED failures
     \/ ~ended[s] /\ failures < MaxFailures /\ failures' = failures + 1

\* A task of a model whose row named an image when it was created.
StartRequest(s) ==
  /\ StartAt(s, "new")
  /\ \E m \in Models :
       /\ models[m] \in Images
       /\ start' = [start EXCEPT ![s].pc = "list", ![s].image = models[m]]
  /\ UNCHANGED <<box, ended, disturbed, hasGPU, images, failures>>

\* The task times out, or the process is told to stop.
ContextEnds(s) ==
  /\ start[s].pc \notin {"new", "started", "failed"} /\ ~ended[s]
  /\ ended' = [ended EXCEPT ![s] = TRUE]
  /\ disturbed' = [disturbed EXCEPT ![s] = TRUE]
  /\ UNCHANGED <<start, box, hasGPU, images, failures>>

\* isImageExists; a name that looks local is not pulled.
ListImages(s) ==
  /\ StartAt(s, "list")
  /\ \/ /\ CallAnswers(s)
        /\ StartGoto(s, IF start[s].image \in images THEN "create"
                        ELSE IF start[s].image \in Remote THEN "pull" ELSE "failed")
     \/ CallFails(s) /\ StartGoto(s, "failed")
  /\ UNCHANGED <<box, ended, hasGPU, images>>

\* ImagePull is refused, or its stream says whether it succeeded: the stream is
\* read to its end and not looked at.
PullImage(s) ==
  /\ StartAt(s, "pull")
  /\ \/ CallAnswers(s) /\ StartGoto(s, "failed") /\ UNCHANGED images
     \/ /\ images' \in {images, images \cup ({start[s].image} \cap Foreign)}
        /\ \/ CallAnswers(s) /\ StartGoto(s, "create")
           \/ CallFails(s) /\ StartGoto(s, "failed")
  /\ UNCHANGED <<box, ended, hasGPU>>

\* ContainerCreate, with a device request on the first try if there is a GPU.
\* After a lost reply the id of the container is not known.
CreateContainer(s) ==
  /\ StartAt(s, "create")
  /\ \/ /\ CallAnswers(s) /\ start[s].image \in images
        /\ BoxBecomes(s, "created")
        /\ start' = [start EXCEPT ![s].pc = "start",
             ![s].device = s \in GpuStarts /\ hasGPU /\ start[s].try = 1]
     \/ CallAnswers(s) /\ start[s].image \notin images
        /\ StartGoto(s, "failed") /\ UNCHANGED box
     \/ /\ CallFails(s) /\ StartGoto(s, "failed")
        /\ UNCHANGED box \/ BoxBecomes(s, "created")
  /\ UNCHANGED <<ended, hasGPU, images>>

\* ContainerStart: it runs; it is refused; the GPU driver is missing.
StartCreated(s) ==
  /\ StartAt(s, "start")
  /\ \/ CallAnswers(s) /\ BoxBecomes(s, "running") /\ StartGoto(s, "started")
     \/ CallAnswers(s) /\ UNCHANGED box /\ StartGoto(s, "clean")
     \/ CallAnswers(s) /\ start[s].device /\ UNCHANGED box /\ StartGoto(s, "undo")
     \/ /\ CallFails(s) /\ StartGoto(s, "clean")
        /\ UNCHANGED box \/ BoxBecomes(s, "running")
  /\ UNCHANGED <<ended, hasGPU, images>>

\* RemoveContainer does not force: a running container stays.
RemovesBox(s) ==
  \/ /\ CallAnswers(s)
     /\ IF box[s][start[s].try] = "created" THEN BoxBecomes(s, "removed")
        ELSE UNCHANGED box
  \/ CallFails(s) /\ UNCHANGED box

\* The fallback.  The error of the removal is logged and overwritten; hasGPU is
\* written without a lock.
FallBack(s) ==
  /\ StartAt(s, "undo")
  /\ RemovesBox(s)
  /\ start' = [start EXCEPT ![s].pc = "create", ![s].device = FALSE, ![s].try = 2]
  /\ hasGPU' = FALSE
  /\ UNCHANGED <<ended, images>>

\* Faulty variant: the container that did not start is left.
CleanUpForgotten(s) ==
  /\ StartAt(s, "clean")
  /\ StartGoto(s, "failed")
  /\ UNCHANGED <<box, ended, disturbed, hasGPU, images, failures>>

CleanUp(s) ==
  /\ StartAt(s, "clean")
  /\ RemovesBox(s)
  /\ StartGoto(s, "failed")
  /\ UNCHANGED <<ended, hasGPU, images>>

StartStep(s) ==
  \/ ListImages(s) \/ PullImage(s) \/ CreateContainer(s) \/ StartCreated(s)
  \/ FallBack(s) \/ CleanUp(s)

StartNext == \E s \in Starts : StartRequest(s) \/ ContextEnds(s) \/ StartStep(s)

==============================================================================
