------------------------------ MODULE ModelService ------------------------------
(***************************************************************************)
(* The models: the table "models", the images of the docker daemon, and    *)
(* the handlers that change them (internal/server/model.go with            *)
(* internal/service/model.go and internal/repository/model.go).  Every     *)
(* request runs in its own goroutine; a step is one call to the database   *)
(* or to the daemon.  A deleted model's image is removed by a goroutine    *)
(* nobody waits for.                                                       *)
(*                                                                         *)
(* An image is named by its tag.  The tag the service builds for model m,  *)
(* "pinn-model-<m>:latest", is written m; the tags in Foreign were made    *)
(* elsewhere.                                                              *)
(***************************************************************************)
EXTENDS Naturals

CONSTANTS
  Models,       \* model ids
  Foreign,      \* images that are not built by the service
  Requests,     \* HTTP requests, each sent once
  Absent,       \* "no row"
  NoImage,      \* the empty container_image
  MaxFailures,  \* bound: calls that fail without a reason the model knows
  MaxRestarts   \* bound: ends of the process

Images == Models \cup Foreign

ASSUME RegistryAssumption ==
  /\ Absent \notin Images /\ NoImage \notin Images /\ Absent # NoImage
  /\ Models \cap Foreign = {}
  /\ MaxFailures \in Nat /\ MaxRestarts \in Nat

VARIABLES
  models,    \* models[m]: container_image of the row of m, or Absent
  images,    \* tags the daemon has an image for
  removing,  \* removing[i]: background goroutines about to remove image i
  req,       \* req[r]: where the request is, and what it knows
  failures,  \* failed calls so far
  restarts,  \* ends of the process so far
  strained   \* history: models whose requests failed, overlapped, or had
             \* their tag named by hand

modelVars == <<models, images, removing, req, failures, restarts, strained>>

Kinds == {"add", "update", "delete", "build", "rebuild"}

(* The pc names the call: get, drop and get2, drop2 are the two DeleteModel *)
(* calls of HandleModelDelete; rmi removes an image, build builds one.      *)
RequestPCs == {"new", "insert", "exists", "get", "rmi", "build", "update",
               "drop", "get2", "drop2", "over"}

\* image is the one the request brings, row the image of the row it has read.
Request == [pc : RequestPCs, kind : Kinds, model : Models \cup {Absent},
            image : Images \cup {NoImage}, row : Images \cup {NoImage, Absent}]

Blank(pc) == [pc |-> pc, kind |-> "add", model |-> Absent, image |-> NoImage,
              row |-> Absent]

ModelTypeOK ==
  /\ models \in [Models -> Images \cup {NoImage, Absent}]
  /\ images \subseteq Images
  /\ removing \in [Images -> Nat]
  /\ req \in [Requests -> Request]
  /\ \A r \in Requests : req[r].pc = "rmi" => req[r].row # Absent
  /\ failures \in 0 .. MaxFailures
  /\ restarts \in 0 .. MaxRestarts
  /\ strained \subseteq Models

ModelInit ==
  /\ models = [m \in Models |-> Absent]
  /\ images \in SUBSET Foreign
  /\ removing = [i \in Images |-> 0]
  /\ req = [r \in Requests |-> Blank("new")]
  /\ failures = 0
  /\ restarts = 0
  /\ strained = {}

-----------------------------------------------------------------------------

InProgress(r) == req[r].pc \notin {"new", "over"}

\* Something is being done to model m, or to the image built for it.
Busy(m) ==
  \/ \E r \in Requests : InProgress(r) /\ req[r].model = m
  \/ removing[m] > 0

\* Models a request for m with image i may disturb: m if it is busy, and the
\* model whose tag the client wrote by hand.
Strains(m, i) == (IF Busy(m) THEN {m} ELSE {}) \cup ({i} \cap Models)

FirstPC(kind) ==
  CASE kind = "add" -> "insert"
    [] kind \in {"update", "delete"} -> "get"
    [] kind \in {"build", "rebuild"} -> "exists"

\* "both id and container_image are required" holds for POST /model only.
Send(r) ==
  /\ req[r].pc = "new"
  /\ \E kind \in Kinds, m \in Models, i \in Images \cup {NoImage} :
       /\ kind = "add" => i # NoImage
       /\ kind \in {"delete", "build", "rebuild"} => i = NoImage
       /\ req' = [req EXCEPT ![r] = [pc |-> FirstPC(kind), kind |-> kind,
                                     model |-> m, image |-> i, row |-> Absent]]
       /\ strained' = strained \cup Strains(m, i)
  /\ UNCHANGED <<models, images, removing, failures, restarts>>

At(r, pc) == req[r].pc = pc

Goto(r, pc) == req' = [req EXCEPT ![r].pc = pc]

Ends(r) == req' = [req EXCEPT ![r] = Blank("over")]

Ok == UNCHANGED <<failures, strained>>

\* A call of r fails: the daemon, the database, the client that went away, or
\* the build itself.
Fails(r) ==
  /\ failures < MaxFailures
  /\ failures' = failures + 1
  /\ strained' = strained \cup {req[r].model}

\* POST /model.  A second INSERT of an id is refused.
Insert(r) ==
  LET m == req[r].model
      inserted == [models EXCEPT ![m] =
                     IF models[m] = Absent
                     THEN (IF req[r].kind = "build" THEN m ELSE req[r].image) ELSE @]
  IN  /\ At(r, "insert")
      /\ \/ Ok /\ models' = inserted
         \/ Fails(r) /\ models' \in {models, inserted}
      /\ Ends(r)
      /\ UNCHANGED <<images, removing, restarts>>

\* The check of both builds: 409 for a model that exists, 404 for one that does
\* not.  What follows in the body may be missing or of another type.
CheckExists(r) ==
  /\ At(r, "exists")
  /\ \/ /\ Ok
        /\ IF req[r].kind = "build"
           THEN IF models[req[r].model] = Absent THEN Goto(r, "build") ELSE Ends(r)
           ELSE IF models[req[r].model] # Absent THEN Goto(r, "get") ELSE Ends(r)
     \/ Ok /\ Ends(r)
     \/ Fails(r) /\ Ends(r)
  /\ UNCHANGED <<models, images, removing, restarts>>

\* Faulty variant: no request looks whether there was a row.
GetModelUnchecked(r) ==
  LET row == models[req[r].model]
      next == CASE req[r].kind = "delete" -> "drop"
                [] req[r].kind = "rebuild" /\ row = NoImage -> "build"
                [] OTHER -> "rmi"
  IN  /\ At(r, "get")
      /\ \/ Ok /\ req' = [req EXCEPT ![r].row = row, ![r].pc = next]
         \/ Fails(r) /\ Ends(r)
      /\ UNCHANGED <<models, images, removing, restarts>>

\* GetModelByID.  PUT /model dereferences a nil model: the handler panics, and
\* net/http recovers.  A delete goes on without one.  A rebuild skips the
\* removal when the row names no image.
GetModel(r) ==
  LET row == models[req[r].model]
      next == CASE req[r].kind = "delete" -> "drop"
                [] req[r].kind = "rebuild" /\ row = NoImage -> "build"
                [] OTHER -> "rmi"
  IN  /\ At(r, "get")
      /\ \/ /\ Ok
            /\ IF row = Absent /\ req[r].kind # "delete" THEN Ends(r)
               ELSE req' = [req EXCEPT ![r].row = row, ![r].pc = next]
         \/ Fails(r) /\ Ends(r)
      /\ UNCHANGED <<models, images, removing, restarts>>

\* Faulty variant: a rebuild leaves the removal to a goroutine, as a delete does.
RemoveImageLater(r) ==
  /\ At(r, "rmi")
  /\ Ok
  /\ IF req[r].kind = "rebuild"
     THEN /\ removing' = [removing EXCEPT ![req[r].row] = @ + 1]
          /\ Goto(r, "build") /\ UNCHANGED images
     ELSE /\ images' = images \ {req[r].row} /\ UNCHANGED removing
          /\ IF req[r].row \in images THEN Goto(r, "update") ELSE Ends(r)
  /\ UNCHANGED <<models, restarts>>

\* RemoveImage.  Without an image it is an error, which ends PUT /model and is
\* a warning in a rebuild.
RemoveImage(r) ==
  /\ At(r, "rmi")
  /\ \/ /\ Ok
        /\ images' = images \ {req[r].row}
        /\ IF req[r].kind = "rebuild" THEN Goto(r, "build")
           ELSE IF req[r].row \in images THEN Goto(r, "update") ELSE Ends(r)
     \/ /\ Fails(r)
        /\ images' \in {images, images \ {req[r].row}}
        /\ IF req[r].kind = "rebuild" THEN Goto(r, "build") ELSE Ends(r)
  /\ UNCHANGED <<models, removing, restarts>>

\* BuildImage, under the tag of the model, then the row.
Build(r) ==
  LET m == req[r].model IN
  /\ At(r, "build")
  /\ \/ /\ Ok /\ images' = images \cup {m}
        /\ Goto(r, IF req[r].kind = "build" THEN "insert" ELSE "update")
     \/ Fails(r) /\ images' \in {images, images \cup {m}} /\ Ends(r)
  /\ UNCHANGED <<models, removing, restarts>>

\* UpdateModel: an UPDATE of a row that is gone is not an error.
Update(r) ==
  LET m == req[r].model
      image == IF req[r].kind = "rebuild" THEN m ELSE req[r].image
      updated == [models EXCEPT ![m] = IF @ = Absent THEN @ ELSE image]
  IN  /\ At(r, "update")
      /\ (Ok /\ models' = updated) \/ (Fails(r) /\ models' \in {models, updated})
      /\ Ends(r)
      /\ UNCHANGED <<images, removing, restarts>>

\* Faulty variant: the row is gone when its image is looked up.
DropRowFirst(r) ==
  /\ At(r, "drop") \/ At(r, "drop2")
  /\ Ok
  /\ models' = [models EXCEPT ![req[r].model] = Absent]
  /\ IF At(r, "drop") THEN req' = [req EXCEPT ![r].pc = "get2", ![r].row = Absent]
     ELSE Ends(r)
  /\ UNCHANGED <<images, removing, restarts>>

\* DELETE of the row, and the goroutine for the image if the service built it.
\* The handler calls DeleteModel a second time.
DropRow(r) ==
  /\ At(r, "drop") \/ At(r, "drop2")
  /\ \/ /\ Ok /\ models' = [models EXCEPT ![req[r].model] = Absent]
        /\ removing' = IF req[r].row \in Models
                       THEN [removing EXCEPT ![req[r].row] = @ + 1] ELSE removing
        /\ IF At(r, "drop")
           THEN req' = [req EXCEPT ![r].pc = "get2", ![r].row = Absent]
           ELSE Ends(r)
     \/ /\ Fails(r) /\ Ends(r) /\ UNCHANGED removing
        /\ models' \in {models, [models EXCEPT ![req[r].model] = Absent]}
  /\ UNCHANGED <<images, restarts>>

GetAgain(r) ==
  /\ At(r, "get2")
  /\ \/ Ok /\ req' = [req EXCEPT ![r].pc = "drop2", ![r].row = models[req[r].model]]
     \/ Fails(r) /\ Ends(r)
  /\ UNCHANGED <<models, images, removing, restarts>>

\* The goroutine of DeleteModel; an error is printed.
RemoveLater(i) ==
  /\ removing[i] > 0
  /\ removing' = [removing EXCEPT ![i] = @ - 1]
  /\ \/ Ok /\ images' = images \ {i}
     \/ /\ failures < MaxFailures /\ failures' = failures + 1
        /\ strained' = strained \cup ({i} \cap Models)
        /\ images' \in {images, images \ {i}}
  /\ UNCHANGED <<models, req, restarts>>

\* The process ends: requests and background removals are lost.
Restart ==
  /\ restarts < MaxRestarts
  /\ restarts' = restarts + 1
  /\ req' = [r \in Requests |-> IF InProgress(r) THEN Blank("over") ELSE req[r]]
  /\ removing' = [i \in Images |-> 0]
  /\ strained' = strained \cup {m \in Models : Busy(m)}
  /\ UNCHANGED <<models, images, failures>>

Handle(r) ==
  \/ Insert(r) \/ CheckExists(r) \/ GetModel(r) \/ RemoveImage(r) \/ Build(r)
  \/ Update(r) \/ DropRow(r) \/ GetAgain(r)

ModelNext ==
  \/ \E r \in Requests : Send(r) \/ Handle(r)
  \/ \E i \in Images : RemoveLater(i)
  \/ Restart

==============================================================================
