---------------------------- MODULE RegistryProofs ----------------------------
(***************************************************************************)
(* Theorems about Registry, for any models, images, requests and starts.   *)
(*                                                                         *)
(* For the images the argument is who may touch the tag of a model m that  *)
(* is not strained: at most one request, or one background removal, and    *)
(* the removal only once the row is gone; every other row, request and     *)
(* image read before names another tag.  What the row and the daemon say   *)
(* of m is then a function of the place of that request.                   *)
(*                                                                         *)
(* For the starts it is what a call has created by its place, and that     *)
(* nothing is left by a call that nothing disturbed.                       *)
(***************************************************************************)
EXTENDS Registry, FiniteSetTheorems, TLAPS

-----------------------------------------------------------------------------
(* The inductive invariant of the models. *)

Works(r, m) == InProgress(r) /\ req[r].model = m

\* The row of m names the image of m exactly when the daemon has it.
InStep(m) == models[m] = m <=> m \in images

\* What holds of m at each place of the request that works on it.
Place(r, m) ==
  /\ req[r].pc = "insert" =>
       IF req[r].kind = "build" THEN models[m] = Absent /\ m \in images
       ELSE InStep(m)
  /\ req[r].pc \in {"exists", "get"} => InStep(m)
  /\ req[r].pc \in {"rmi", "drop"} => InStep(m) /\ req[r].row = models[m]
  /\ req[r].pc = "build" =>
       /\ m \notin images
       /\ \/ req[r].kind = "build" /\ models[m] = Absent
          \/ req[r].kind = "rebuild" /\ models[m] # Absent
  /\ req[r].pc = "update" =>
       IF req[r].kind = "rebuild" THEN models[m] # Absent /\ m \in images
       ELSE m \notin images
  /\ req[r].pc \in {"get2", "drop2"} =>
       /\ models[m] = Absent /\ req[r].row = Absent
       /\ removing[m] = 0 => m \notin images
  /\ removing[m] > 0 => req[r].pc \in {"get2", "drop2"}

\* Nobody but m names the image of m.
OwnTag(m) ==
  /\ \A r \in Requests : req[r].image # m /\ (req[r].row = m => req[r].model = m)
  /\ \A n \in Models : models[n] = m => n = m

OneAtATime(m) ==
  /\ removing[m] \in {0, 1}
  /\ \A q, r \in Requests : Works(q, m) /\ Works(r, m) => q = r

AtRest(m) ==
  (\A r \in Requests : ~Works(r, m)) =>
    IF removing[m] > 0 THEN models[m] = Absent ELSE InStep(m)

Fits(m) ==
  /\ OwnTag(m) /\ OneAtATime(m) /\ AtRest(m)
  /\ \A r \in Requests : Works(r, m) => Place(r, m)

Addressed == \A r \in Requests : InProgress(r) => req[r].model \in Models

ModelInv ==
  /\ ModelTypeOK /\ Addressed
  /\ \A m \in Models : m \notin strained => Fits(m)

-----------------------------------------------------------------------------
(* The inductive invariant of the starts. *)

Returned == {"started", "failed"}

\* The container of the try that is under way, by the place of the call.
Current(s) ==
  LET b == box[s][start[s].try] IN
  /\ start[s].pc \in {"new", "list", "pull", "create"} => b = "none"
  /\ start[s].pc \in {"start", "undo"} => b = "created"
  /\ start[s].pc = "clean" => b = "created" \/ (b = "running" /\ disturbed[s])

\* The tries: a second one belongs to a start with a GPU, and has the first
\* container behind it, which is gone unless its removal failed.
Tries(s) ==
  /\ start[s].pc \in {"new", "list", "pull", "undo"} => start[s].try = 1
  /\ (start[s].pc = "start" /\ start[s].device) => start[s].try = 1 /\ s \in GpuStarts
  /\ start[s].pc = "undo" => s \in GpuStarts
  /\ start[s].try = 1 => box[s][2] = "none"
  /\ start[s].try = 2 =>
       /\ s \in GpuStarts
       /\ box[s][1] = "removed" \/ (box[s][1] = "created" /\ disturbed[s])

StartFits(s) ==
  /\ start[s].pc \notin Returned => Current(s) /\ Tries(s)
  /\ ended[s] => disturbed[s]
  /\ start[s].pc = "new" => ~disturbed[s]

StartInv == StartTypeOK /\ \A s \in Starts : StartFits(s)

RegistryInv == ModelInv /\ StartInv

-----------------------------------------------------------------------------
(* The models: types. *)

\* The image ids, the models and the two marks are different things.
LEMMA Apart ==
  /\ Models \subseteq Images /\ Foreign \subseteq Images
  /\ Absent \notin Images /\ NoImage \notin Images /\ Absent # NoImage
  /\ Absent \notin Models /\ NoImage \notin Models
  /\ \A m \in Models : m # Absent /\ m # NoImage /\ m \notin Foreign
  /\ MaxFailures \in Nat /\ MaxRestarts \in Nat
BY RegistryAssumption DEF Images

\* A request that is over is as blank as a new one.
LEMMA BlankTypes ==
  /\ Blank("new") \in Request /\ Blank("over") \in Request
  /\ Blank("over").pc = "over" /\ Blank("over").image = NoImage
  /\ Blank("over").row = Absent /\ Blank("over").model = Absent
  /\ Blank("new").pc = "new" /\ Blank("new").image = NoImage
  /\ Blank("new").row = Absent /\ Blank("new").model = Absent
BY DEF Blank, Request, RequestPCs, Kinds

\* What a request is.
LEMMA RequestFields ==
  ASSUME ModelTypeOK, NEW r \in Requests
  PROVE  /\ req[r] \in Request
         /\ req[r].pc \in RequestPCs /\ req[r].kind \in Kinds
         /\ req[r].model \in Models \cup {Absent}
         /\ req[r].image \in Images \cup {NoImage}
         /\ req[r].row \in Images \cup {NoImage, Absent}
BY DEF ModelTypeOK, Request

\* A handler moves its own request on, or ends it, and knows no more than the
\* row it has read.
Moves(r) ==
  /\ InProgress(r)
  /\ req' = [req EXCEPT ![r] = req'[r]]
  /\ \/ req'[r] = Blank("over")
     \/ /\ req'[r].pc \in RequestPCs \ {"new", "over"}
        /\ req'[r].kind = req[r].kind /\ req'[r].model = req[r].model
        /\ req'[r].image = req[r].image
        /\ req'[r].row \in {req[r].row, Absent, models[req[r].model]}
        /\ req'[r].pc = "rmi" => req'[r].row # Absent
        /\ req'[r] \in Request

\* It changes its own row only, to Absent, to the image it brings or to the one
\* the service builds.
TouchesRow(r) ==
  \/ models' = models
  \/ \E i \in {Absent, req[r].model, req[r].image} :
       models' = [models EXCEPT ![req[r].model] = i]

\* It changes the image of its own model and images it has read or builds.
TouchesImages(r) ==
  \/ images' = images
  \/ images' = images \ {req[r].row} /\ req[r].row # Absent
  \/ images' = images \cup {req[r].model}

TouchesRemovals(r) ==
  \/ removing' = removing
  \/ req[r].row \in Models /\ removing' = [removing EXCEPT ![req[r].row] = @ + 1]

TouchesHistory(r) ==
  /\ restarts' = restarts
  /\ \/ strained' = strained /\ failures' = failures
     \/ /\ strained' = strained \cup {req[r].model}
        /\ failures' = failures + 1 /\ failures < MaxFailures

Touches(r) ==
  Moves(r) /\ TouchesRow(r) /\ TouchesImages(r) /\ TouchesRemovals(r) /\ TouchesHistory(r)

\* Goto moves a request.
LEMMA GotoMoves ==
  ASSUME ModelTypeOK, Addressed, NEW r \in Requests, InProgress(r),
         NEW pc \in RequestPCs \ {"new", "over"}, Goto(r, pc),
         pc = "rmi" => req[r].row # Absent
  PROVE  Moves(r)
<1>1. req \in [Requests -> Request] /\ req[r] \in Request
  BY DEF ModelTypeOK
<1>2. req' = [req EXCEPT ![r] = [req[r] EXCEPT !.pc = pc]]
  BY DEF Goto
<1>3. req'[r] = [req[r] EXCEPT !.pc = pc] /\ req' = [req EXCEPT ![r] = req'[r]]
  BY <1>1, <1>2
<1>4. [req[r] EXCEPT !.pc = pc] \in Request
  BY <1>1 DEF Request
<1> QED
  BY <1>1, <1>3, <1>4 DEF Moves, Request

\* So does an end.
LEMMA EndMoves ==
  ASSUME ModelTypeOK, NEW r \in Requests, InProgress(r), Ends(r)
  PROVE  Moves(r) /\ req'[r] = Blank("over")
BY DEF Moves, Ends, ModelTypeOK

\* And a step that reads, or forgets, the row.
LEMMA ReadMoves ==
  ASSUME ModelTypeOK, Addressed, NEW r \in Requests, InProgress(r),
         NEW pc \in RequestPCs \ {"new", "over"},
         NEW row \in {Absent, models[req[r].model]},
         req' = [req EXCEPT ![r].row = row, ![r].pc = pc],
         pc = "rmi" => row # Absent
  PROVE  Moves(r) /\ req'[r].pc = pc /\ req'[r].row = row
<1>1. req \in [Requests -> Request] /\ req[r] \in Request
  BY DEF ModelTypeOK
<1>2. models[req[r].model] \in Images \cup {NoImage, Absent}
  BY DEF Addressed, ModelTypeOK
<1>3. req'[r] = [req[r] EXCEPT !.row = row, !.pc = pc] /\ req' = [req EXCEPT ![r] = req'[r]]
  BY <1>1
<1>4. [req[r] EXCEPT !.row = row, !.pc = pc] \in Request
  BY <1>1, <1>2 DEF Request
<1> QED
  BY <1>1, <1>3, <1>4 DEF Moves, Request

\* The ways a call ends: it answers, or it fails and strains its model.
LEMMA Histories ==
  ASSUME NEW r \in Requests, restarts' = restarts, Ok \/ Fails(r)
  PROVE  TouchesHistory(r)
BY DEF Ok, Fails, TouchesHistory

\* Insert, within those limits.
LEMMA InsertTouches ==
  ASSUME ModelTypeOK, Addressed, NEW r \in Requests, Insert(r)
  PROVE  Touches(r) /\ At(r, "insert") /\ req'[r] = Blank("over") /\ images' = images /\ removing' = removing
<1>1. InProgress(r) /\ At(r, "insert") /\ req[r].model \in Models
  BY DEF Insert, At, InProgress, Addressed
<1>2. Moves(r) /\ req'[r] = Blank("over")
  BY <1>1, EndMoves DEF Insert
<1>3. models = [models EXCEPT ![req[r].model] = models[req[r].model]]
  BY DEF ModelTypeOK
<1>4. TouchesRow(r)
  <2> DEFINE d == IF models[req[r].model] = Absent
                  THEN (IF req[r].kind = "build" THEN req[r].model ELSE req[r].image)
                  ELSE models[req[r].model]
  <2>1. models' = models \/ models' = [models EXCEPT ![req[r].model] = d]
    BY DEF Insert
  <2>2. d \in {Absent, req[r].model, req[r].image} \/ [models EXCEPT ![req[r].model] = d] = models
    BY <1>3
  <2> QED
    BY <2>1, <2>2 DEF TouchesRow
<1> QED
  BY <1>1, <1>2, <1>4, Histories DEF Insert, Touches, TouchesImages, TouchesRemovals

\* CheckExists.
LEMMA CheckExistsTouches ==
  ASSUME ModelTypeOK, Addressed, NEW r \in Requests, CheckExists(r)
  PROVE  Touches(r) /\ At(r, "exists") /\ models' = models /\ images' = images /\ removing' = removing
<1>1. InProgress(r) /\ At(r, "exists")
  BY DEF CheckExists, At, InProgress
<1>2. Goto(r, "build") \/ Goto(r, "get") \/ Ends(r)
  BY DEF CheckExists
<1>3. Moves(r)
  BY <1>1, <1>2, GotoMoves, EndMoves DEF RequestPCs
<1> QED
  BY <1>1, <1>3, Histories DEF CheckExists, Touches, TouchesRow, TouchesImages, TouchesRemovals

\* GetModel.
LEMMA GetModelTouches ==
  ASSUME ModelTypeOK, Addressed, NEW r \in Requests, GetModel(r)
  PROVE  Touches(r) /\ At(r, "get") /\ models' = models /\ images' = images /\ removing' = removing
<1> DEFINE row == models[req[r].model]
           next == CASE req[r].kind = "delete" -> "drop"
                     [] req[r].kind = "rebuild" /\ row = NoImage -> "build"
                     [] OTHER -> "rmi"
<1>1. InProgress(r) /\ At(r, "get")
  BY DEF GetModel, At, InProgress
<1>2. next \in {"drop", "build", "rmi"} /\ (req[r].kind = "delete" => next = "drop")
  OBVIOUS
<1>3. Ends(r) \/ (req' = [req EXCEPT ![r].row = row, ![r].pc = next] /\ (row = Absent => req[r].kind = "delete"))
  BY DEF GetModel
<1>4. next = "rmi" => req[r].kind # "delete"
  OBVIOUS
<1>5. Moves(r)
  <2> HIDE DEF next
  <2> QED
    BY <1>1, <1>2, <1>3, <1>4, ReadMoves, EndMoves DEF RequestPCs
<1> QED
  BY <1>1, <1>5, Histories DEF GetModel, Touches, TouchesRow, TouchesImages, TouchesRemovals

\* RemoveImage.
LEMMA RemoveImageTouches ==
  ASSUME ModelTypeOK, Addressed, NEW r \in Requests, RemoveImage(r)
  PROVE  Touches(r) /\ At(r, "rmi") /\ models' = models /\ removing' = removing
<1>1. InProgress(r) /\ At(r, "rmi") /\ req[r].row # Absent
  BY DEF RemoveImage, At, InProgress, ModelTypeOK
<1>2. Goto(r, "build") \/ Goto(r, "update") \/ Ends(r)
  BY DEF RemoveImage
<1>3. Moves(r)
  BY <1>1, <1>2, GotoMoves, EndMoves DEF RequestPCs
<1> QED
  BY <1>1, <1>3, Histories DEF RemoveImage, Touches, TouchesRow, TouchesImages, TouchesRemovals

\* Build.
LEMMA BuildTouches ==
  ASSUME ModelTypeOK, Addressed, NEW r \in Requests, Build(r)
  PROVE  Touches(r) /\ At(r, "build") /\ models' = models /\ removing' = removing
<1>1. InProgress(r) /\ At(r, "build")
  BY DEF Build, At, InProgress
<1>2. Goto(r, "insert") \/ Goto(r, "update") \/ Ends(r)
  BY DEF Build
<1>3. Moves(r)
  BY <1>1, <1>2, GotoMoves, EndMoves DEF RequestPCs
<1> QED
  BY <1>1, <1>3, Histories DEF Build, Touches, TouchesRow, TouchesImages, TouchesRemovals

\* Update.
LEMMA UpdateTouches ==
  ASSUME ModelTypeOK, Addressed, NEW r \in Requests, Update(r)
  PROVE  Touches(r) /\ At(r, "update") /\ req'[r] = Blank("over") /\ images' = images /\ removing' = removing
<1>1. InProgress(r) /\ At(r, "update") /\ req[r].model \in Models
  BY DEF Update, At, InProgress, Addressed
<1>2. Moves(r) /\ req'[r] = Blank("over")
  BY <1>1, EndMoves DEF Update
<1>3. TouchesRow(r)
  <2> DEFINE image == IF req[r].kind = "rebuild" THEN req[r].model ELSE req[r].image
             d == IF models[req[r].model] = Absent THEN models[req[r].model] ELSE image
  <2>1. models' = models \/ models' = [models EXCEPT ![req[r].model] = d]
    BY DEF Update
  <2>2. d \in {Absent, req[r].model, req[r].image}
    OBVIOUS
  <2> QED
    BY <2>1, <2>2 DEF TouchesRow
<1> QED
  BY <1>1, <1>2, <1>3, Histories DEF Update, Touches, TouchesImages, TouchesRemovals

\* DropRow.
LEMMA DropRowTouches ==
  ASSUME ModelTypeOK, Addressed, NEW r \in Requests, DropRow(r)
  PROVE  Touches(r) /\ (At(r, "drop") \/ At(r, "drop2")) /\ images' = images
<1>1. InProgress(r) /\ (At(r, "drop") \/ At(r, "drop2"))
  BY DEF DropRow, At, InProgress
<1>2. req' = [req EXCEPT ![r].row = Absent, ![r].pc = "get2"] \/ Ends(r)
  BY DEF DropRow
<1>3. Moves(r)
  <2>1. CASE req' = [req EXCEPT ![r].row = Absent, ![r].pc = "get2"]
    <3>1. "get2" \in RequestPCs \ {"new", "over"} /\ "get2" # "rmi"
      BY DEF RequestPCs
    <3>2. Absent \in {Absent, models[req[r].model]}
      OBVIOUS
    <3> QED
      BY <1>1, <2>1, <3>1, <3>2, ReadMoves
  <2> QED
    BY <1>1, <1>2, <2>1, EndMoves
<1> QED
  BY <1>1, <1>3, Histories DEF DropRow, Touches, TouchesRow, TouchesImages, TouchesRemovals

\* GetAgain.
LEMMA GetAgainTouches ==
  ASSUME ModelTypeOK, Addressed, NEW r \in Requests, GetAgain(r)
  PROVE  Touches(r) /\ At(r, "get2") /\ models' = models /\ images' = images /\ removing' = removing
<1>1. InProgress(r) /\ At(r, "get2")
  BY DEF GetAgain, At, InProgress
<1>2. req' = [req EXCEPT ![r].row = models[req[r].model], ![r].pc = "drop2"] \/ Ends(r)
  BY DEF GetAgain
<1>3. Moves(r)
  <2>1. CASE req' = [req EXCEPT ![r].row = models[req[r].model], ![r].pc = "drop2"]
    <3>1. "drop2" \in RequestPCs \ {"new", "over"} /\ "drop2" # "rmi"
      BY DEF RequestPCs
    <3>2. models[req[r].model] \in {Absent, models[req[r].model]}
      OBVIOUS
    <3> QED
      BY <1>1, <2>1, <3>1, <3>2, ReadMoves
  <2> QED
    BY <1>1, <1>2, <2>1, EndMoves
<1> QED
  BY <1>1, <1>3, Histories DEF GetAgain, Touches, TouchesRow, TouchesImages, TouchesRemovals

\* Every handler keeps within the limits.
LEMMA HandleTouches ==
  ASSUME ModelTypeOK, Addressed, NEW r \in Requests, Handle(r)
  PROVE  Touches(r)
BY InsertTouches, CheckExistsTouches, GetModelTouches, RemoveImageTouches, BuildTouches,
   UpdateTouches, DropRowTouches, GetAgainTouches DEF Handle

\* Within the limits the state keeps its type.
LEMMA TouchesTypes ==
  ASSUME ModelTypeOK, Addressed, NEW r \in Requests, Touches(r)
  PROVE  ModelTypeOK' /\ Addressed'
<1>1. req[r].model \in Models /\ req[r].image \in Images \cup {NoImage} /\ req[r] \in Request
  BY RequestFields DEF Touches, Moves, Addressed
<1>2. req[r].row \in Images \cup {NoImage, Absent}
  BY RequestFields
<1>3. models' \in [Models -> Images \cup {NoImage, Absent}]
  BY <1>1, Apart DEF Touches, TouchesRow, ModelTypeOK
<1>4. images' \subseteq Images
  BY <1>1, Apart DEF Touches, TouchesImages, ModelTypeOK
<1>5. removing' \in [Images -> Nat]
  BY Apart DEF Touches, TouchesRemovals, ModelTypeOK
<1>6. req' \in [Requests -> Request] /\ req' = [req EXCEPT ![r] = req'[r]] /\ req'[r] \in Request
  BY <1>1, BlankTypes DEF Touches, Moves, ModelTypeOK
<1>7. \A q \in Requests : req'[q].pc = "rmi" => req'[q].row # Absent
  <2> TAKE q \in Requests
  <2>1. CASE q = r
    BY <2>1, BlankTypes DEF Touches, Moves
  <2>2. CASE q # r
    BY <2>2, <1>6 DEF ModelTypeOK
  <2> QED
    BY <2>1, <2>2
<1>8. failures' \in 0 .. MaxFailures /\ restarts' \in 0 .. MaxRestarts /\ strained' \subseteq Models
  BY <1>1, Apart DEF Touches, TouchesHistory, ModelTypeOK
<1>9. Addressed'
  <2> SUFFICES ASSUME NEW q \in Requests, InProgress(q)' PROVE req'[q].model \in Models
    BY DEF Addressed
  <2>1. CASE q = r
    BY <1>1, <2>1, BlankTypes DEF Touches, Moves, InProgress
  <2>2. CASE q # r
    BY <2>2, <1>6 DEF ModelTypeOK, InProgress, Addressed
  <2> QED
    BY <2>1, <2>2
<1> QED
  BY <1>3, <1>4, <1>5, <1>6, <1>7, <1>8, <1>9 DEF ModelTypeOK

\* A request that is sent, with what it brings.
LEMMA SendTypes ==
  ASSUME ModelTypeOK, Addressed, NEW r \in Requests, Send(r)
  PROVE  /\ ModelTypeOK' /\ Addressed'
         /\ req' = [req EXCEPT ![r] = req'[r]]
         /\ ~InProgress(r)
         /\ req'[r].model \in Models /\ req'[r].row = Absent
         /\ req'[r].pc \in {"insert", "exists", "get"}
         /\ req'[r].pc = "insert" => req'[r].kind = "add"
         /\ strained' = strained \cup Strains(req'[r].model, req'[r].image)
<1>1. PICK kind \in Kinds, m \in Models, i \in Images \cup {NoImage} :
        /\ req' = [req EXCEPT ![r] = [pc |-> FirstPC(kind), kind |-> kind,
                                      model |-> m, image |-> i, row |-> Absent]]
        /\ strained' = strained \cup Strains(m, i)
  BY DEF Send
<1>2. FirstPC(kind) \in {"insert", "exists", "get"} /\ (FirstPC(kind) = "insert" => kind = "add")
  BY DEF FirstPC, Kinds
<1>3. req'[r] = [pc |-> FirstPC(kind), kind |-> kind, model |-> m, image |-> i, row |-> Absent]
  BY <1>1 DEF ModelTypeOK
<1>4. req'[r] \in Request
  BY <1>2, <1>3 DEF Request, RequestPCs
<1>5. req' = [req EXCEPT ![r] = req'[r]] /\ req' \in [Requests -> Request]
  BY <1>1, <1>3, <1>4 DEF ModelTypeOK
<1>6. Strains(m, i) \subseteq Models /\ ~InProgress(r)
  BY DEF Strains, Send, InProgress
<1>7. \A q \in Requests : q # r => req'[q] = req[q]
  BY <1>5 DEF ModelTypeOK
<1>8. \A q \in Requests : req'[q].pc = "rmi" => req'[q].row # Absent
  BY <1>2, <1>3, <1>7 DEF ModelTypeOK
<1>9. ModelTypeOK'
  BY <1>1, <1>5, <1>6, <1>8 DEF Send, ModelTypeOK
<1>10. Addressed'
  BY <1>3, <1>7 DEF Addressed, InProgress
<1> QED
  BY <1>1, <1>2, <1>3, <1>5, <1>6, <1>9, <1>10

\* The background removal and the end of the process keep the types.
LEMMA BackgroundTypes ==
  ASSUME ModelTypeOK, Addressed, (\E i \in Images : RemoveLater(i)) \/ Restart
  PROVE  ModelTypeOK' /\ Addressed'
<1>1. ASSUME NEW i \in Images, RemoveLater(i) PROVE ModelTypeOK' /\ Addressed'
  BY <1>1, Apart DEF RemoveLater, ModelTypeOK, Ok, Addressed, InProgress
<1>2. CASE Restart
  <2>1. req' = [r \in Requests |-> IF InProgress(r) THEN Blank("over") ELSE req[r]]
    BY <1>2 DEF Restart
  <2>2. req' \in [Requests -> Request]
    BY <2>1, BlankTypes DEF ModelTypeOK
  <2>3. \A r \in Requests : ~InProgress(r)' /\ req'[r].pc # "rmi"
    BY <2>1, BlankTypes DEF InProgress
  <2> QED
    BY <1>2, <2>2, <2>3, Apart DEF Restart, ModelTypeOK, Addressed
<1> QED
  BY <1>1, <1>2

-----------------------------------------------------------------------------
(* The models: what a step leaves alone, and what it does to its own model. *)

\* A handler gives the image of another model to no row and to no request.
LEMMA TagsKept ==
  ASSUME ModelTypeOK, Addressed, NEW r \in Requests, Touches(r), NEW m \in Models, OwnTag(m)
  PROVE  OwnTag(m)'
<1>1. req[r].model \in Models /\ m # Absent /\ m # NoImage
  BY Apart DEF Touches, Moves, Addressed
<1>2. ASSUME NEW q \in Requests PROVE req'[q].image # m /\ (req'[q].row = m => req'[q].model = m)
  <2>1. CASE q = r
    BY <1>1, <2>1, BlankTypes DEF Touches, Moves, OwnTag
  <2>2. CASE q # r
    BY <2>2 DEF Touches, Moves, OwnTag, ModelTypeOK
  <2> QED
    BY <2>1, <2>2
<1>3. ASSUME NEW n \in Models, models'[n] = m PROVE n = m
  BY <1>1, <1>3 DEF Touches, TouchesRow, OwnTag, ModelTypeOK
<1> QED
  BY <1>2, <1>3 DEF OwnTag

\* A model on which the same requests work in the same places, with the same
\* row, image and removals, fits as before.
LEMMA FitsKept ==
  ASSUME NEW m \in Models, Fits(m), OwnTag(m)',
         models'[m] = models[m], (m \in images)' <=> m \in images,
         removing'[m] = removing[m],
         \A q \in Requests : Works(q, m)' <=> Works(q, m),
         \A q \in Requests : Works(q, m) => req'[q] = req[q]
  PROVE  Fits(m)'
<1>1. OneAtATime(m)'
  BY DEF Fits, OneAtATime
<1>2. AtRest(m)'
  BY DEF Fits, AtRest, InStep
<1>3. ASSUME NEW q \in Requests, Works(q, m)' PROVE Place(q, m)'
  BY <1>3 DEF Fits, Place, InStep
<1> QED
  BY <1>1, <1>2, <1>3 DEF Fits

\* A handler leaves the models it does not work on as they are.
LEMMA FitsElsewhere ==
  ASSUME ModelTypeOK, Addressed, NEW r \in Requests, Touches(r),
         NEW m \in Models, Fits(m), req[r].model # m
  PROVE  Fits(m)'
<1>1. OwnTag(m)'
  BY TagsKept DEF Fits
<1>2. req[r].model \in Models /\ m # Absent /\ m \in Images
  BY Apart DEF Touches, Moves, Addressed
<1>3. req[r].row # m /\ req[r].image # m
  BY <1>2 DEF Fits, OwnTag
<1>4. models'[m] = models[m]
  BY <1>2 DEF Touches, TouchesRow, ModelTypeOK
<1>5. (m \in images)' <=> m \in images
  BY <1>2, <1>3 DEF Touches, TouchesImages
<1>6. removing'[m] = removing[m]
  BY <1>2, <1>3 DEF Touches, TouchesRemovals, ModelTypeOK
<1>7. ASSUME NEW q \in Requests
      PROVE  (Works(q, m)' <=> Works(q, m)) /\ (Works(q, m) => req'[q] = req[q])
  <2>1. CASE q = r
    BY <1>2, <2>1, BlankTypes DEF Touches, Moves, Works
  <2>2. CASE q # r
    BY <2>2 DEF Touches, Moves, Works, InProgress, ModelTypeOK
  <2> QED
    BY <2>1, <2>2
<1> QED
  BY <1>1, <1>4, <1>5, <1>6, <1>7, FitsKept

\* On its own model the request that works is the only one, before and, if it
\* goes on, after: what is left to say is its new place.
LEMMA FitsAtWork ==
  ASSUME ModelTypeOK, Addressed, NEW r \in Requests, Touches(r),
         NEW m \in Models, Fits(m), req[r].model = m,
         removing'[m] \in {0, 1}, InProgress(r)', Place(r, m)'
  PROVE  Fits(m)'
<1>1. OwnTag(m)'
  BY TagsKept DEF Fits
<1>2. Works(r, m) /\ Works(r, m)'
  BY BlankTypes DEF Touches, Moves, Works, InProgress
<1>3. ASSUME NEW q \in Requests, Works(q, m)' PROVE q = r
  <2>1. CASE q # r
    <3>1. req'[q] = req[q]
      BY <2>1 DEF Touches, Moves, ModelTypeOK
    <3>2. Works(q, m)
      BY <1>3, <3>1 DEF Works, InProgress
    <3> QED
      BY <1>2, <3>2 DEF Fits, OneAtATime
  <2> QED
    BY <2>1
<1>4. OneAtATime(m)'
  BY <1>3 DEF OneAtATime
<1>5. AtRest(m)'
  BY <1>2 DEF AtRest
<1> QED
  BY <1>1, <1>3, <1>4, <1>5 DEF Fits

\* When it ends, what is left to say is how the model is left.
LEMMA FitsAtEnd ==
  ASSUME ModelTypeOK, Addressed, NEW r \in Requests, Touches(r),
         NEW m \in Models, Fits(m), req[r].model = m,
         removing'[m] \in {0, 1}, req'[r] = Blank("over"),
         IF removing'[m] > 0 THEN models'[m] = Absent ELSE InStep(m)'
  PROVE  Fits(m)'
<1>1. OwnTag(m)'
  BY TagsKept DEF Fits
<1>2. Works(r, m) /\ ~Works(r, m)'
  BY BlankTypes DEF Touches, Moves, Works, InProgress
<1>3. ASSUME NEW q \in Requests PROVE ~Works(q, m)'
  <2>1. CASE q # r
    <3>1. req'[q] = req[q]
      BY <2>1 DEF Touches, Moves, ModelTypeOK
    <3> QED
      BY <1>2, <2>1, <3>1 DEF Works, InProgress, Fits, OneAtATime
  <2> QED
    BY <1>2, <2>1
<1>4. OneAtATime(m)'
  BY <1>3 DEF OneAtATime
<1>5. AtRest(m)'
  BY DEF AtRest
<1> QED
  BY <1>1, <1>3, <1>4, <1>5 DEF Fits

\* What is known of the model of a request at work that is not strained.
LEMMA OwnPlace ==
  ASSUME ModelTypeOK, NEW r \in Requests, NEW m \in Models, Fits(m),
         InProgress(r), req[r].model = m
  PROVE  /\ Place(r, m) /\ OwnTag(m)
         /\ removing[m] \in {0, 1}
         /\ req[r].pc \notin {"get2", "drop2"} => removing[m] = 0
         /\ m # Absent /\ m # NoImage /\ m \in Images
         /\ req[r].image # m
BY Apart DEF Fits, Works, OneAtATime, OwnTag, Place

-----------------------------------------------------------------------------
(* The models: each handler on its own model, which it leaves unstrained. *)

\* The row is inserted with the image that has been built, or with another one.
LEMMA InsertFits ==
  ASSUME ModelTypeOK, Addressed, NEW r \in Requests, NEW m \in Models, Fits(m),
         req[r].model = m, m \notin strained', Insert(r)
  PROVE  Fits(m)'
<1>1. Touches(r) /\ At(r, "insert") /\ req'[r] = Blank("over") /\ images' = images /\ removing' = removing
  BY InsertTouches
<1>2. InProgress(r)
  BY <1>1 DEF At, InProgress
<1>3. Place(r, m) /\ removing[m] = 0 /\ m # Absent /\ req[r].image # m
  BY <1>1, <1>2, OwnPlace DEF At
<1>4. ~Fails(r)
  BY DEF Fails
<1>5. models'[m] = IF models[m] = Absent
                   THEN (IF req[r].kind = "build" THEN m ELSE req[r].image) ELSE models[m]
  BY <1>4 DEF Insert, ModelTypeOK
<1>6. InStep(m)'
  BY <1>1, <1>3, <1>5 DEF InStep, Place, At
<1> QED
  BY <1>1, <1>3, <1>6, FitsAtEnd

\* A build begins for a model without a row, and so without an image.
LEMMA CheckExistsFits ==
  ASSUME ModelTypeOK, Addressed, NEW r \in Requests, NEW m \in Models, Fits(m),
         req[r].model = m, m \notin strained', CheckExists(r)
  PROVE  Fits(m)'
<1>1. Touches(r) /\ At(r, "exists") /\ models' = models /\ images' = images /\ removing' = removing
  BY CheckExistsTouches
<1>2. InProgress(r)
  BY <1>1 DEF At, InProgress
<1>3. Place(r, m) /\ removing[m] = 0 /\ m # Absent
  BY <1>1, <1>2, OwnPlace DEF At
<1>4. InStep(m)
  BY <1>1, <1>3 DEF Place, At
<1>5. CASE Ends(r)
  BY <1>1, <1>2, <1>3, <1>4, <1>5, EndMoves, FitsAtEnd DEF InStep
<1>6. CASE Goto(r, "build") /\ req[r].kind = "build" /\ models[m] = Absent
  <2>1. req'[r].pc = "build" /\ req'[r].kind = "build" /\ InProgress(r)'
    BY <1>6 DEF Goto, ModelTypeOK, Request, InProgress
  <2>2. Place(r, m)'
    BY <1>1, <1>3, <1>4, <1>6, <2>1 DEF Place, InStep
  <2> QED
    BY <1>1, <1>3, <2>1, <2>2, FitsAtWork
<1>7. CASE Goto(r, "get")
  <2>1. req'[r].pc = "get" /\ InProgress(r)'
    BY <1>7 DEF Goto, ModelTypeOK, Request, InProgress
  <2>2. Place(r, m)'
    BY <1>1, <1>3, <1>4, <2>1 DEF Place, InStep
  <2> QED
    BY <1>1, <1>3, <2>1, <2>2, FitsAtWork
<1> QED
  BY <1>5, <1>6, <1>7 DEF CheckExists

\* The row is read while nobody else works on the model.
LEMMA GetModelFits ==
  ASSUME ModelTypeOK, Addressed, NEW r \in Requests, NEW m \in Models, Fits(m),
         req[r].model = m, m \notin strained', GetModel(r)
  PROVE  Fits(m)'
<1> DEFINE row == models[req[r].model]
           next == CASE req[r].kind = "delete" -> "drop"
                     [] req[r].kind = "rebuild" /\ row = NoImage -> "build"
                     [] OTHER -> "rmi"
<1>1. Touches(r) /\ At(r, "get") /\ models' = models /\ images' = images /\ removing' = removing
  BY GetModelTouches
<1>2. InProgress(r)
  BY <1>1 DEF At, InProgress
<1>3. Place(r, m) /\ removing[m] = 0 /\ m # Absent /\ m # NoImage
  BY <1>1, <1>2, OwnPlace DEF At
<1>4. InStep(m)
  BY <1>1, <1>3 DEF Place, At
<1>5. CASE Ends(r)
  BY <1>1, <1>2, <1>3, <1>4, <1>5, EndMoves, FitsAtEnd DEF InStep
<1>6. CASE /\ req' = [req EXCEPT ![r].row = row, ![r].pc = next]
           /\ row = Absent => req[r].kind = "delete"
  <2>1. req'[r].pc = next /\ req'[r].row = row /\ req'[r].kind = req[r].kind
    BY <1>6 DEF ModelTypeOK, Request
  <2>2. next \in {"drop", "build", "rmi"}
    OBVIOUS
  <2>3. next = "build" => req[r].kind = "rebuild" /\ row = NoImage /\ row # Absent
    BY Apart
  <2>4. InProgress(r)'
    BY <2>1, <2>2 DEF InProgress
  <2>5. Place(r, m)'
    <3> HIDE DEF next
    <3> QED
      BY <1>1, <1>3, <1>4, <2>1, <2>2, <2>3 DEF Place, InStep
  <2> QED
    BY <1>1, <1>3, <2>4, <2>5, FitsAtWork
<1> QED
  BY <1>5, <1>6 DEF GetModel

\* The image the row names is gone before the row changes.
LEMMA RemoveImageFits ==
  ASSUME ModelTypeOK, Addressed, NEW r \in Requests, NEW m \in Models, Fits(m),
         req[r].model = m, m \notin strained', RemoveImage(r)
  PROVE  Fits(m)'
<1>1. Touches(r) /\ At(r, "rmi") /\ models' = models /\ removing' = removing
  BY RemoveImageTouches
<1>2. InProgress(r)
  BY <1>1 DEF At, InProgress
<1>3. Place(r, m) /\ removing[m] = 0 /\ m # Absent
  BY <1>1, <1>2, OwnPlace DEF At
<1>4. InStep(m) /\ req[r].row = models[m] /\ req[r].row # Absent
  BY <1>1, <1>3 DEF Place, At, ModelTypeOK
<1>5. ~Fails(r)
  BY DEF Fails
<1>6. images' = images \ {models[m]} /\ m \notin images'
  BY <1>4, <1>5 DEF RemoveImage, InStep
<1>7. CASE Ends(r) /\ req[r].row \notin images
  <2>1. InStep(m)'
    BY <1>1, <1>4, <1>6, <1>7 DEF InStep
  <2> QED
    BY <1>1, <1>2, <1>3, <1>7, <2>1, EndMoves, FitsAtEnd
<1>8. CASE Goto(r, "build") /\ req[r].kind = "rebuild"
  <2>1. req'[r].pc = "build" /\ req'[r].kind = "rebuild" /\ InProgress(r)'
    BY <1>8 DEF Goto, ModelTypeOK, Request, InProgress
  <2>2. Place(r, m)'
    BY <1>1, <1>3, <1>4, <1>6, <2>1 DEF Place, InStep
  <2> QED
    BY <1>1, <1>3, <2>1, <2>2, FitsAtWork
<1>9. CASE Goto(r, "update") /\ req[r].kind # "rebuild"
  <2>1. req'[r].pc = "update" /\ req'[r].kind # "rebuild" /\ InProgress(r)'
    BY <1>9 DEF Goto, ModelTypeOK, Request, InProgress
  <2>2. Place(r, m)'
    BY <1>1, <1>3, <1>4, <1>6, <2>1 DEF Place, InStep
  <2> QED
    BY <1>1, <1>3, <2>1, <2>2, FitsAtWork
<1> QED
  BY <1>5, <1>7, <1>8, <1>9 DEF RemoveImage

\* The image is built before the row names it.
LEMMA BuildFits ==
  ASSUME ModelTypeOK, Addressed, NEW r \in Requests, NEW m \in Models, Fits(m),
         req[r].model = m, m \notin strained', Build(r)
  PROVE  Fits(m)'
<1>1. Touches(r) /\ At(r, "build") /\ models' = models /\ removing' = removing
  BY BuildTouches
<1>2. InProgress(r)
  BY <1>1 DEF At, InProgress
<1>3. Place(r, m) /\ removing[m] = 0 /\ m # Absent
  BY <1>1, <1>2, OwnPlace DEF At
<1>4. ~Fails(r)
  BY DEF Fails
<1>5. m \in images' /\ Goto(r, IF req[r].kind = "build" THEN "insert" ELSE "update")
  BY <1>4 DEF Build
<1>6. /\ req[r].kind = "build" => models[m] = Absent
      /\ req[r].kind # "build" => req[r].kind = "rebuild" /\ models[m] # Absent
  BY <1>1, <1>3 DEF Place, At
<1>7. /\ req'[r].pc = (IF req[r].kind = "build" THEN "insert" ELSE "update")
      /\ req'[r].kind = req[r].kind /\ InProgress(r)'
  BY <1>5 DEF Goto, ModelTypeOK, Request, InProgress
<1>8. Place(r, m)'
  BY <1>1, <1>3, <1>5, <1>6, <1>7 DEF Place
<1> QED
  BY <1>1, <1>3, <1>7, <1>8, FitsAtWork

\* The row names the image that has been rebuilt, or one the client brings.
LEMMA UpdateFits ==
  ASSUME ModelTypeOK, Addressed, NEW r \in Requests, NEW m \in Models, Fits(m),
         req[r].model = m, m \notin strained', Update(r)
  PROVE  Fits(m)'
<1>1. Touches(r) /\ At(r, "update") /\ req'[r] = Blank("over") /\ images' = images /\ removing' = removing
  BY UpdateTouches
<1>2. InProgress(r)
  BY <1>1 DEF At, InProgress
<1>3. Place(r, m) /\ removing[m] = 0 /\ m # Absent /\ req[r].image # m
  BY <1>1, <1>2, OwnPlace DEF At
<1>4. ~Fails(r)
  BY DEF Fails
<1>5. models'[m] = IF models[m] = Absent THEN Absent
                   ELSE IF req[r].kind = "rebuild" THEN m ELSE req[r].image
  BY <1>4 DEF Update, ModelTypeOK
<1>6. InStep(m)'
  BY <1>1, <1>3, <1>5 DEF InStep, Place, At
<1> QED
  BY <1>1, <1>3, <1>6, FitsAtEnd

\* Once the row is gone its image is gone, or about to be removed; the second drop has no image to remove.
LEMMA DropRowFits ==
  ASSUME ModelTypeOK, Addressed, NEW r \in Requests, NEW m \in Models, Fits(m),
         req[r].model = m, m \notin strained', DropRow(r)
  PROVE  Fits(m)'
<1>1. Touches(r) /\ (At(r, "drop") \/ At(r, "drop2")) /\ images' = images
  BY DropRowTouches
<1>2. InProgress(r)
  BY <1>1 DEF At, InProgress
<1>3. Place(r, m) /\ removing[m] \in {0, 1} /\ m # Absent /\ m \in Images
  BY <1>2, OwnPlace
<1>4. ~Fails(r)
  BY DEF Fails
<1>5. models'[m] = Absent
  BY <1>4 DEF DropRow, ModelTypeOK
<1>6. removing' = IF req[r].row \in Models
                  THEN [removing EXCEPT ![req[r].row] = @ + 1] ELSE removing
  BY <1>4 DEF DropRow
<1>7. CASE At(r, "drop")
  <2>1. InStep(m) /\ req[r].row = models[m] /\ removing[m] = 0
    BY <1>3, <1>7 DEF Place, At
  <2>2. removing'[m] = (IF models[m] = m THEN 1 ELSE 0)
    BY <1>3, <1>6, <2>1 DEF ModelTypeOK
  <2>3. req'[r].pc = "get2" /\ req'[r].row = Absent /\ InProgress(r)'
    BY <1>4, <1>7 DEF DropRow, ModelTypeOK, Request, InProgress
  <2>4. Place(r, m)'
    BY <1>1, <1>5, <2>1, <2>2, <2>3 DEF Place, InStep
  <2> QED
    BY <1>1, <2>2, <2>3, <2>4, FitsAtWork
<1>8. CASE At(r, "drop2")
  <2>1. req[r].row = Absent /\ (removing[m] = 0 => m \notin images)
    BY <1>3, <1>8 DEF Place, At
  <2>2. removing' = removing
    BY <1>6, <2>1, Apart
  <2>3. Ends(r)
    BY <1>4, <1>8 DEF DropRow, At
  <2>4. IF removing'[m] > 0 THEN models'[m] = Absent ELSE InStep(m)'
    BY <1>1, <1>3, <1>5, <2>1, <2>2 DEF InStep
  <2> QED
    BY <1>1, <1>2, <1>3, <2>2, <2>3, <2>4, EndMoves, FitsAtEnd
<1> QED
  BY <1>1, <1>7, <1>8

\* The second look finds no row.
LEMMA GetAgainFits ==
  ASSUME ModelTypeOK, Addressed, NEW r \in Requests, NEW m \in Models, Fits(m),
         req[r].model = m, m \notin strained', GetAgain(r)
  PROVE  Fits(m)'
<1>1. Touches(r) /\ At(r, "get2") /\ models' = models /\ images' = images /\ removing' = removing
  BY GetAgainTouches
<1>2. InProgress(r)
  BY <1>1 DEF At, InProgress
<1>3. Place(r, m) /\ removing[m] \in {0, 1}
  BY <1>2, OwnPlace
<1>4. models[m] = Absent /\ (removing[m] = 0 => m \notin images)
  BY <1>1, <1>3 DEF Place, At
<1>5. ~Fails(r)
  BY DEF Fails
<1>6. req'[r].pc = "drop2" /\ req'[r].row = Absent /\ InProgress(r)'
  BY <1>4, <1>5 DEF GetAgain, ModelTypeOK, Request, InProgress
<1>7. Place(r, m)'
  BY <1>1, <1>4, <1>6 DEF Place
<1> QED
  BY <1>1, <1>3, <1>6, <1>7, FitsAtWork

\* Every handler keeps the invariant.
LEMMA HandleModels ==
  ASSUME ModelInv, NEW r \in Requests, Handle(r)
  PROVE  ModelInv'
<1> USE DEF ModelInv
<1>1. Touches(r)
  BY HandleTouches
<1>2. strained \subseteq strained'
  BY <1>1 DEF Touches, TouchesHistory
<1>3. ASSUME NEW m \in Models, m \notin strained' PROVE Fits(m)'
  <2>1. Fits(m)
    BY <1>2, <1>3
  <2>2. CASE req[r].model # m
    BY <1>1, <2>1, <2>2, FitsElsewhere
  <2>3. CASE req[r].model = m
    BY <1>3, <2>1, <2>3, InsertFits, CheckExistsFits, GetModelFits, RemoveImageFits,
       BuildFits, UpdateFits, DropRowFits, GetAgainFits DEF Handle
  <2> QED
    BY <2>2, <2>3
<1> QED
  BY <1>1, <1>3, TouchesTypes

\* So does a request that arrives: a model it finds at work, or names by hand,
\* is strained from then on.
LEMMA SendModels ==
  ASSUME ModelInv, NEW r \in Requests, Send(r)
  PROVE  ModelInv'
<1> USE DEF ModelInv
<1>1. /\ ModelTypeOK' /\ Addressed'
      /\ req' = [req EXCEPT ![r] = req'[r]]
      /\ ~InProgress(r)
      /\ req'[r].model \in Models /\ req'[r].row = Absent
      /\ req'[r].pc \in {"insert", "exists", "get"}
      /\ req'[r].pc = "insert" => req'[r].kind = "add"
      /\ strained' = strained \cup Strains(req'[r].model, req'[r].image)
  BY SendTypes
<1>2. models' = models /\ images' = images /\ removing' = removing
  BY DEF Send
<1>3. \A q \in Requests : q # r => req'[q] = req[q]
  BY <1>1 DEF ModelTypeOK
<1>4. ASSUME NEW m \in Models, m \notin strained' PROVE Fits(m)'
  <2>1. Fits(m) /\ m # Absent
    BY <1>1, <1>4, Apart
  <2>2. m # req'[r].image /\ (req'[r].model = m => ~Busy(m))
    BY <1>1, <1>4 DEF Strains
  <2>3. OwnTag(m)'
    BY <1>1, <1>2, <1>3, <2>1, <2>2 DEF Fits, OwnTag
  <2>4. CASE req'[r].model # m
    <3>1. ASSUME NEW q \in Requests
          PROVE (Works(q, m)' <=> Works(q, m)) /\ (Works(q, m) => req'[q] = req[q])
      BY <1>1, <1>3, <2>4 DEF Works, InProgress
    <3> QED
      BY <1>2, <2>1, <2>3, <3>1, FitsKept
  <2>5. CASE req'[r].model = m
    <3>1. \A q \in Requests : ~Works(q, m)
      BY <2>2, <2>5 DEF Busy, Works
    <3>2. removing[m] = 0 /\ InStep(m)
      BY <2>1, <2>2, <2>5, <3>1 DEF Busy, Fits, OneAtATime, AtRest
    <3>3. \A q \in Requests : Works(q, m)' => q = r
      BY <1>3, <3>1 DEF Works, InProgress
    <3>4. Works(r, m)'
      BY <1>1, <2>5 DEF Works, InProgress
    <3>5. Place(r, m)'
      BY <1>1, <1>2, <3>2 DEF Place, InStep
    <3>6. OneAtATime(m)'
      BY <1>2, <3>2, <3>3 DEF OneAtATime
    <3> QED
      BY <2>3, <3>3, <3>4, <3>5, <3>6 DEF Fits, AtRest
  <2> QED
    BY <2>4, <2>5
<1> QED
  BY <1>1, <1>4

\* A background removal finds the row gone.
LEMMA RemoveLaterModels ==
  ASSUME ModelInv, NEW i \in Images, RemoveLater(i)
  PROVE  ModelInv'
<1> USE DEF ModelInv
<1>1. ModelTypeOK' /\ Addressed'
  BY BackgroundTypes
<1>2. models' = models /\ req' = req /\ strained \subseteq strained'
  BY DEF RemoveLater, Ok
<1>3. ASSUME NEW m \in Models, m \notin strained' PROVE Fits(m)'
  <2>1. Fits(m) /\ m \in Images
    BY <1>2, <1>3, Apart
  <2>2. OwnTag(m)' /\ \A q \in Requests : Works(q, m)' <=> Works(q, m)
    BY <1>2, <2>1 DEF Fits, OwnTag, Works, InProgress
  <2>3. CASE i # m
    <3>1. removing'[m] = removing[m] /\ ((m \in images)' <=> m \in images)
      BY <2>1, <2>3 DEF RemoveLater, ModelTypeOK
    <3> QED
      BY <1>2, <2>1, <2>2, <3>1, FitsKept
  <2>4. CASE i = m
    <3>1. removing[m] = 1 /\ removing'[m] = 0
      BY <2>1, <2>4 DEF RemoveLater, ModelTypeOK, Fits, OneAtATime
    <3>2. m \notin images'
      BY <1>3, <2>4 DEF RemoveLater
    <3>3. ASSUME NEW q \in Requests, Works(q, m) PROVE Place(q, m)'
      BY <1>2, <2>1, <3>1, <3>2, <3>3 DEF Fits, Place
    <3>4. AtRest(m)'
      <4>1. (\A q \in Requests : ~Works(q, m)) => models[m] = Absent
        BY <2>1, <3>1 DEF Fits, AtRest
      <4> QED
        BY <1>2, <2>2, <3>1, <3>2, <4>1, Apart DEF AtRest, InStep
    <3>5. OneAtATime(m)'
      BY <2>1, <2>2, <3>1 DEF Fits, OneAtATime
    <3> QED
      BY <2>2, <3>3, <3>4, <3>5 DEF Fits
  <2> QED
    BY <2>3, <2>4
<1> QED
  BY <1>1, <1>3

\* The end of the process strains the models it interrupts, and leaves the
\* others at rest.
LEMMA RestartModels ==
  ASSUME ModelInv, Restart
  PROVE  ModelInv'
<1> USE DEF ModelInv
<1>1. ModelTypeOK' /\ Addressed'
  BY BackgroundTypes
<1>2. /\ models' = models /\ images' = images
      /\ req' = [r \in Requests |-> IF InProgress(r) THEN Blank("over") ELSE req[r]]
      /\ removing' = [i \in Images |-> 0]
      /\ strained' = strained \cup {m \in Models : Busy(m)}
  BY DEF Restart
<1>3. ASSUME NEW m \in Models, m \notin strained' PROVE Fits(m)'
  <2>1. Fits(m) /\ m \in Images /\ ~Busy(m) /\ m # Absent /\ m # NoImage
    BY <1>2, <1>3, Apart
  <2>2. \A r \in Requests : ~InProgress(r)'
    BY <1>2, BlankTypes DEF InProgress
  <2>3. OwnTag(m)'
    BY <1>2, <2>1, BlankTypes DEF Fits, OwnTag
  <2>4. InStep(m)
    BY <2>1 DEF Fits, AtRest, OneAtATime, Busy, Works
  <2>5. removing'[m] = 0
    BY <1>2, <2>1
  <2> QED
    BY <1>2, <2>2, <2>3, <2>4, <2>5 DEF Fits, OneAtATime, AtRest, InStep, Works
<1> QED
  BY <1>1, <1>3

\* And so do the steps of the starts: a pull brings images from elsewhere only.
LEMMA StartModels ==
  ASSUME ModelInv, StartInv, StartNext, UNCHANGED <<models, removing, req, restarts, strained>>
  PROVE  ModelInv'
<1> USE DEF ModelInv
<1>1. PICK s \in Starts : StartRequest(s) \/ ContextEnds(s) \/ StartStep(s)
  BY DEF StartNext
<1>2. images' = images \/ images' = images \cup ({start[s].image} \cap Foreign)
  BY <1>1 DEF StartRequest, ContextEnds, StartStep, ListImages, PullImage, CreateContainer,
     StartCreated, FallBack, CleanUp
<1>3. failures' \in 0 .. MaxFailures
  BY <1>1, Apart DEF StartRequest, ContextEnds, StartStep, ListImages, PullImage, CreateContainer,
     StartCreated, FallBack, CleanUp, RemovesBox, CallAnswers, CallFails, ModelTypeOK
<1>4. ModelTypeOK' /\ Addressed'
  BY <1>2, <1>3, Apart DEF ModelTypeOK, Addressed, InProgress
<1>5. ASSUME NEW m \in Models, m \notin strained' PROVE Fits(m)'
  <2>1. Fits(m)
    BY <1>5
  <2>2. (m \in images)' <=> m \in images
    BY <1>2, Apart
  <2>3. OwnTag(m)' /\ \A q \in Requests : Works(q, m)' <=> Works(q, m)
    BY <2>1 DEF Fits, OwnTag, Works, InProgress
  <2> QED
    BY <2>1, <2>2, <2>3, FitsKept
<1> QED
  BY <1>4, <1>5

-----------------------------------------------------------------------------
(* The starts. *)

\* What a start is.
LEMMA StartFields ==
  ASSUME StartTypeOK, NEW s \in Starts
  PROVE  /\ start[s].pc \in StartPCs /\ start[s].image \in Images \cup {NoImage}
         /\ start[s].device \in BOOLEAN /\ start[s].try \in {1, 2}
         /\ start[s] \in [pc : StartPCs, image : Images \cup {NoImage},
                          device : BOOLEAN, try : 1 .. 2]
         /\ box[s] \in [1 .. 2 -> {"none", "created", "running", "removed"}]
         /\ box[s] = [k \in 1 .. 2 |-> box[s][k]]
         /\ ended[s] \in BOOLEAN /\ disturbed[s] \in BOOLEAN
BY DEF StartTypeOK

\* A step of s touches the start, the containers and the history of s only.
StepOf(s) ==
  /\ start' = [start EXCEPT ![s] = start'[s]]
  /\ start'[s] \in [pc : StartPCs, image : Images \cup {NoImage},
                    device : BOOLEAN, try : 1 .. 2]
  /\ box' = [box EXCEPT ![s] = box'[s]]
  /\ box'[s] \in [1 .. 2 -> {"none", "created", "running", "removed"}]
  /\ ended' = [ended EXCEPT ![s] = ended'[s]] /\ ended'[s] \in BOOLEAN
  /\ disturbed' = [disturbed EXCEPT ![s] = disturbed'[s]] /\ disturbed'[s] \in BOOLEAN
  /\ hasGPU' \in BOOLEAN

\* Such a step keeps the invariant if it keeps what is said of s.
LEMMA StepKeeps ==
  ASSUME StartInv, NEW s \in Starts, StepOf(s), StartFits(s)'
  PROVE  StartInv'
<1>1. StartTypeOK'
  BY DEF StartInv, StartTypeOK, StepOf
<1>2. ASSUME NEW q \in Starts PROVE StartFits(q)'
  <2>1. CASE q # s
    <3>1. start'[q] = start[q] /\ box'[q] = box[q] /\ ended'[q] = ended[q] /\ disturbed'[q] = disturbed[q]
      BY <2>1 DEF StartInv, StartTypeOK, StepOf
    <3>2. StartFits(q)
      BY DEF StartInv
    <3> QED
      BY <3>1, <3>2 DEF StartFits, Current, Tries
  <2> QED
    BY <2>1
<1> QED
  BY <1>1, <1>2 DEF StartInv

\* What a change of place does.
LEMMA GotoEffect ==
  ASSUME StartTypeOK, NEW s \in Starts, NEW pc \in StartPCs, StartGoto(s, pc)
  PROVE  /\ start' = [start EXCEPT ![s] = start'[s]]
         /\ start'[s] \in [pc : StartPCs, image : Images \cup {NoImage},
                           device : BOOLEAN, try : 1 .. 2]
         /\ start'[s].pc = pc /\ start'[s].image = start[s].image
         /\ start'[s].device = start[s].device /\ start'[s].try = start[s].try
BY DEF StartTypeOK, StartGoto

\* What a change of the current container does.
LEMMA BoxEffect ==
  ASSUME StartTypeOK, NEW s \in Starts,
         NEW state \in {"none", "created", "running", "removed"}, BoxBecomes(s, state)
  PROVE  /\ box' = [box EXCEPT ![s] = box'[s]]
         /\ box'[s] \in [1 .. 2 -> {"none", "created", "running", "removed"}]
         /\ box'[s][start[s].try] = state
         /\ \A k \in {1, 2} : k # start[s].try => box'[s][k] = box[s][k]
BY StartFields DEF StartTypeOK, BoxBecomes

\* What a call to the daemon may do to the history.
LEMMA CallEffect ==
  ASSUME StartInv, NEW s \in Starts, CallAnswers(s) \/ CallFails(s)
  PROVE  /\ disturbed' = [disturbed EXCEPT ![s] = disturbed'[s]] /\ disturbed'[s] \in BOOLEAN
         /\ CallAnswers(s) => ~ended[s] /\ disturbed'[s] = disturbed[s]
         /\ CallFails(s) => disturbed'[s]
         /\ disturbed[s] => disturbed'[s]
BY DEF StartInv, StartTypeOK, CallAnswers, CallFails

\* What a start that succeeds leaves: the container that runs, and, after a
\* fallback that something disturbed, perhaps the first one.
GivesStarted(s) ==
  /\ start'[s].pc = "started" /\ disturbed'[s] = disturbed[s]
  /\ \/ box'[s][1] = "running" /\ box'[s][2] \notin {"created", "running"}
     \/ box'[s][2] = "running" /\ box'[s][1] \notin {"created", "running"}
     \/ /\ box'[s][2] = "running" /\ box'[s][1] = "created"
        /\ s \in GpuStarts /\ disturbed[s]

\* What one that fails leaves: nothing, unless something disturbed it.
GivesFailed(s) ==
  /\ start'[s].pc = "failed"
  /\ \/ \A k \in {1, 2} : box'[s][k] \notin {"created", "running"}
     \/ /\ disturbed'[s]
        /\ \E k \in {1, 2} : box'[s][k] \in {"created", "running"}
        /\ box'[s][2] # "none" => s \in GpuStarts /\ box'[s][1] # "running"

\* A step of a start: it is under way before, and after or it returns.
Advances(s) ==
  /\ StepOf(s) /\ StartFits(s)'
  /\ start[s].pc \notin Returned
  /\ disturbed[s] => disturbed'[s]
  /\ start'[s].pc \notin Returned \/ GivesStarted(s) \/ GivesFailed(s)

\* What is left alone fits StepOf.
LEMMA Untouched ==
  ASSUME StartInv, NEW s \in Starts
  PROVE  /\ UNCHANGED start => start' = [start EXCEPT ![s] = start'[s]] /\ start'[s] = start[s]
         /\ UNCHANGED box => /\ box' = [box EXCEPT ![s] = box'[s]] /\ box'[s] = box[s]
                             /\ box'[s] \in [1 .. 2 -> {"none", "created", "running", "removed"}]
         /\ UNCHANGED ended => /\ ended' = [ended EXCEPT ![s] = ended'[s]] /\ ended'[s] = ended[s]
                               /\ ended'[s] \in BOOLEAN
         /\ UNCHANGED disturbed => /\ disturbed' = [disturbed EXCEPT ![s] = disturbed'[s]]
                                   /\ disturbed'[s] = disturbed[s] /\ disturbed'[s] \in BOOLEAN
         /\ UNCHANGED hasGPU => hasGPU' \in BOOLEAN
BY DEF StartInv, StartTypeOK

\* A request for a start.
LEMMA RequestAdvances ==
  ASSUME StartInv, ModelTypeOK, NEW s \in Starts, StartRequest(s)
  PROVE  Advances(s)
<1>1. PICK m \in Models : /\ models[m] \in Images
                          /\ start' = [start EXCEPT ![s].pc = "list", ![s].image = models[m]]
  BY DEF StartRequest
<1>2. /\ start' = [start EXCEPT ![s] = start'[s]]
      /\ start'[s].pc = "list" /\ start'[s].try = start[s].try /\ start'[s].device = start[s].device
      /\ start'[s] \in [pc : StartPCs, image : Images \cup {NoImage},
                        device : BOOLEAN, try : 1 .. 2]
  BY <1>1 DEF StartInv, StartTypeOK, StartPCs
<1>3. StartAt(s, "new") /\ UNCHANGED <<box, ended, disturbed, hasGPU>>
  BY DEF StartRequest
<1>4. StepOf(s) /\ box'[s] = box[s] /\ ended'[s] = ended[s] /\ disturbed'[s] = disturbed[s]
  BY <1>2, <1>3, Untouched DEF StepOf
<1> QED
  BY <1>2, <1>3, <1>4 DEF Advances, StartFits, Current, Tries, Returned, StartAt, StartInv

\* The end of a context.
LEMMA ContextAdvances ==
  ASSUME StartInv, NEW s \in Starts, ContextEnds(s)
  PROVE  Advances(s)
<1>1. UNCHANGED <<start, box, hasGPU>> /\ start[s].pc \notin {"new", "started", "failed"}
  BY DEF ContextEnds
<1>2. /\ ended' = [ended EXCEPT ![s] = ended'[s]] /\ ended'[s] = TRUE
      /\ disturbed' = [disturbed EXCEPT ![s] = disturbed'[s]] /\ disturbed'[s] = TRUE
  BY DEF ContextEnds, StartInv, StartTypeOK
<1>3. StepOf(s) /\ start'[s] = start[s] /\ box'[s] = box[s]
  BY <1>1, <1>2, Untouched, StartFields DEF StepOf, StartInv
<1> QED
  BY <1>1, <1>2, <1>3 DEF Advances, StartFits, Current, Tries, Returned, StartInv

\* The search for the image.
LEMMA ListAdvances ==
  ASSUME StartInv, NEW s \in Starts, ListImages(s)
  PROVE  Advances(s)
<1>1. StartAt(s, "list") /\ UNCHANGED <<box, ended, hasGPU>> /\ (CallAnswers(s) \/ CallFails(s))
  BY DEF ListImages
<1>2. PICK pc \in {"create", "pull", "failed"} : StartGoto(s, pc)
  BY DEF ListImages
<1>3. pc \in StartPCs
  BY DEF StartPCs
<1>4. /\ StepOf(s) /\ start'[s].pc = pc /\ start'[s].try = start[s].try
      /\ box'[s] = box[s] /\ ended'[s] = ended[s]
      /\ disturbed[s] => disturbed'[s]
  BY <1>1, <1>2, <1>3, GotoEffect, CallEffect, Untouched DEF StepOf, StartInv
<1>5. start[s].try = 1 /\ box[s][1] = "none" /\ box[s][2] = "none" /\ (ended[s] => disturbed[s])
  BY <1>1, StartFields DEF StartInv, StartFits, Current, Tries, StartAt, Returned
<1> QED
  BY <1>1, <1>4, <1>5 DEF Advances, StartFits, Current, Tries, Returned, StartAt, GivesFailed

\* The pull.
LEMMA PullAdvances ==
  ASSUME StartInv, NEW s \in Starts, PullImage(s)
  PROVE  Advances(s)
<1>1. StartAt(s, "pull") /\ UNCHANGED <<box, ended, hasGPU>> /\ (CallAnswers(s) \/ CallFails(s))
  BY DEF PullImage
<1>2. PICK pc \in {"create", "failed"} : StartGoto(s, pc)
  BY DEF PullImage
<1>3. pc \in StartPCs
  BY DEF StartPCs
<1>4. /\ StepOf(s) /\ start'[s].pc = pc /\ start'[s].try = start[s].try
      /\ box'[s] = box[s] /\ ended'[s] = ended[s]
      /\ disturbed[s] => disturbed'[s]
  BY <1>1, <1>2, <1>3, GotoEffect, CallEffect, Untouched DEF StepOf, StartInv
<1>5. start[s].try = 1 /\ box[s][1] = "none" /\ box[s][2] = "none" /\ (ended[s] => disturbed[s])
  BY <1>1, StartFields DEF StartInv, StartFits, Current, Tries, StartAt, Returned
<1> QED
  BY <1>1, <1>4, <1>5 DEF Advances, StartFits, Current, Tries, Returned, StartAt, GivesFailed

\* What is known of a start before its container is created, started or removed.
LEMMA Before ==
  ASSUME StartInv, NEW s \in Starts, start[s].pc \notin Returned
  PROVE  /\ start[s].try \in {1, 2} /\ Current(s) /\ Tries(s)
         /\ ended[s] => disturbed[s]
         /\ start[s].pc = "new" => ~disturbed[s]
         /\ box[s][1] \in {"none", "created", "running", "removed"}
         /\ box[s][2] \in {"none", "created", "running", "removed"}
         /\ disturbed[s] \in BOOLEAN
<1>1. StartTypeOK /\ StartFits(s)
  BY DEF StartInv
<1>2. /\ box[s] \in [1 .. 2 -> {"none", "created", "running", "removed"}]
      /\ disturbed[s] \in BOOLEAN /\ start[s].try \in {1, 2}
  BY <1>1, StartFields
<1>3. /\ box[s][1] \in {"none", "created", "running", "removed"}
      /\ box[s][2] \in {"none", "created", "running", "removed"}
  BY <1>2
<1> QED
  BY <1>1, <1>2, <1>3 DEF StartFits

\* The creation: the container is created, or not, or its id is lost.
LEMMA CreateAdvances ==
  ASSUME StartInv, NEW s \in Starts, CreateContainer(s)
  PROVE  Advances(s)
<1>1. StartAt(s, "create") /\ UNCHANGED <<ended, hasGPU>> /\ (CallAnswers(s) \/ CallFails(s))
  BY DEF CreateContainer
<1>2. StartTypeOK /\ start[s].pc \notin Returned
  BY <1>1 DEF StartInv, StartAt, Returned
<1>3. CASE /\ CallAnswers(s) /\ BoxBecomes(s, "created")
           /\ start' = [start EXCEPT ![s].pc = "start",
                ![s].device = s \in GpuStarts /\ hasGPU /\ start[s].try = 1]
  <2>1. /\ start' = [start EXCEPT ![s] = start'[s]]
        /\ start'[s].pc = "start" /\ start'[s].try = start[s].try
        /\ start'[s].device => s \in GpuStarts /\ start[s].try = 1
        /\ start'[s] \in [pc : StartPCs, image : Images \cup {NoImage},
                          device : BOOLEAN, try : 1 .. 2]
    <3>1. (s \in GpuStarts /\ hasGPU /\ start[s].try = 1) \in BOOLEAN
      OBVIOUS
    <3> QED
      BY <1>2, <1>3, <3>1 DEF StartTypeOK, StartPCs
  <2>2. StepOf(s) /\ ended'[s] = ended[s] /\ disturbed'[s] = disturbed[s]
    BY <1>1, <1>2, <1>3, <2>1, BoxEffect, CallEffect, Untouched DEF StepOf
  <2>3. /\ box'[s][start[s].try] = "created"
        /\ \A k \in {1, 2} : k # start[s].try => box'[s][k] = box[s][k]
    BY <1>2, <1>3, BoxEffect
  <2> QED
    BY <1>1, <1>2, <2>1, <2>2, <2>3, Before DEF Advances, StartFits, Current, Tries, Returned, StartAt
<1>4. CASE (CallAnswers(s) \/ CallFails(s)) /\ StartGoto(s, "failed") /\ UNCHANGED box
  <2>1. /\ StepOf(s) /\ start'[s].pc = "failed" /\ box'[s] = box[s] /\ ended'[s] = ended[s]
        /\ disturbed[s] => disturbed'[s]
    BY <1>1, <1>2, <1>4, GotoEffect, CallEffect, Untouched DEF StepOf, StartPCs
  <2>2. /\ box[s][2] \notin {"created", "running"}
        /\ box[s][1] \in {"none", "removed"} \/ (box[s][1] = "created" /\ disturbed[s] /\ s \in GpuStarts)
    BY <1>1, <1>2, Before DEF Current, Tries, StartAt
  <2> QED
    BY <1>1, <1>2, <2>1, <2>2, Before DEF Advances, StartFits, Returned, GivesFailed
<1>5. CASE CallFails(s) /\ StartGoto(s, "failed") /\ BoxBecomes(s, "created")
  <2>1. /\ StepOf(s) /\ start'[s].pc = "failed" /\ ended'[s] = ended[s] /\ disturbed'[s]
        /\ box'[s][start[s].try] = "created"
        /\ \A k \in {1, 2} : k # start[s].try => box'[s][k] = box[s][k]
    BY <1>1, <1>2, <1>5, GotoEffect, BoxEffect, CallEffect, Untouched DEF StepOf, StartPCs
  <2>2. box'[s][2] # "none" => s \in GpuStarts /\ box'[s][1] # "running"
    BY <1>1, <1>2, <2>1, Before DEF Current, Tries, StartAt
  <2> QED
    BY <1>1, <1>2, <2>1, <2>2, Before DEF Advances, StartFits, Returned, GivesFailed
<1> QED
  BY <1>3, <1>4, <1>5 DEF CreateContainer

\* The start: it runs, it is refused, or its reply is lost.
LEMMA CreatedAdvances ==
  ASSUME StartInv, NEW s \in Starts, StartCreated(s)
  PROVE  Advances(s)
<1>1. StartAt(s, "start") /\ UNCHANGED <<ended, hasGPU>> /\ (CallAnswers(s) \/ CallFails(s))
  BY DEF StartCreated
<1>2. StartTypeOK /\ start[s].pc \notin Returned
  BY <1>1 DEF StartInv, StartAt, Returned
<1>3. Current(s) /\ Tries(s) /\ start[s].try \in {1, 2} /\ (ended[s] => disturbed[s])
  BY <1>2, Before
<1>4. CASE CallAnswers(s) /\ BoxBecomes(s, "running") /\ StartGoto(s, "started")
  <2>1. /\ StepOf(s) /\ start'[s].pc = "started" /\ ended'[s] = ended[s] /\ disturbed'[s] = disturbed[s]
        /\ box'[s][start[s].try] = "running"
        /\ \A k \in {1, 2} : k # start[s].try => box'[s][k] = box[s][k]
    BY <1>1, <1>2, <1>4, GotoEffect, BoxEffect, CallEffect, Untouched DEF StepOf, StartPCs
  <2>2. GivesStarted(s)
    BY <1>3, <2>1 DEF GivesStarted, Tries
  <2> QED
    BY <1>2, <1>3, <2>1, <2>2 DEF Advances, StartFits, Returned
<1>5. ASSUME NEW pc \in {"clean", "undo"}, CallAnswers(s) \/ CallFails(s), UNCHANGED box,
             StartGoto(s, pc), pc = "undo" => start[s].device
      PROVE  Advances(s)
  <2>1. /\ StepOf(s) /\ start'[s].pc = pc /\ start'[s].try = start[s].try
        /\ box'[s] = box[s] /\ ended'[s] = ended[s]
        /\ disturbed[s] => disturbed'[s]
    BY <1>1, <1>2, <1>5, GotoEffect, CallEffect, Untouched DEF StepOf, StartPCs
  <2>2. box[s][start[s].try] = "created" /\ (start[s].device => start[s].try = 1 /\ s \in GpuStarts)
    BY <1>1, <1>3 DEF Current, Tries, StartAt
  <2> QED
    BY <1>2, <1>3, <1>5, <2>1, <2>2 DEF Advances, StartFits, Current, Tries, Returned
<1>6. CASE CallFails(s) /\ StartGoto(s, "clean") /\ BoxBecomes(s, "running")
  <2>1. /\ StepOf(s) /\ start'[s].pc = "clean" /\ start'[s].try = start[s].try
        /\ ended'[s] = ended[s] /\ disturbed'[s]
        /\ box'[s][start[s].try] = "running"
        /\ \A k \in {1, 2} : k # start[s].try => box'[s][k] = box[s][k]
    BY <1>1, <1>2, <1>6, GotoEffect, BoxEffect, CallEffect, Untouched DEF StepOf, StartPCs
  <2> QED
    BY <1>2, <1>3, <2>1 DEF Advances, StartFits, Current, Tries, Returned
<1> QED
  BY <1>4, <1>5, <1>6 DEF StartCreated

\* The removal, which does not remove a container that runs.
LEMMA RemovesEffect ==
  ASSUME StartInv, NEW s \in Starts, RemovesBox(s)
  PROVE  /\ box' = [box EXCEPT ![s] = box'[s]]
         /\ box'[s] \in [1 .. 2 -> {"none", "created", "running", "removed"}]
         /\ disturbed' = [disturbed EXCEPT ![s] = disturbed'[s]] /\ disturbed'[s] \in BOOLEAN
         /\ disturbed[s] => disturbed'[s]
         /\ \A k \in {1, 2} : k # start[s].try => box'[s][k] = box[s][k]
         /\ \/ box'[s][start[s].try] = "removed" /\ box[s][start[s].try] = "created"
            \/ /\ box'[s][start[s].try] = box[s][start[s].try]
               /\ disturbed'[s] \/ box[s][start[s].try] # "created"
<1>1. StartTypeOK /\ start[s].try \in {1, 2}
  BY StartFields DEF StartInv
<1>2. CASE CallAnswers(s) /\ box[s][start[s].try] = "created" /\ BoxBecomes(s, "removed")
  <2>1. /\ box' = [box EXCEPT ![s] = box'[s]]
        /\ box'[s] \in [1 .. 2 -> {"none", "created", "running", "removed"}]
        /\ box'[s][start[s].try] = "removed"
        /\ \A k \in {1, 2} : k # start[s].try => box'[s][k] = box[s][k]
    BY <1>1, <1>2, BoxEffect
  <2>2. /\ disturbed' = [disturbed EXCEPT ![s] = disturbed'[s]] /\ disturbed'[s] \in BOOLEAN
        /\ disturbed[s] => disturbed'[s]
    BY <1>2, CallEffect
  <2> QED
    BY <1>2, <2>1, <2>2
<1>3. CASE /\ CallAnswers(s) \/ CallFails(s)
           /\ UNCHANGED box
           /\ CallFails(s) \/ box[s][start[s].try] # "created"
  <2>1. /\ box' = [box EXCEPT ![s] = box'[s]] /\ box'[s] = box[s]
        /\ box'[s] \in [1 .. 2 -> {"none", "created", "running", "removed"}]
    BY <1>3, Untouched
  <2>2. /\ disturbed' = [disturbed EXCEPT ![s] = disturbed'[s]] /\ disturbed'[s] \in BOOLEAN
        /\ disturbed[s] => disturbed'[s]
        /\ CallFails(s) => disturbed'[s]
    BY <1>3, CallEffect
  <2> QED
    BY <1>3, <2>1, <2>2
<1> QED
  BY <1>2, <1>3 DEF RemovesBox

\* The fallback to a start without a GPU.
LEMMA FallBackAdvances ==
  ASSUME StartInv, NEW s \in Starts, FallBack(s)
  PROVE  Advances(s)
<1>1. StartAt(s, "undo") /\ UNCHANGED ended /\ hasGPU' = FALSE /\ RemovesBox(s)
  BY DEF FallBack
<1>2. StartTypeOK /\ start[s].pc \notin Returned
  BY <1>1 DEF StartInv, StartAt, Returned
<1>3. /\ start[s].try = 1 /\ s \in GpuStarts /\ box[s][1] = "created" /\ box[s][2] = "none"
      /\ ended[s] => disturbed[s]
  BY <1>1, <1>2, Before DEF Current, Tries, StartAt
<1>4. /\ start' = [start EXCEPT ![s] = start'[s]]
      /\ start'[s].pc = "create" /\ start'[s].try = 2
      /\ start'[s] \in [pc : StartPCs, image : Images \cup {NoImage},
                        device : BOOLEAN, try : 1 .. 2]
  <2>1. start' = [start EXCEPT ![s].pc = "create", ![s].device = FALSE, ![s].try = 2]
    BY DEF FallBack
  <2>2. start'[s] = [start[s] EXCEPT !.pc = "create", !.device = FALSE, !.try = 2]
    BY <1>2, <2>1 DEF StartTypeOK
  <2>3. start[s] \in [pc : StartPCs, image : Images \cup {NoImage},
                      device : BOOLEAN, try : 1 .. 2]
    BY <1>2, StartFields
  <2>4. start' = [start EXCEPT ![s] = start'[s]]
    BY <1>2, <2>1, <2>2 DEF StartTypeOK
  <2>5. start'[s] = [pc |-> "create", image |-> start[s].image, device |-> FALSE, try |-> 2]
    BY <2>2, <2>3
  <2>6. "create" \in StartPCs /\ start[s].image \in Images \cup {NoImage} /\ 2 \in 1 .. 2
    BY <2>3 DEF StartPCs
  <2> QED
    BY <2>4, <2>5, <2>6
<1>5. /\ StepOf(s) /\ ended'[s] = ended[s] /\ (disturbed[s] => disturbed'[s])
      /\ box'[s][2] = "none"
      /\ box'[s][1] = "removed" \/ (box'[s][1] = "created" /\ disturbed'[s])
  <2>1. /\ box' = [box EXCEPT ![s] = box'[s]]
        /\ box'[s] \in [1 .. 2 -> {"none", "created", "running", "removed"}]
        /\ disturbed' = [disturbed EXCEPT ![s] = disturbed'[s]] /\ disturbed'[s] \in BOOLEAN
        /\ disturbed[s] => disturbed'[s]
        /\ \A k \in {1, 2} : k # start[s].try => box'[s][k] = box[s][k]
        /\ \/ box'[s][start[s].try] = "removed"
           \/ box'[s][start[s].try] = "created" /\ disturbed'[s]
    BY <1>1, <1>3, RemovesEffect
  <2>2. ended' = [ended EXCEPT ![s] = ended'[s]] /\ ended'[s] = ended[s] /\ ended'[s] \in BOOLEAN
    BY <1>1, Untouched
  <2> QED
    BY <1>1, <1>3, <1>4, <2>1, <2>2 DEF StepOf
<1> QED
  BY <1>2, <1>3, <1>4, <1>5 DEF Advances, StartFits, Current, Tries, Returned

\* The removal before an error.
LEMMA CleanUpAdvances ==
  ASSUME StartInv, NEW s \in Starts, CleanUp(s)
  PROVE  Advances(s)
<1>1. StartAt(s, "clean") /\ UNCHANGED <<ended, hasGPU>> /\ RemovesBox(s) /\ StartGoto(s, "failed")
  BY DEF CleanUp
<1>2. StartTypeOK /\ start[s].pc \notin Returned
  BY <1>1 DEF StartInv, StartAt, Returned
<1>3. /\ start[s].try \in {1, 2} /\ Tries(s) /\ (ended[s] => disturbed[s])
      /\ \/ box[s][start[s].try] = "created"
         \/ box[s][start[s].try] = "running" /\ disturbed[s]
  BY <1>1, <1>2, Before DEF Current, StartAt
<1>4. /\ StepOf(s) /\ start'[s].pc = "failed" /\ ended'[s] = ended[s]
      /\ disturbed[s] => disturbed'[s]
  BY <1>1, <1>2, RemovesEffect, GotoEffect, Untouched DEF StepOf, StartPCs
<1>5. /\ \A k \in {1, 2} : k # start[s].try => box'[s][k] = box[s][k]
      /\ \/ box'[s][start[s].try] = "removed"
         \/ box'[s][start[s].try] \in {"created", "running"} /\ disturbed'[s]
  BY <1>1, <1>3, <1>4, RemovesEffect
<1>6. GivesFailed(s)
  <2>1. CASE start[s].try = 1
    BY <1>3, <1>4, <1>5, <2>1 DEF GivesFailed, Tries
  <2>2. CASE start[s].try = 2
    BY <1>3, <1>4, <1>5, <2>2 DEF GivesFailed, Tries
  <2> QED
    BY <1>3, <2>1, <2>2
<1> QED
  BY <1>2, <1>3, <1>4, <1>6 DEF Advances, StartFits, Returned

\* Every step of the starts advances one of them.
LEMMA NextAdvances ==
  ASSUME StartInv, ModelTypeOK, StartNext
  PROVE  \E s \in Starts : Advances(s)
BY RequestAdvances, ContextAdvances, ListAdvances, PullAdvances, CreateAdvances, CreatedAdvances,
   FallBackAdvances, CleanUpAdvances DEF StartNext, StartStep

-----------------------------------------------------------------------------
(* The theorems. *)

\* The invariant holds at first.
LEMMA InitInv == Init => RegistryInv
<1> SUFFICES ASSUME Init PROVE RegistryInv
  OBVIOUS
<1>1. ModelTypeOK /\ Addressed
  BY BlankTypes, Apart DEF Init, ModelInit, ModelTypeOK, Addressed, InProgress
<1>2. ASSUME NEW m \in Models PROVE Fits(m)
  <2>1. m # Absent /\ m # NoImage /\ m \in Images /\ m \notin Foreign
    BY Apart
  <2>2. models[m] = Absent /\ m \notin images /\ removing[m] = 0
    BY <2>1 DEF Init, ModelInit
  <2>3. \A r \in Requests : req[r] = Blank("new") /\ ~Works(r, m)
    BY BlankTypes DEF Init, ModelInit, Works, InProgress
  <2>4. OwnTag(m)
    BY <2>1, <2>3, BlankTypes DEF OwnTag, Init, ModelInit
  <2> QED
    BY <2>1, <2>2, <2>3, <2>4 DEF Fits, OneAtATime, AtRest, InStep
<1>3. StartTypeOK
  BY DEF Init, StartInit, StartTypeOK, StartPCs
<1>4. ASSUME NEW s \in Starts PROVE StartFits(s)
  BY DEF Init, StartInit, StartFits, Current, Tries
<1> QED
  BY <1>1, <1>2, <1>3, <1>4 DEF RegistryInv, ModelInv, StartInv

\* Every step keeps it.
LEMMA NextInv == RegistryInv /\ [Next]_vars => RegistryInv'
<1> SUFFICES ASSUME RegistryInv, [Next]_vars PROVE RegistryInv'
  OBVIOUS
<1> USE DEF RegistryInv
<1>1. CASE ModelNext /\ UNCHANGED startVars
  <2>1. ModelInv'
    BY <1>1, HandleModels, SendModels, RemoveLaterModels, RestartModels DEF ModelNext
  <2>2. StartInv'
    BY <1>1 DEF startVars, StartInv, StartTypeOK, StartFits, Current, Tries
  <2> QED
    BY <2>1, <2>2
<1>2. CASE StartNext /\ UNCHANGED <<models, removing, req, restarts, strained>>
  <2>1. StartInv'
    BY <1>2, NextAdvances, StepKeeps DEF ModelInv, Advances
  <2> QED
    BY <1>2, <2>1, StartModels
<1>3. CASE UNCHANGED vars
  <2>1. ModelTypeOK' /\ Addressed'
    BY <1>3 DEF vars, modelVars, ModelInv, ModelTypeOK, Addressed, InProgress
  <2>2. ASSUME NEW m \in Models, m \notin strained' PROVE Fits(m)'
    <3>1. Fits(m)
      BY <1>3, <2>2 DEF ModelInv, vars, modelVars
    <3>2. OwnTag(m)' /\ \A q \in Requests : Works(q, m)' <=> Works(q, m)
      BY <1>3, <3>1 DEF vars, modelVars, Fits, OwnTag, Works, InProgress
    <3> QED
      BY <1>3, <3>1, <3>2, FitsKept DEF vars, modelVars
  <2>3. StartInv'
    BY <1>3 DEF vars, startVars, StartInv, StartTypeOK, StartFits, Current, Tries
  <2> QED
    BY <2>1, <2>2, <2>3 DEF ModelInv
<1> QED
  BY <1>1, <1>2, <1>3 DEF Next

\* The inductive invariant of models and starts: of a model nobody strained,
\* the place of the one request, or the one removal, that works on it decides
\* what its row and the daemon hold, and of a start its place decides what it
\* has created.
THEOREM RegistryInvariant == Spec => []RegistryInv
BY InitInv, NextInv, PTL DEF Spec

\* The state of the model service and of the starts keeps its type.
THEOREM RegistryTypes == Spec => []RegistryTypeOK
<1>1. RegistryInv => RegistryTypeOK
  BY DEF RegistryInv, ModelInv, StartInv, RegistryTypeOK
<1> QED
  BY <1>1, RegistryInvariant, PTL

\* A quiet model is at rest, with nothing left to remove.
LEMMA QuietInStep ==
  ASSUME RegistryInv, NEW m \in Models, Quiet(m)
  PROVE  InStep(m)
<1>1. Fits(m) /\ m \in Images
  BY Apart DEF RegistryInv, ModelInv, Quiet
<1>2. (\A r \in Requests : ~Works(r, m)) /\ ~(removing[m] > 0)
  BY DEF Quiet, Busy, Works
<1> QED
  BY <1>1, <1>2 DEF Fits, AtRest

\* A model whose row names the image the service built has that image, when no
\* request and no removal is at work on it and none was strained: builds,
\* rebuilds, updates and deletions of any number of models at the same time.
THEOREM BuiltImagesStay == Spec => []BuiltModelHasImage
<1>1. RegistryInv => BuiltModelHasImage
  BY QuietInStep DEF BuiltModelHasImage, InStep
<1> QED
  BY <1>1, RegistryInvariant, PTL

\* And no image outlives the row that named it.
THEOREM ImagesLeaveWithModels == Spec => []NoImageLeftOver
<1>1. RegistryInv => NoImageLeftOver
  BY QuietInStep DEF NoImageLeftOver, InStep
<1> QED
  BY <1>1, RegistryInvariant, PTL

-----------------------------------------------------------------------------
(* The starts implement StartOutcome. *)

\* How many of two things are v.
LEMMA CountOf ==
  ASSUME NEW b, NEW v
  PROVE  Cardinality({k \in 1 .. 2 : b[k] = v}) =
           (IF b[1] = v THEN 1 ELSE 0) + (IF b[2] = v THEN 1 ELSE 0)
<1> DEFINE S == {k \in 1 .. 2 : b[k] = v}
<1>1. CASE b[1] = v /\ b[2] = v
  <2>1. S = {1} \cup {2}
    BY <1>1
  <2>2. IsFiniteSet({1}) /\ Cardinality({1}) = 1 /\ 2 \notin {1}
    BY FS_Singleton
  <2>3. Cardinality({1} \cup {2}) = 2
    BY <2>2, FS_AddElement
  <2> QED
    BY <1>1, <2>1, <2>3
<1>2. CASE b[1] = v /\ b[2] # v
  <2>1. S = {1}
    BY <1>2
  <2>2. Cardinality(S) = 1
    BY <2>1, FS_Singleton
  <2> QED
    BY <1>2, <2>2
<1>3. CASE b[1] # v /\ b[2] = v
  <2>1. S = {2}
    BY <1>3
  <2>2. Cardinality(S) = 1
    BY <2>1, FS_Singleton
  <2> QED
    BY <1>3, <2>2
<1>4. CASE b[1] # v /\ b[2] # v
  <2>1. S = {}
    BY <1>4
  <2> QED
    BY <1>4, <2>1, FS_EmptySet
<1> QED
  BY <1>1, <1>2, <1>3, <1>4

\* The abstract state of the starts, as StartIsOneStep maps it.
Answer(s) == IF start[s].pc \in Returned THEN start[s].pc ELSE "pending"

Behind(s) == IF start[s].pc \in Returned
             THEN [created |-> Count(s, "created"), running |-> Count(s, "running")]
             ELSE [created |-> 0, running |-> 0]

Answers == [s \in Starts |-> Answer(s)]

AllBehind == [s \in Starts |-> Behind(s)]

\* A step that advances s changes the abstract state of s only.
LEMMA OthersStay ==
  ASSUME StartInv, NEW s \in Starts, Advances(s)
  PROVE  /\ Answers' = [Answers EXCEPT ![s] = Answer(s)']
         /\ AllBehind' = [AllBehind EXCEPT ![s] = Behind(s)']
         /\ Answers[s] = "pending" /\ AllBehind[s] = [created |-> 0, running |-> 0]
<1>1. \A q \in Starts : q # s => start'[q] = start[q] /\ box'[q] = box[q]
  BY DEF Advances, StepOf, StartInv, StartTypeOK
<1>2. \A q \in Starts : q # s => Answer(q)' = Answer(q)
  BY <1>1 DEF Answer
<1>3. \A q \in Starts : q # s => Behind(q)' = Behind(q)
  BY <1>1 DEF Behind, Count
<1>4. Answer(s) = "pending" /\ Behind(s) = [created |-> 0, running |-> 0]
  BY DEF Advances, Answer, Behind
<1> QED
  BY <1>2, <1>3, <1>4 DEF Answers, AllBehind

\* What is behind a start that has returned.
LEMMA BehindReturned ==
  ASSUME NEW s \in Starts, start'[s].pc \in Returned
  PROVE  /\ Answer(s)' = start'[s].pc
         /\ Behind(s)' = [created |-> (IF box'[s][1] = "created" THEN 1 ELSE 0)
                                      + (IF box'[s][2] = "created" THEN 1 ELSE 0),
                          running |-> (IF box'[s][1] = "running" THEN 1 ELSE 0)
                                      + (IF box'[s][2] = "running" THEN 1 ELSE 0)]
<1>1. Count(s, "created")' = (IF box'[s][1] = "created" THEN 1 ELSE 0)
                             + (IF box'[s][2] = "created" THEN 1 ELSE 0)
  BY CountOf DEF Count
<1>2. Count(s, "running")' = (IF box'[s][1] = "running" THEN 1 ELSE 0)
                             + (IF box'[s][2] = "running" THEN 1 ELSE 0)
  BY CountOf DEF Count
<1> QED
  BY <1>1, <1>2 DEF Answer, Behind

\* Every step of a start is one of StartOutcome, or none.
LEMMA AdvanceIsOneStep ==
  ASSUME StartInv, NEW s \in Starts, Advances(s)
  PROVE  [Outcome!OutcomeNext]_<<Answers, AllBehind, disturbed>>
<1>1. /\ Answers' = [Answers EXCEPT ![s] = Answer(s)']
      /\ AllBehind' = [AllBehind EXCEPT ![s] = Behind(s)']
      /\ Answers[s] = "pending" /\ AllBehind[s] = [created |-> 0, running |-> 0]
  BY OthersStay
<1>2. /\ disturbed' = [disturbed EXCEPT ![s] = disturbed'[s]]
      /\ disturbed'[s] \in BOOLEAN /\ disturbed[s] \in BOOLEAN
      /\ disturbed[s] => disturbed'[s]
      /\ disturbed \in [Starts -> BOOLEAN]
  BY DEF Advances, StepOf, StartInv, StartTypeOK
<1>3. disturbed'[s] = disturbed[s] => disturbed' = disturbed
  BY <1>2
<1>4. disturbed'[s] => disturbed' = [disturbed EXCEPT ![s] = TRUE]
  BY <1>2
<1> DEFINE Returns(how, boxes) == /\ Answers[s] = "pending"
                                  /\ Answers' = [Answers EXCEPT ![s] = how]
                                  /\ AllBehind' = [AllBehind EXCEPT ![s] = boxes]
<1>5. ASSUME NEW how, NEW boxes, Returns(how, boxes) PROVE Outcome!Returns(s, how, boxes)
  BY <1>5 DEF Outcome!Returns, Answers, AllBehind, Answer, Behind, Returned
<1>6. CASE start'[s].pc \notin Returned
  <2>1. Answers' = Answers /\ AllBehind' = AllBehind
    <3>1. Answer(s)' = Answers[s] /\ Behind(s)' = AllBehind[s]
      BY <1>1, <1>6 DEF Answer, Behind
    <3> QED
      BY <1>1, <3>1 DEF Answers, AllBehind
  <2>2. CASE disturbed'[s] = disturbed[s]
    BY <1>3, <2>1, <2>2
  <2>3. CASE disturbed'[s]
    <3>1. Outcome!Disturb(s)
      BY <1>1, <1>4, <2>1, <2>3 DEF Outcome!Disturb, Answers, AllBehind, Answer, Behind, Returned
    <3> QED
      BY <3>1 DEF Outcome!OutcomeNext
  <2> QED
    BY <1>2, <2>2, <2>3
<1>7. CASE GivesStarted(s)
  <2>1. /\ Answer(s)' = "started"
        /\ Behind(s)' = [created |-> (IF box'[s][1] = "created" THEN 1 ELSE 0)
                                     + (IF box'[s][2] = "created" THEN 1 ELSE 0),
                         running |-> (IF box'[s][1] = "running" THEN 1 ELSE 0)
                                     + (IF box'[s][2] = "running" THEN 1 ELSE 0)]
    BY <1>7, BehindReturned DEF GivesStarted, Returned
  <2>2. disturbed' = disturbed
    BY <1>3, <1>7 DEF GivesStarted
  <2>3. CASE Behind(s)' = [created |-> 0, running |-> 1]
    <3>1. Outcome!Returns(s, "started", [created |-> 0, running |-> 1])
      BY <1>1, <1>5, <2>1, <2>3
    <3>2. Outcome!Start(s)
      BY <2>2, <3>1 DEF Outcome!Start, Outcome!Nothing
    <3> QED
      BY <3>2 DEF Outcome!OutcomeNext
  <2>4. CASE Behind(s)' = [created |-> 1, running |-> 1] /\ s \in GpuStarts /\ disturbed[s]
    <3>1. Outcome!Returns(s, "started", [created |-> 1, running |-> 1])
      BY <1>1, <1>5, <2>1, <2>4
    <3>2. Outcome!StartTwice(s)
      BY <2>2, <2>4, <3>1 DEF Outcome!StartTwice
    <3> QED
      BY <3>2 DEF Outcome!OutcomeNext
  <2> QED
    BY <1>7, <2>1, <2>3, <2>4 DEF GivesStarted
<1>8. CASE GivesFailed(s)
  <2>1. Answer(s)' = "failed"
        /\ \E c, n \in 0 .. 2 :
             /\ Behind(s)' = [created |-> c, running |-> n]
             /\ c = (IF box'[s][1] = "created" THEN 1 ELSE 0) + (IF box'[s][2] = "created" THEN 1 ELSE 0)
             /\ n = (IF box'[s][1] = "running" THEN 1 ELSE 0) + (IF box'[s][2] = "running" THEN 1 ELSE 0)
    BY <1>8, BehindReturned DEF GivesFailed, Returned
  <2> PICK c \in 0 .. 2, n \in 0 .. 2 :
             /\ Behind(s)' = [created |-> c, running |-> n]
             /\ c = (IF box'[s][1] = "created" THEN 1 ELSE 0) + (IF box'[s][2] = "created" THEN 1 ELSE 0)
             /\ n = (IF box'[s][1] = "running" THEN 1 ELSE 0) + (IF box'[s][2] = "running" THEN 1 ELSE 0)
    BY <2>1
  <2>2. Outcome!Returns(s, "failed", [created |-> c, running |-> n])
    BY <1>1, <1>5, <2>1
  <2>3. CASE \A k \in {1, 2} : box'[s][k] \notin {"created", "running"}
    <3>1. c = 0 /\ n = 0
      BY <2>3
    <3>2. disturbed' \in {disturbed, [disturbed EXCEPT ![s] = TRUE]}
      BY <1>2, <1>3, <1>4
    <3>3. Outcome!StartFails(s)
      BY <2>2, <3>1, <3>2 DEF Outcome!StartFails, Outcome!Nothing
    <3> QED
      BY <3>3 DEF Outcome!OutcomeNext
  <2>4. CASE /\ disturbed'[s]
             /\ \E k \in {1, 2} : box'[s][k] \in {"created", "running"}
             /\ box'[s][2] # "none" => s \in GpuStarts /\ box'[s][1] # "running"
    <3>1. c \in 0 .. 2 /\ n \in 0 .. 1 /\ c + n \in 1 .. (IF s \in GpuStarts THEN 2 ELSE 1)
      BY <2>4
    <3>2. Outcome!StartCutShort(s)
      BY <1>4, <2>2, <2>4, <3>1 DEF Outcome!StartCutShort
    <3> QED
      BY <3>2 DEF Outcome!OutcomeNext
  <2> QED
    BY <1>8, <2>3, <2>4 DEF GivesFailed
<1> QED
  BY <1>6, <1>7, <1>8 DEF Advances

\* StartContainer, call by call, implements the one step its callers see: with
\* images that vanish, contexts that end, a GPU that is refused and calls that
\* fail, a start that returns an error has left a container only if something
\* disturbed it, and never more than one for each try.
THEOREM StartImplemented == Spec => StartIsOneStep
<1>1. Init => Outcome!OutcomeInit
  BY DEF Init, StartInit, Outcome!OutcomeInit, Outcome!Nothing
<1>2. RegistryInv /\ [Next]_vars => [Outcome!OutcomeNext]_<<Answers, AllBehind, disturbed>>
  <2> SUFFICES ASSUME RegistryInv, [Next]_vars
               PROVE  [Outcome!OutcomeNext]_<<Answers, AllBehind, disturbed>>
    OBVIOUS
  <2>1. CASE StartNext
    BY <2>1, NextAdvances, AdvanceIsOneStep DEF RegistryInv, ModelInv
  <2>2. CASE UNCHANGED startVars
    BY <2>2 DEF startVars, Answers, AllBehind, Answer, Behind, Count
  <2> QED
    BY <2>1, <2>2 DEF Next, vars
<1>3. RegistryInv /\ [Next]_vars => [Outcome!OutcomeNext]_Outcome!outcomeVars
  BY <1>2 DEF Outcome!outcomeVars, Answers, AllBehind, Answer, Behind, Returned
<1> QED
  BY <1>1, <1>3, RegistryInvariant, PTL DEF Spec, StartIsOneStep, Outcome!OutcomeSpec

==============================================================================
