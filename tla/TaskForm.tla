-------------------------------- MODULE TaskForm --------------------------------
(***************************************************************************)
(* POST /task/run: the multipart body HandleTaskRun reads part by part     *)
(* (internal/server/task.go), the limits it sets, and the signature under  *)
(* which getFinalHash lets tasks share results (internal/service/task.go). *)
(* Requests share nothing before their INSERT: one at a time is enough.    *)
(* What becomes of the row is in TaskApi.                                  *)
(*                                                                         *)
(* Strings that go into the signature are sequences of bytes.  SHA-256     *)
(* maps different inputs to different values.  Memory, limited as the CPU  *)
(* is, is left out.                                                        *)
(***************************************************************************)
EXTENDS Int32Cut, SequencesExt

CONSTANTS
  Forms,       \* task parts: [model, envs, cmd, cpu, timeout]
  FileParts,   \* file parts: [name, content]
  None,        \* the part that has not come
  MaxCPUByTask, DefaultTaskTimeoutSec,
  MaxParts,    \* bound: parts of one body
  MaxAccepted  \* bound: requests that become tasks

ASSUME FormAssumption ==
  /\ Forms \subseteq [model : Seq(Nat), envs : Seq(Seq(Nat)), cmd : Seq(Seq(Nat)),
                     cpu : Int, timeout : Int]
  /\ \A f \in FileParts : f = [name |-> f.name, content |-> f.content]
  /\ MaxCPUByTask \in Nat \ {0} /\ DefaultTaskTimeoutSec \in Int
  /\ MaxParts \in Nat /\ MaxAccepted \in Nat

VARIABLES
  body,      \* the body being read: parts so far, task, files saved, last file
  accepted   \* the rows inserted, each with the part the client sent

formVars == <<body, accepted>>

NoBody == [parts |-> 0, task |-> None, files |-> {}, last |-> None]

FormInit == body = NoBody /\ accepted = {}

-----------------------------------------------------------------------------
(* getFinalHash *)

Comma == 44
Bar == 124

\* The order of Go's strings.
Before(u, v) ==
  \E n \in 0 .. Len(u) :
    /\ n <= Len(v) /\ SubSeq(u, 1, n) = SubSeq(v, 1, n)
    /\ n < Len(v) /\ (n = Len(u) \/ u[n + 1] < v[n + 1])

\* The permutations that put the words in this order.
Orders(words) ==
  {p \in Bijection(DOMAIN words, DOMAIN words) :
     \A i, j \in DOMAIN words : i < j => ~Before(words[p[j]], words[p[i]])}

Sorted(words) ==
  LET p == CHOOSE p \in Orders(words) : TRUE IN [i \in DOMAIN words |-> words[p[i]]]

Joined(words) ==
  LET text[n \in 0 .. Len(words)] ==
        IF n = 0 THEN <<>>
        ELSE IF n = 1 THEN words[1]
        ELSE text[n - 1] \o <<Comma>> \o words[n]
  IN text[Len(words)]

\* Faulty variant: the variables are hashed in the order the client sent them.
SignatureUnsorted(task, hash) ==
  [meta |-> task.model \o <<Bar>> \o Joined(task.envs) \o <<Bar>>
              \o Joined(task.cmd) \o <<Bar>>,
   hash |-> hash]

\* Faulty variant: nothing separates variables and command.
SignatureRunOn(task, hash) ==
  [meta |-> task.model \o <<Bar>> \o Joined(Sorted(task.envs) \o task.cmd), hash |-> hash]

Signature(task, hash) ==
  [meta |-> task.model \o <<Bar>> \o Joined(Sorted(task.envs)) \o <<Bar>>
              \o Joined(task.cmd) \o <<Bar>>,
   hash |-> hash]

-----------------------------------------------------------------------------
(* The parts *)

Refuse == body' = NoBody /\ UNCHANGED accepted

More == body.parts < MaxParts /\ Cardinality(accepted) < MaxAccepted

\* Faulty variant: the limit that was not given stays zero.
WithLimitsUnset(task) == task

\* Zero stands for the largest limit, and for the default timeout.
WithLimits(task) ==
  [task EXCEPT !.cpu = IF @ = 0 THEN MaxCPUByTask ELSE @,
               !.timeout = IF @ = 0 THEN DefaultTaskTimeoutSec ELSE @]

\* A second task part replaces the first.
TaskPart(task) ==
  /\ More
  /\ IF task.cpu \in 0 .. MaxCPUByTask /\ task.timeout >= 0
     THEN body' = [body EXCEPT !.parts = @ + 1, !.task = task] /\ UNCHANGED accepted
     ELSE Refuse

\* Faulty variant: the hash of the first file is kept.
FilePartKeepsHash(file) ==
  /\ More
  /\ body' = [body EXCEPT !.parts = @ + 1,
                !.files = {f \in @ : f.name # file.name} \cup {file},
                !.last = IF @ = None THEN file
                         ELSE [name |-> file.name, content |-> body.last.content]]
  /\ UNCHANGED accepted

\* SaveInput writes into the directory of the task; the name and the hash kept
\* are those of the last file.
FilePart(file) ==
  /\ More
  /\ body' = [body EXCEPT !.parts = @ + 1,
                !.files = {f \in @ : f.name # file.name} \cup {file},
                !.last = file]
  /\ UNCHANGED accepted

\* A part under another name is skipped.
OtherPart == More /\ body' = [body EXCEPT !.parts = @ + 1] /\ UNCHANGED accepted

\* Broken multipart, bad JSON, a full disk; a body that ends too early; a model
\* that is not there, a failing query.
Fails == body # NoBody /\ Refuse

\* CreateTask: getFinalHash sorts the variables of the task in place, and the
\* store keeps 32 bits of the timeout.
Row ==
  LET task == WithLimits(body.task) IN
  [sig |-> Signature(task, body.last.content), sent |-> body.task,
   model |-> task.model, envs |-> Sorted(task.envs), cmd |-> task.cmd,
   cpu |-> task.cpu, timeout |-> Int32(task.timeout),
   input |-> body.last.name, files |-> body.files]

Create ==
  /\ body.task # None /\ body.last # None
  /\ accepted' = accepted \cup {Row}
  /\ body' = NoBody

FormNext ==
  \/ \E task \in Forms : TaskPart(task)
  \/ \E file \in FileParts : FilePart(file)
  \/ OtherPart \/ Fails \/ Create

-----------------------------------------------------------------------------
(* Properties *)

FormTypeOK ==
  /\ body \in [parts : 0 .. MaxParts, task : Forms \cup {None},
               files : SUBSET FileParts, last : FileParts \cup {None}]
  /\ \A r \in accepted :
       /\ r.cpu \in 1 .. MaxCPUByTask
       /\ r.sent.timeout < IntHalf /\ DefaultTaskTimeoutSec \in 1 .. IntHalf - 1
          => r.timeout > 0

\* The signature is made from the file the row names, as it lies in the directory
\* the container will see -- whatever parts came in whatever order.
HashCoversInput ==
  \A r \in accepted : [name |-> r.input, content |-> r.sig.hash] \in r.files

OneFile(r) == Cardinality(r.files) = 1

\* No word is empty or has a comma or a bar in it.
Plain(words) ==
  \A w \in ToSet(words) : w # <<>> /\ Comma \notin ToSet(w) /\ Bar \notin ToSet(w)

\* README.md:10: tasks share a result if model, input, variables and command are
\* the same.  Tasks with the same signature are run with the same model, variables
\* in the same order, command and file content, if each came with one file and
\* only plain words: a shared result is the right one.
SignatureIdentifiesRun ==
  \A r, s \in accepted :
    /\ r.sig = s.sig
    /\ \A t \in {r, s} : OneFile(t) /\ Plain(t.envs) /\ Plain(t.cmd)
    => /\ r.model = s.model /\ r.envs = s.envs /\ r.cmd = s.cmd
       /\ {f.content : f \in r.files} = {f.content : f \in s.files}

Times(w, words) == Cardinality({i \in 1 .. Len(words) : words[i] = w})

\* Conversely a result is found again when the client lists the variables in
\* another order.
SameTaskSameSignature ==
  \A r, s \in accepted :
    /\ r.sent.model = s.sent.model /\ r.sent.cmd = s.sent.cmd
    /\ \A w \in ToSet(r.sent.envs) \cup ToSet(s.sent.envs) :
         Times(w, r.sent.envs) = Times(w, s.sent.envs)
    /\ r.sig.hash = s.sig.hash
    => r.sig = s.sig

==============================================================================
