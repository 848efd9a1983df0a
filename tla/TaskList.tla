-------------------------------- MODULE TaskList --------------------------------
(***************************************************************************)
(* GET /task/list: a client that reads page after page until total_count,  *)
(* while tasks are created and deleted (HandleGetAllTasks, ListTasks).     *)
(* A page and the count are two queries.  Rows differ in created_at.       *)
(***************************************************************************)
EXTENDS Int32Cut, SequencesExt

CONSTANTS
  MaxTasks,         \* bound: tasks ever created
  InitialTasks,     \* bound: tasks that are there when the client begins
  PageSizes,        \* values of page_size in the request
  DefaultPageSize

ASSUME ListAssumption ==
  /\ MaxTasks \in Nat /\ InitialTasks \in 0 .. MaxTasks
  /\ PageSizes \subseteq Int /\ DefaultPageSize \in Nat \ {0}

VARIABLES
  table,   \* ids of the tasks, newest first
  born,    \* tasks created so far
  walk     \* the client and its request

listVars == <<table, born, walk>>

\* What is not a positive number becomes the default.
PageSize(asked) == IF asked <= 0 THEN DefaultPageSize ELSE asked

ListInit ==
  /\ born = InitialTasks
  /\ table = [i \in 1 .. born |-> born + 1 - i]
  /\ walk = [pc |-> "new", page |-> 1, size |-> DefaultPageSize, seen |-> <<>>,
             old |-> 1 .. born, inserts |-> 0, deletes |-> 0]

-----------------------------------------------------------------------------

\* An INSERT.  created_at is the start of the transaction: one that commits late
\* comes further down.
CreateTask ==
  /\ walk.pc # "new" /\ born < MaxTasks
  /\ born' = born + 1
  /\ \E i \in 1 .. Len(table) + 1 : table' = InsertAt(table, i, born')
  /\ walk' = [walk EXCEPT !.inserts = @ + 1]

DeleteTask ==
  /\ walk.pc # "new"
  /\ \E i \in 1 .. Len(table) : table' = RemoveAt(table, i)
  /\ walk' = [walk EXCEPT !.deletes = @ + 1]
  /\ UNCHANGED born

FirstPage ==
  /\ walk.pc = "new"
  /\ \E asked \in PageSizes : walk' = [walk EXCEPT !.pc = "page", !.size = PageSize(asked)]
  /\ UNCHANGED <<table, born>>

\* Faulty variant: pages are counted from zero.
OffsetFromZero(page, size) == Int32(page * size)

Offset(page, size) == Int32((page - 1) * size)

\* Faulty variant: one row more, to know if there is a next page.
RowsOneMore(limit, offset) ==
  SubSeq(table, offset + 1, IF offset + limit < Len(table) THEN offset + limit + 1
                            ELSE Len(table))

Rows(limit, offset) ==
  SubSeq(table, offset + 1, IF offset + limit < Len(table) THEN offset + limit
                            ELSE Len(table))

\* GetTasksPaginated; the database refuses a negative LIMIT or OFFSET.
ReadPage ==
  LET limit == Int32(walk.size)
      offset == Offset(walk.page, walk.size)
  IN  /\ walk.pc = "page"
      /\ \/ /\ limit >= 0 /\ offset >= 0
            /\ walk' = [walk EXCEPT !.pc = "count", !.seen = @ \o Rows(limit, offset)]
         \/ walk' = [walk EXCEPT !.pc = "failed"]
      /\ UNCHANGED <<table, born>>

\* GetTasksCount, the answer, and the client's next request.
ReadCount ==
  /\ walk.pc = "count"
  /\ \/ /\ walk.page * walk.size >= Len(table)
        /\ walk' = [walk EXCEPT !.pc = "done"]
     \/ /\ walk.page * walk.size < Len(table)
        /\ walk' = [walk EXCEPT !.pc = "page", !.page = @ + 1]
     \/ walk' = [walk EXCEPT !.pc = "failed"]
  /\ UNCHANGED <<table, born>>

ListNext ==
  /\ walk.pc \notin {"done", "failed"}
  /\ FirstPage \/ CreateTask \/ DeleteTask \/ ReadPage \/ ReadCount

-----------------------------------------------------------------------------
(* Properties *)

\* Of the tasks that were there all the time the client misses no more than were
\* deleted while it read: creating tasks hides none, and a table too long for the
\* int32 of OFFSET ends in an error, not in a gap.  The page size has to fit into
\* an int32 itself: a larger one is cut to the size of another page.
HiddenOnlyByDeletion ==
  walk.pc = "done" /\ Int32(walk.size) = walk.size =>
    Cardinality((walk.old \cap ToSet(table)) \ ToSet(walk.seen)) <= walk.deletes

\* And it is shown no more tasks twice than were created while it read.
RepeatedOnlyByCreation ==
  Len(walk.seen) - Cardinality(ToSet(walk.seen)) <= walk.inserts

==============================================================================
