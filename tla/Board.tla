-------------------------------- MODULE Board --------------------------------
(***************************************************************************)
(* The kanban board of one project: its workflow columns                   *)
(* (internal/store/workflows.go) and its cards (internal/store/todos.go,   *)
(* todo_archival.go), ordered by Ordering.                                 *)
(*                                                                         *)
(* Every action is one SQL transaction.  The pool holds one connection     *)
(* (internal/db/db.go), so transactions do not overlap; requests interleave*)
(* between them, which is why neighbours named by a request may be stale   *)
(* (moved, archived or deleted) when its transaction runs.  A request that *)
(* is refused rolls back and changes nothing, so only the accepted ones    *)
(* are actions.                                                            *)
(***************************************************************************)
EXTENDS Ordering

CONSTANTS
  Keys,                \* column keys a workflow may use
  MaxWorkflowColumns,  \* maxWorkflowColumns (12)
  MaxId,               \* bound: row ids of the todos table
  MaxRank              \* bound: the largest rank handed out

ASSUME BoardAssumption ==
  /\ IsFiniteSet(Keys)
  /\ MaxWorkflowColumns \in Nat /\ MaxWorkflowColumns >= 2
  /\ MaxId \in Nat
  /\ MaxRank \in Nat

VARIABLES
  workflow,  \* project_workflow_columns: key -> [position, isDone]
  todos      \* todos: row id -> [column, rank, archived, done]

vars == <<workflow, todos>>

Column == [position : Nat, isDone : BOOLEAN]
Todo == [column : Keys, rank : Nat, archived : BOOLEAN, done : BOOLEAN]
-----------------------------------------------------------------------------
\* The rows a lane query returns: active cards of column c with their ranks.
\* Mutant: archived cards are not left out.
MutLaneWithArchived(c) ==
  [i \in {t \in DOMAIN todos : todos[t].column = c} |-> todos[i].rank]
Lane(c) ==
  [i \in {t \in DOMAIN todos : todos[t].column = c /\ ~todos[t].archived} |-> todos[i].rank]

\* The columns before k under ORDER BY position.  Mutant: k itself counted.
MutColumnsUpTo(k) == {j \in DOMAIN workflow : workflow[j].position <= workflow[k].position}
ColumnsBefore(k) == {j \in DOMAIN workflow : workflow[j].position < workflow[k].position}
ColumnIndex(k) == Cardinality(ColumnsBefore(k))

exactlyOneDone(w) == \E k \in DOMAIN w : \A j \in DOMAIN w : w[j].isDone <=> j = k

\* done_at is stamped on entering the done column and never cleared.
resolveDoneAtForColumnTransition(wasDone, previousDone, newDone) ==
  wasDone \/ (newDone /\ ~previousDone)

\* computeNewRank may have renumbered lane c before the row itself is written.
AfterSettling(c, after, before) ==
  [i \in DOMAIN todos |->
     IF i \in DOMAIN Lane(c)
     THEN [todos[i] EXCEPT !.rank = settledLane(Lane(c), after, before)[i]]
     ELSE todos[i]]
-----------------------------------------------------------------------------
\* insertWorkflowColumns at project creation: at least two columns, distinct
\* keys, positions in the order given, exactly one done column.
Init ==
  /\ \E K \in SUBSET Keys :
       /\ Cardinality(K) >= 2
       /\ workflow \in [K -> [position : 0 .. Cardinality(K) - 1, isDone : BOOLEAN]]
       /\ {workflow[k].position : k \in K} = 0 .. Cardinality(K) - 1
  /\ exactlyOneDone(workflow)
  /\ todos = [i \in {} |-> None]

\* The row id is one more than the largest of the whole table, which other
\* projects share, so here it is any id above this project's; the id of a
\* deleted card comes back.
CreateTodo(n, c, after, before) ==
  LET rank == newRank(Lane(c), after, before)
  IN  /\ \A i \in DOMAIN todos : i < n
      /\ c \in DOMAIN workflow
      /\ computeNewRank(Lane(c), None, after, before)
      /\ rank <= MaxRank
      /\ todos' = [i \in DOMAIN todos \cup {n} |->
                     IF i = n
                     THEN [column |-> c, rank |-> rank, archived |-> FALSE,
                           done |-> resolveDoneAtForColumnTransition(FALSE, FALSE, workflow[c].isDone)]
                     ELSE AfterSettling(c, after, before)[i]]
      /\ UNCHANGED workflow

MoveTodo(t, c, after, before) ==
  LET rank == newRank(Lane(c), after, before)
      from == workflow[todos[t].column]
  IN  /\ t \in DOMAIN todos
      /\ ~todos[t].archived
      /\ c \in DOMAIN workflow /\ todos[t].column \in DOMAIN workflow
      /\ computeNewRank(Lane(c), t, after, before)
      /\ rank <= MaxRank
      /\ todos' = [AfterSettling(c, after, before) EXCEPT ![t] =
                     [column |-> c, rank |-> rank, archived |-> FALSE,
                      done |-> resolveDoneAtForColumnTransition(
                                 todos[t].done, from.isDone, workflow[c].isDone)]]
      /\ UNCHANGED workflow

\* One batch: every card must exist; those already in the target state stay.
archiveTodosByLocalID(S, archive) ==
  /\ S # {} /\ S \subseteq DOMAIN todos
  /\ \E t \in S : todos[t].archived # archive
  /\ todos' = [i \in DOMAIN todos |->
                 IF i \in S THEN [todos[i] EXCEPT !.archived = archive] ELSE todos[i]]
  /\ UNCHANGED workflow
ArchiveTodosByLocalID(S) == archiveTodosByLocalID(S, TRUE)
RestoreTodosByLocalID(S) == archiveTodosByLocalID(S, FALSE)

DeleteTodo(t) ==
  /\ t \in DOMAIN todos
  /\ todos' = [i \in DOMAIN todos \ {t} |-> todos[i]]
  /\ UNCHANGED workflow

\* The new column goes where the done column is; that one and the ones after
\* it move up.
AddWorkflowColumn(key) ==
  /\ Cardinality(DOMAIN workflow) < MaxWorkflowColumns
  /\ exactlyOneDone(workflow)
  /\ key \in Keys \ DOMAIN workflow
  /\ LET doneKey == CHOOSE k \in DOMAIN workflow : workflow[k].isDone
         doneIdx == ColumnIndex(doneKey)
     IN  workflow' = [k \in DOMAIN workflow \cup {key} |->
           IF k = key THEN [position |-> doneIdx, isDone |-> FALSE]
           ELSE [workflow[k] EXCEPT !.position =
                   ColumnIndex(k) + IF ColumnIndex(k) >= doneIdx THEN 1 ELSE 0]]
  /\ UNCHANGED todos

\* Archived cards keep their column, so they count too.
\* Mutant: only the active cards are counted.
MutLaneLooksEmpty(key) == DOMAIN Lane(key) = {}
LaneIsEmpty(key) == \A t \in DOMAIN todos : todos[t].column # key

DeleteWorkflowColumn(key) ==
  /\ key \in DOMAIN workflow
  /\ ~workflow[key].isDone
  /\ Cardinality(DOMAIN workflow) > 2
  /\ LaneIsEmpty(key)
  /\ workflow' = [k \in DOMAIN workflow \ {key} |->
       [workflow[k] EXCEPT !.position = Cardinality(ColumnsBefore(k) \ {key})]]
  /\ UNCHANGED todos

Ids == 1 .. MaxId
Next ==
  \/ \E n \in Ids, c \in Keys, a, b \in Ids \cup {None} : CreateTodo(n, c, a, b)
  \/ \E t \in Ids, c \in Keys, a, b \in Ids \cup {None} : MoveTodo(t, c, a, b)
  \/ \E S \in SUBSET Ids : ArchiveTodosByLocalID(S)
  \/ \E S \in SUBSET Ids : RestoreTodosByLocalID(S)
  \/ \E t \in Ids : DeleteTodo(t)
  \/ \E k \in Keys : AddWorkflowColumn(k)
  \/ \E k \in Keys : DeleteWorkflowColumn(k)

Spec == Init /\ [][Next]_vars
-----------------------------------------------------------------------------
\* Row ids, columns and ranks have their types; ranks are naturals.
TypeOK ==
  /\ DOMAIN workflow \subseteq Keys /\ workflow \in [DOMAIN workflow -> Column]
  /\ DOMAIN todos \subseteq Ids /\ todos \in [DOMAIN todos -> Todo]

\* No card, archived ones included, is ever left in a column that
\* DeleteWorkflowColumn removed, so restoring it never resurrects a card no
\* lane shows.
CardsHaveColumns == \A t \in DOMAIN todos : todos[t].column \in DOMAIN workflow

\* Through any sequence of AddWorkflowColumn and DeleteWorkflowColumn the
\* columns keep the positions 0 .. n-1 without gap or tie, there is exactly
\* one done column, and at least one other.
WorkflowShape ==
  /\ Cardinality(DOMAIN workflow) >= 2
  /\ exactlyOneDone(workflow)
  /\ {workflow[k].position : k \in DOMAIN workflow} = 0 .. Cardinality(DOMAIN workflow) - 1

\* A rank handed out is positive: the first lane slot never reaches the value
\* an empty lane starts from, however often cards are put in front of it.
RanksPositive == \A t \in DOMAIN todos : todos[t].rank >= 1

\* Every card in the done column carries its completion stamp, whichever way
\* it got there, so the completion counts never miss one.
DoneCardsAreStamped ==
  \A t \in DOMAIN todos :
    (todos[t].column \in DOMAIN workflow /\ workflow[todos[t].column].isDone) => todos[t].done

\* What every transaction on the board keeps, as one inductive invariant: no
\* card is left in a deleted column, no rank reaches zero, and the cards of the
\* done column are stamped.  CardsHaveColumns carries DoneCardsAreStamped over
\* AddWorkflowColumn: a key without a column has no cards, so a column added
\* under a key used before starts empty.
BoardInv == TypeOK /\ CardsHaveColumns /\ RanksPositive /\ DoneCardsAreStamped

\* Two cards that are neighbours in lane order always leave room for a third
\* once computeNewRank has renumbered the lane: its last error, "cannot
\* compute rank", is never returned.
RankAlwaysComputable ==
  \A c \in DOMAIN workflow : \A a, b \in DOMAIN Lane(c) :
    Precedes(Lane(c), a, b) => gapFound(Lane(c), a, b)

\* A step that creates, moves, archives, restores or deletes cards never
\* swaps two cards that stay active in the same lane, even when it renumbers
\* the lane; only the card that a move names may change places.
OrderStep ==
  \A c \in DOMAIN workflow : \A i, j \in DOMAIN Lane(c) \cap DOMAIN Lane(c)' :
    \/ Precedes(Lane(c), i, j) <=> Precedes(Lane(c)', i, j)
    \/ \E t \in {i, j}, a, b \in Ids \cup {None} : MoveTodo(t, c, a, b)
OrderPreserved == [][OrderStep]_vars

\* Whatever the lane looked like, the card a create or a move places ends up
\* behind the afterId card and in front of the beforeId card.
Placed(t, c, a, b) ==
  /\ a # None => Precedes(Lane(c), a, t)
  /\ b # None => Precedes(Lane(c), t, b)
PlacementStep ==
  \A t \in DOMAIN todos' : \A c \in {todos'[t].column} :
    \A a, b \in DOMAIN Lane(c) \cup {None} :
      CreateTodo(t, c, a, b) \/ MoveTodo(t, c, a, b) => Placed(t, c, a, b)'
PlacementHonoured == [][PlacementStep]_vars

\* A card placed without neighbours goes to the end of its lane.
AppendStep ==
  \A t \in DOMAIN todos' : \A c \in {todos'[t].column} :
    CreateTodo(t, c, None, None) \/ MoveTodo(t, c, None, None) =>
      \A i \in DOMAIN Lane(c)' \ {t} : Precedes(Lane(c)', i, t)
AppendGoesLast == [][AppendStep]_vars

\* An archived card keeps its column and rank whatever happens to the lane,
\* renumbering included, until it is restored or deleted.
ArchivedStep ==
  \A t \in DOMAIN todos \cap DOMAIN todos' :
    todos[t].archived /\ todos'[t].archived => todos'[t] = todos[t]
ArchivedCardsKeepTheirPlace == [][ArchivedStep]_vars
=============================================================================
