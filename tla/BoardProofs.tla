----------------------------- MODULE BoardProofs -----------------------------
(***************************************************************************)
(* The board of Board, for every set of column keys, every bound on row    *)
(* ids and ranks and every RankStep of at least 2.                         *)
(***************************************************************************)
EXTENDS Board, OrderingProofs

\* A lane query returns a lane: finitely many cards with positive ranks.
LEMMA LanesAreLanes ==
  ASSUME TypeOK, RanksPositive, NEW c
  PROVE  /\ IsLane(Lane(c))
         /\ DOMAIN Lane(c) \subseteq DOMAIN todos
         /\ \A i \in DOMAIN Lane(c) : Lane(c)[i] >= 1 /\ Lane(c)[i] = todos[i].rank
  <1>1. DOMAIN Lane(c) \subseteq DOMAIN todos
    BY DEF Lane
  <1>2. IsFiniteSet(Ids) /\ Ids \subseteq Int
    BY FS_Interval, BoardAssumption DEF Ids
  <1>3. IsFiniteSet(DOMAIN Lane(c)) /\ DOMAIN Lane(c) \subseteq Int
    BY <1>1, <1>2, FS_Subset DEF TypeOK
  <1>4. \A i \in DOMAIN Lane(c) : Lane(c)[i] = todos[i].rank /\ todos[i].rank \in Nat /\ todos[i].rank >= 1
    BY <1>1 DEF TypeOK, Todo, RanksPositive, Lane
  <1> QED
    BY <1>1, <1>3, <1>4 DEF IsLane, Lane

\* Renumbering a lane on the way writes cards of the same shape.
LEMMA SettlingKeepsCards ==
  ASSUME TypeOK, RanksPositive, NEW c, NEW a, NEW b, NEW i \in DOMAIN todos
  PROVE  LET new == AfterSettling(c, a, b)[i]
         IN  /\ DOMAIN AfterSettling(c, a, b) = DOMAIN todos
             /\ new \in Todo /\ new.rank >= 1
             /\ new.column = todos[i].column
             /\ new.archived = todos[i].archived
             /\ new.done = todos[i].done
             /\ i \in DOMAIN Lane(c) => new.rank = settledLane(Lane(c), a, b)[i]
             /\ i \notin DOMAIN Lane(c) => new = todos[i]
  <1>1. IsLane(Lane(c)) /\ \A j \in DOMAIN Lane(c) : Lane(c)[j] >= 1
    BY LanesAreLanes
  <1> DEFINE s == settledLane(Lane(c), a, b)
  <1>2. \A j \in DOMAIN Lane(c) : s[j] \in Nat /\ s[j] >= 1
    BY <1>1, SettledKeepsOrder DEF IsLane
  <1> HIDE DEF s
  <1>3. todos[i] \in Todo /\ todos[i].rank >= 1
    BY DEF TypeOK, RanksPositive
  <1>4. AfterSettling(c, a, b)[i] =
          IF i \in DOMAIN Lane(c) THEN [todos[i] EXCEPT !.rank = s[i]] ELSE todos[i]
    BY DEF AfterSettling, s
  <1>5. DOMAIN AfterSettling(c, a, b) = DOMAIN todos
    BY DEF AfterSettling
  <1> QED
    BY <1>2, <1>3, <1>4, <1>5 DEF Todo, s

\* A request that computeNewRank accepts gets a positive rank.
LEMMA AcceptedRank ==
  ASSUME TypeOK, RanksPositive, NEW c, NEW m, NEW a, NEW b,
         computeNewRank(Lane(c), m, a, b)
  PROVE  LET s == settledLane(Lane(c), a, b)
             r == newRank(Lane(c), a, b)
         IN  /\ r \in Nat /\ r >= 1
             /\ a \in DOMAIN Lane(c) \cup {None}
             /\ b \in DOMAIN Lane(c) \cup {None}
             /\ a # None => s[a] < r
             /\ b # None => r < s[b]
             /\ a = None /\ b = None => \A i \in DOMAIN Lane(c) : s[i] < r
  <1>1. IsLane(Lane(c)) /\ \A i \in DOMAIN Lane(c) : Lane(c)[i] >= 1
    BY LanesAreLanes
  <1>2. /\ a \in DOMAIN Lane(c) \cup {None}
        /\ b \in DOMAIN Lane(c) \cup {None}
        /\ a # None /\ b # None => Precedes(Lane(c), a, b)
    BY DEF computeNewRank, neighborsAccepted
  <1> HIDE DEF newRank, settledLane, Lane
  <1> QED
    BY <1>1, <1>2, NewRankBetween

\* A fresh card goes into an existing column with a positive rank and, in the
\* done column, with its stamp; the others keep everything but their rank.
LEMMA CreateKeepsInv ==
  ASSUME BoardInv, NEW n \in Ids, NEW c \in Keys, NEW a, NEW b, CreateTodo(n, c, a, b)
  PROVE  BoardInv'
  <1> USE DEF BoardInv
  <1> DEFINE r == newRank(Lane(c), a, b)
             d == resolveDoneAtForColumnTransition(FALSE, FALSE, workflow[c].isDone)
             old == AfterSettling(c, a, b)
  <1>1. /\ c \in DOMAIN workflow /\ computeNewRank(Lane(c), None, a, b)
        /\ workflow' = workflow
        /\ todos' = [i \in DOMAIN todos \cup {n} |->
             IF i = n THEN [column |-> c, rank |-> r, archived |-> FALSE, done |-> d] ELSE old[i]]
    BY DEF CreateTodo
  <1>2. r \in Nat /\ r >= 1
    BY <1>1, AcceptedRank
  <1>3. d \in BOOLEAN /\ (workflow[c].isDone => d)
    BY <1>1 DEF resolveDoneAtForColumnTransition, TypeOK, Column
  <1>4. \A i \in DOMAIN todos : /\ old[i] \in Todo /\ old[i].rank >= 1
                                 /\ old[i].column = todos[i].column
                                 /\ old[i].done = todos[i].done
    BY SettlingKeepsCards
  <1> HIDE DEF r, d, old
  <1>5. [column |-> c, rank |-> r, archived |-> FALSE, done |-> d] \in Todo
    BY <1>2, <1>3 DEF Todo
  <1>6. TypeOK'
    BY <1>1, <1>4, <1>5 DEF TypeOK
  <1>7. CardsHaveColumns'
    BY <1>1, <1>4 DEF CardsHaveColumns
  <1>8. RanksPositive'
    BY <1>1, <1>2, <1>4 DEF RanksPositive
  <1>9. DoneCardsAreStamped'
    BY <1>1, <1>3, <1>4 DEF DoneCardsAreStamped
  <1> QED
    BY <1>6, <1>7, <1>8, <1>9

\* The same for a move; a card moved into the done column from another one is
\* stamped, one that was there already has its stamp.
LEMMA MoveKeepsInv ==
  ASSUME BoardInv, NEW t \in Ids, NEW c \in Keys, NEW a, NEW b, MoveTodo(t, c, a, b)
  PROVE  BoardInv'
  <1> USE DEF BoardInv
  <1> DEFINE r == newRank(Lane(c), a, b)
             from == workflow[todos[t].column]
             d == resolveDoneAtForColumnTransition(todos[t].done, from.isDone, workflow[c].isDone)
             old == AfterSettling(c, a, b)
  <1>1. /\ t \in DOMAIN todos /\ todos[t].column \in DOMAIN workflow
        /\ c \in DOMAIN workflow /\ computeNewRank(Lane(c), t, a, b)
        /\ workflow' = workflow
        /\ todos' = [old EXCEPT ![t] = [column |-> c, rank |-> r, archived |-> FALSE, done |-> d]]
    BY DEF MoveTodo
  <1>2. r \in Nat /\ r >= 1
    BY <1>1, AcceptedRank
  <1>3. d \in BOOLEAN /\ (workflow[c].isDone => d)
    BY <1>1 DEF resolveDoneAtForColumnTransition, TypeOK, Column, Todo, DoneCardsAreStamped
  <1>4. \A i \in DOMAIN todos : /\ old[i] \in Todo /\ old[i].rank >= 1
                                 /\ old[i].column = todos[i].column
                                 /\ old[i].done = todos[i].done
    BY SettlingKeepsCards
  <1>5. DOMAIN old = DOMAIN todos /\ old = [i \in DOMAIN old |-> old[i]]
    BY DEF AfterSettling
  <1> HIDE DEF r, d, old, from
  <1>6. [column |-> c, rank |-> r, archived |-> FALSE, done |-> d] \in Todo
    BY <1>2, <1>3 DEF Todo
  <1>7. todos' = [i \in DOMAIN todos |->
          IF i = t THEN [column |-> c, rank |-> r, archived |-> FALSE, done |-> d] ELSE old[i]]
    BY <1>1, <1>5
  <1>8. TypeOK'
    BY <1>1, <1>4, <1>6, <1>7 DEF TypeOK
  <1>9. CardsHaveColumns'
    BY <1>1, <1>4, <1>7 DEF CardsHaveColumns
  <1>10. RanksPositive'
    BY <1>2, <1>4, <1>7 DEF RanksPositive
  <1>11. DoneCardsAreStamped'
    BY <1>1, <1>3, <1>4, <1>7 DEF DoneCardsAreStamped
  <1> QED
    BY <1>8, <1>9, <1>10, <1>11

\* Positions counted from the columns in front are naturals.
LEMMA ColumnIndexType ==
  ASSUME TypeOK, NEW k, NEW key
  PROVE  ColumnIndex(k) \in Nat /\ Cardinality(ColumnsBefore(k) \ {key}) \in Nat
  <1>1. IsFiniteSet(ColumnsBefore(k)) /\ IsFiniteSet(ColumnsBefore(k) \ {key})
    BY BoardAssumption, FS_Subset DEF TypeOK, ColumnsBefore
  <1> QED
    BY <1>1, FS_CardinalityType DEF ColumnIndex

\* The other operations change no rank, no column of a card and no stamp; the
\* columns they remove are empty and the one they add is not a done column.
LEMMA RestKeepsInv ==
  ASSUME BoardInv, NEW S, NEW t, NEW key, NEW archive \in BOOLEAN,
         \/ archiveTodosByLocalID(S, archive)
         \/ DeleteTodo(t)
         \/ AddWorkflowColumn(key)
         \/ DeleteWorkflowColumn(key)
  PROVE  BoardInv'
  <1> USE DEF BoardInv
  <1>1. CASE archiveTodosByLocalID(S, archive)
    <2>1. /\ workflow' = workflow
          /\ todos' = [i \in DOMAIN todos |->
               IF i \in S THEN [todos[i] EXCEPT !.archived = archive] ELSE todos[i]]
      BY <1>1 DEF archiveTodosByLocalID
    <2>2. \A i \in DOMAIN todos : todos[i] \in Todo
      BY DEF TypeOK
    <2>3. \A i \in DOMAIN todos : /\ todos'[i] \in Todo
                                   /\ todos'[i].column = todos[i].column
                                   /\ todos'[i].rank = todos[i].rank
                                   /\ todos'[i].done = todos[i].done
      BY <2>1, <2>2 DEF Todo
    <2>4. DOMAIN todos' = DOMAIN todos /\ todos' \in [DOMAIN todos -> Todo]
      BY <2>1, <2>3
    <2> QED
      BY <2>1, <2>3, <2>4 DEF TypeOK, CardsHaveColumns, RanksPositive, DoneCardsAreStamped
  <1>2. CASE DeleteTodo(t)
    <2>1. workflow' = workflow /\ todos' = [i \in DOMAIN todos \ {t} |-> todos[i]]
      BY <1>2 DEF DeleteTodo
    <2> QED
      BY <2>1 DEF TypeOK, CardsHaveColumns, RanksPositive, DoneCardsAreStamped
  <1>3. CASE AddWorkflowColumn(key)
    <2> DEFINE idx == ColumnIndex(CHOOSE k \in DOMAIN workflow : workflow[k].isDone)
    <2>1. /\ key \in Keys \ DOMAIN workflow /\ todos' = todos
          /\ workflow' = [k \in DOMAIN workflow \cup {key} |->
               IF k = key THEN [position |-> idx, isDone |-> FALSE]
               ELSE [workflow[k] EXCEPT !.position =
                       ColumnIndex(k) + IF ColumnIndex(k) >= idx THEN 1 ELSE 0]]
      BY <1>3 DEF AddWorkflowColumn
    <2>2. idx \in Nat /\ \A k : ColumnIndex(k) \in Nat
      BY ColumnIndexType
    <2> HIDE DEF idx
    <2>3. \A k \in DOMAIN workflow : workflow[k] \in Column
      BY DEF TypeOK
    <2>4. \A k \in DOMAIN workflow' : workflow'[k] \in Column
      BY <2>1, <2>2, <2>3 DEF Column
    <2>5. \A k \in DOMAIN workflow : k \in DOMAIN workflow' /\ workflow'[k].isDone = workflow[k].isDone
      BY <2>1, <2>3 DEF Column
    <2>6. TypeOK'
      BY <2>1, <2>4 DEF TypeOK
    <2> QED
      BY <2>1, <2>5, <2>6 DEF CardsHaveColumns, RanksPositive, DoneCardsAreStamped
  <1>4. CASE DeleteWorkflowColumn(key)
    <2>1. /\ \A i \in DOMAIN todos : todos[i].column # key
          /\ todos' = todos
          /\ workflow' = [k \in DOMAIN workflow \ {key} |->
               [workflow[k] EXCEPT !.position = Cardinality(ColumnsBefore(k) \ {key})]]
      BY <1>4 DEF DeleteWorkflowColumn, LaneIsEmpty
    <2>2. \A k : Cardinality(ColumnsBefore(k) \ {key}) \in Nat
      BY ColumnIndexType
    <2>3. \A k \in DOMAIN workflow : workflow[k] \in Column
      BY DEF TypeOK
    <2>4. \A k \in DOMAIN workflow' : /\ workflow'[k] \in Column
                                       /\ workflow'[k].isDone = workflow[k].isDone
      BY <2>1, <2>2, <2>3 DEF Column
    <2>5. DOMAIN workflow' = DOMAIN workflow \ {key}
      BY <2>1
    <2>6. TypeOK'
      BY <2>1, <2>4, <2>5 DEF TypeOK
    <2> QED
      BY <2>1, <2>4, <2>5, <2>6 DEF CardsHaveColumns, RanksPositive, DoneCardsAreStamped
  <1> QED
    BY <1>1, <1>2, <1>3, <1>4

\* The workflow a project is created with and the empty board satisfy the
\* invariant.
LEMMA InitInv == Init => BoardInv
  <1> SUFFICES ASSUME Init PROVE BoardInv
    OBVIOUS
  <1>1. PICK K \in SUBSET Keys :
          workflow \in [K -> [position : 0 .. Cardinality(K) - 1, isDone : BOOLEAN]]
    BY DEF Init
  <1>2. Cardinality(K) \in Nat
    BY <1>1, BoardAssumption, FS_Subset, FS_CardinalityType
  <1>3. 0 .. Cardinality(K) - 1 \subseteq Nat
    BY <1>2
  <1>4. DOMAIN workflow = K /\ workflow \in [K -> Column]
    BY <1>1, <1>3 DEF Column
  <1>5. DOMAIN todos = {} /\ todos = [i \in {} |-> None]
    BY DEF Init
  <1>6. todos \in [DOMAIN todos -> Todo]
    BY <1>5
  <1> QED
    BY <1>4, <1>5, <1>6 DEF BoardInv, TypeOK, CardsHaveColumns, RanksPositive, DoneCardsAreStamped

\* Every transaction on the board, and every stuttering step, keeps it.
LEMMA NextKeepsInv == BoardInv /\ [Next]_vars => BoardInv'
  <1> SUFFICES ASSUME BoardInv, [Next]_vars PROVE BoardInv'
    OBVIOUS
  <1>1. CASE \E n \in Ids, c \in Keys, a, b \in Ids \cup {None} : CreateTodo(n, c, a, b)
    BY <1>1, CreateKeepsInv
  <1>2. CASE \E t \in Ids, c \in Keys, a, b \in Ids \cup {None} : MoveTodo(t, c, a, b)
    BY <1>2, MoveKeepsInv
  <1>3. CASE \E S \in SUBSET Ids : ArchiveTodosByLocalID(S) \/ RestoreTodosByLocalID(S)
    BY <1>3, RestKeepsInv DEF ArchiveTodosByLocalID, RestoreTodosByLocalID
  <1>4. CASE \E t \in Ids : DeleteTodo(t)
    BY <1>4, RestKeepsInv
  <1>5. CASE \E k \in Keys : AddWorkflowColumn(k) \/ DeleteWorkflowColumn(k)
    BY <1>5, RestKeepsInv
  <1>6. CASE UNCHANGED vars
    BY <1>6 DEF BoardInv, vars, TypeOK, CardsHaveColumns, RanksPositive, DoneCardsAreStamped, Ids
  <1> QED
    BY <1>1, <1>2, <1>3, <1>4, <1>5, <1>6 DEF Next

\* On every board, after any interleaving of requests: no card is in a column
\* that DeleteWorkflowColumn removed, every rank is positive and every card of
\* the done column has its completion stamp.
THEOREM BoardSafe == Spec => []BoardInv
  <1> QED
    BY InitInv, NextKeepsInv, PTL DEF Spec

\* computeNewRank never answers "cannot compute rank" on a reachable board.
THEOREM RankComputable == Spec => []RankAlwaysComputable
  <1>1. BoardInv => RankAlwaysComputable
    BY LanesAreLanes, GapAlwaysFound DEF BoardInv, RankAlwaysComputable
  <1> QED
    BY <1>1, InitInv, NextKeepsInv, PTL DEF Spec

\* The lane of column c among the cards T.
LaneIn(T, c) == [i \in {t \in DOMAIN T : T[t].column = c /\ ~T[t].archived} |-> T[i].rank]
LEMMA LaneFacts == \A c : Lane(c) = LaneIn(todos, c) /\ Lane(c)' = LaneIn(todos', c)
  BY DEF Lane, LaneIn

\* What placing card t in lane c does to the lanes: t gets the new rank, the
\* other cards of c the settled ones, all other lanes lose at most t.
Placing(t, c, a, b) == CreateTodo(t, c, a, b) \/ MoveTodo(t, c, a, b)
OwnLaneAfter(t, c, a, b) ==
  /\ DOMAIN LaneIn(todos', c) = DOMAIN LaneIn(todos, c) \cup {t}
  /\ LaneIn(todos', c)[t] = newRank(LaneIn(todos, c), a, b)
  /\ \A i \in DOMAIN LaneIn(todos, c) \ {t} :
       LaneIn(todos', c)[i] = settledLane(LaneIn(todos, c), a, b)[i]
  /\ a # t /\ b # t
  /\ computeNewRank(LaneIn(todos, c), None, a, b)
OtherLaneAfter(t, k) ==
  /\ DOMAIN LaneIn(todos', k) = DOMAIN LaneIn(todos, k) \ {t}
  /\ \A i \in DOMAIN LaneIn(todos', k) : LaneIn(todos', k)[i] = LaneIn(todos, k)[i]
LEMMA LanesAfterPlacing ==
  ASSUME BoardInv, NEW t \in Int, NEW c, NEW a, NEW b, Placing(t, c, a, b)
  PROVE  OwnLaneAfter(t, c, a, b) /\ \A k : k # c => OtherLaneAfter(t, k)
  <1> DEFINE r == newRank(Lane(c), a, b)
             old == AfterSettling(c, a, b)
             s == settledLane(Lane(c), a, b)
  <1>1. PICK d : todos' = [i \in DOMAIN todos \cup {t} |->
          IF i = t THEN [column |-> c, rank |-> r, archived |-> FALSE, done |-> d] ELSE old[i]]
    <2>1. CASE CreateTodo(t, c, a, b)
      BY <2>1 DEF CreateTodo
    <2>2. CASE MoveTodo(t, c, a, b)
      <3>1. DOMAIN old = DOMAIN todos /\ t \in DOMAIN todos
        BY <2>2 DEF AfterSettling, MoveTodo
      <3>2. PICK d : todos' = [old EXCEPT ![t] = [column |-> c, rank |-> r, archived |-> FALSE, done |-> d]]
        BY <2>2 DEF MoveTodo
      <3> HIDE DEF old, r
      <3>3. todos' = [i \in DOMAIN todos \cup {t} |->
              IF i = t THEN [column |-> c, rank |-> r, archived |-> FALSE, done |-> d] ELSE old[i]]
        BY <3>1, <3>2
      <3> QED
        BY <3>3
    <2> QED
      BY <2>1, <2>2 DEF Placing
  <1>2. \A i \in DOMAIN todos :
          /\ old[i].column = todos[i].column
          /\ old[i].archived = todos[i].archived
          /\ i \in DOMAIN Lane(c) => old[i].rank = s[i]
          /\ i \notin DOMAIN Lane(c) => old[i] = todos[i]
    BY SettlingKeepsCards DEF BoardInv
  <1>3. a # t /\ b # t /\ computeNewRank(Lane(c), None, a, b)
    <2>1. CASE CreateTodo(t, c, a, b)
      <3>1. t \notin DOMAIN todos /\ computeNewRank(Lane(c), None, a, b)
        BY <2>1 DEF CreateTodo
      <3>2. a \in DOMAIN todos \cup {None} /\ b \in DOMAIN todos \cup {None}
        BY <3>1, LanesAreLanes DEF computeNewRank, neighborsAccepted, BoardInv
      <3> QED
        BY <3>1, <3>2, NoneAssumption
    <2>2. CASE MoveTodo(t, c, a, b)
      BY <2>2, NoneAssumption DEF MoveTodo, computeNewRank, neighborsAccepted
    <2> QED
      BY <2>1, <2>2 DEF Placing
  <1>4. Lane(c) = LaneIn(todos, c)
    BY LaneFacts
  <1> HIDE DEF r, old, s
  <1>7. /\ DOMAIN todos' = DOMAIN todos \cup {t}
        /\ todos'[t].column = c /\ todos'[t].rank = r /\ todos'[t].archived = FALSE
        /\ \A i \in DOMAIN todos \ {t} : todos'[i] = old[i]
    BY <1>1
  <1>8. DOMAIN LaneIn(todos', c) = DOMAIN LaneIn(todos, c) \cup {t}
    BY <1>2, <1>7 DEF LaneIn
  <1>9. \A k : k # c => DOMAIN LaneIn(todos', k) = DOMAIN LaneIn(todos, k) \ {t}
    BY <1>2, <1>7 DEF LaneIn
  <1>10. \A i \in DOMAIN LaneIn(todos, c) \ {t} : LaneIn(todos', c)[i] = s[i]
    BY <1>2, <1>4, <1>7, <1>8 DEF LaneIn
  <1>11. ASSUME NEW k, k # c, NEW i \in DOMAIN LaneIn(todos', k)
         PROVE  LaneIn(todos', k)[i] = LaneIn(todos, k)[i]
    <2>1. i \in DOMAIN LaneIn(todos, k) /\ i # t
      BY <1>9, <1>11
    <2>2. i \in DOMAIN todos /\ i \notin DOMAIN Lane(c)
      BY <1>4, <1>11, <2>1 DEF LaneIn
    <2>3. todos'[i] = todos[i]
      BY <1>2, <1>7, <2>1, <2>2
    <2> QED
      BY <1>11, <2>1, <2>3 DEF LaneIn
  <1>12. LaneIn(todos', c)[t] = r
    BY <1>7, <1>8 DEF LaneIn
  <1> QED
    BY <1>3, <1>4, <1>8, <1>9, <1>10, <1>11, <1>12 DEF r, s, OwnLaneAfter, OtherLaneAfter

\* Create and MoveTodo put the card between the neighbours the request names.
THEOREM Placement == Spec => PlacementHonoured
  <1>1. ASSUME BoardInv, BoardInv' PROVE PlacementStep
    <2> SUFFICES ASSUME NEW t \in DOMAIN todos', NEW c, NEW a, NEW b, Placing(t, c, a, b)
                 PROVE  Placed(t, c, a, b)'
      BY DEF PlacementStep, Placing
    <2> DEFINE lane == LaneIn(todos, c)
               lane2 == LaneIn(todos', c)
    <2>1. t \in Int
      BY <1>1, BoardAssumption DEF BoardInv, TypeOK, Ids
    <2>a. OwnLaneAfter(t, c, a, b)
      BY <1>1, <2>1, LanesAfterPlacing
    <2>2. /\ lane2[t] = newRank(lane, a, b)
          /\ \A i \in DOMAIN lane \ {t} : lane2[i] = settledLane(lane, a, b)[i]
          /\ a # t
          /\ b # t
          /\ computeNewRank(lane, None, a, b)
      BY <2>a DEF OwnLaneAfter
    <2>3. lane = Lane(c) /\ lane2 = Lane(c)'
      BY LaneFacts
    <2>4. /\ newRank(lane, a, b) \in Nat
          /\ a \in DOMAIN lane \cup {None} /\ b \in DOMAIN lane \cup {None}
          /\ a # None => settledLane(lane, a, b)[a] < newRank(lane, a, b)
          /\ b # None => newRank(lane, a, b) < settledLane(lane, a, b)[b]
      BY <1>1, <2>2, <2>3, AcceptedRank DEF BoardInv
    <2>5. /\ a # None => lane2[a] < lane2[t]
          /\ b # None => lane2[t] < lane2[b]
      BY <2>2, <2>4
    <2> HIDE DEF lane2
    <2>6. /\ a # None => Precedes(lane2, a, t)
          /\ b # None => Precedes(lane2, t, b)
      BY <2>5 DEF Precedes, lessByRankID
    <2> QED
      BY <2>3, <2>6 DEF Placed, Precedes
  <1> QED
    BY <1>1, InitInv, NextKeepsInv, PTL DEF Spec, PlacementHonoured

\* Without neighbours the card goes to the end of its lane.
THEOREM AppendLast == Spec => AppendGoesLast
  <1>1. ASSUME BoardInv, BoardInv' PROVE AppendStep
    <2> SUFFICES ASSUME NEW t \in DOMAIN todos', NEW c, Placing(t, c, None, None),
                        NEW i \in DOMAIN Lane(c)' \ {t}
                 PROVE  Precedes(Lane(c)', i, t)
      BY DEF AppendStep, Placing
    <2> DEFINE lane == LaneIn(todos, c)
               lane2 == LaneIn(todos', c)
    <2>1. t \in Int
      BY <1>1, BoardAssumption DEF BoardInv, TypeOK, Ids
    <2>a. OwnLaneAfter(t, c, None, None)
      BY <1>1, <2>1, LanesAfterPlacing
    <2>2. /\ lane2[t] = newRank(lane, None, None)
          /\ DOMAIN lane2 = DOMAIN lane \cup {t}
          /\ \A k \in DOMAIN lane \ {t} : lane2[k] = settledLane(lane, None, None)[k]
          /\ computeNewRank(lane, None, None, None)
      BY <2>a DEF OwnLaneAfter
    <2>3. lane = Lane(c) /\ lane2 = Lane(c)'
      BY LaneFacts
    <2>4. \A k \in DOMAIN lane : settledLane(lane, None, None)[k] < newRank(lane, None, None)
      BY <1>1, <2>2, <2>3, AcceptedRank DEF BoardInv
    <2>5. lane2[i] < lane2[t]
      BY <2>2, <2>3, <2>4
    <2> HIDE DEF lane2
    <2>6. Precedes(lane2, i, t)
      BY <2>5 DEF Precedes, lessByRankID
    <2> QED
      BY <2>3, <2>6
  <1> QED
    BY <1>1, InitInv, NextKeepsInv, PTL DEF Spec, AppendGoesLast

\* Two cards that stay in a lane and are not the one being placed keep their
\* order, even if the lane is renumbered.
LEMMA PlacingKeepsOrder ==
  ASSUME BoardInv, NEW t \in Int, NEW c, NEW a, NEW b, Placing(t, c, a, b),
         NEW k, NEW i \in DOMAIN Lane(k) \ {t}, NEW j \in DOMAIN Lane(k) \ {t}
  PROVE  Precedes(Lane(k), i, j) <=> Precedes(Lane(k)', i, j)
  <1>1. OwnLaneAfter(t, c, a, b) /\ (k # c => OtherLaneAfter(t, k))
    BY LanesAfterPlacing
  <1>2. Lane(k) = LaneIn(todos, k) /\ Lane(k)' = LaneIn(todos', k)
    BY LaneFacts
  <1> DEFINE lane == LaneIn(todos, k)
             lane2 == LaneIn(todos', k)
             s == settledLane(lane, a, b)
  <1>3. CASE k = c
    <2>1. lane2[i] = s[i] /\ lane2[j] = s[j]
      BY <1>1, <1>2, <1>3 DEF OwnLaneAfter
    <2>2. Precedes(lane, i, j) <=> Precedes(s, i, j)
      BY <1>2, LanesAreLanes, SettledKeepsOrder DEF BoardInv
    <2> HIDE DEF lane, lane2, s
    <2> QED
      BY <1>2, <2>1, <2>2 DEF Precedes, lane, lane2
  <1>4. CASE k # c
    <2>1. lane2[i] = lane[i] /\ lane2[j] = lane[j]
      BY <1>1, <1>2, <1>4 DEF OtherLaneAfter
    <2> HIDE DEF lane, lane2
    <2> QED
      BY <1>2, <2>1 DEF Precedes, lane, lane2
  <1> QED
    BY <1>3, <1>4

\* A step that touches neither column, rank nor archival of the cards that
\* stay active keeps every order.
LEMMA SameRanksKeepOrder ==
  ASSUME NEW k, NEW i \in DOMAIN Lane(k) \cap DOMAIN Lane(k)',
         NEW j \in DOMAIN Lane(k) \cap DOMAIN Lane(k)',
         \A x \in DOMAIN todos \cap DOMAIN todos' : todos'[x].rank = todos[x].rank
  PROVE  Precedes(Lane(k), i, j) <=> Precedes(Lane(k)', i, j)
  <1>1. Lane(k)[i] = Lane(k)'[i] /\ Lane(k)[j] = Lane(k)'[j]
    BY DEF Lane
  <1> QED
    BY <1>1 DEF Precedes

\* No step swaps two cards of a lane unless a move names one of them.
THEOREM OrderKept == Spec => OrderPreserved
  <1>1. ASSUME BoardInv, BoardInv', [Next]_vars PROVE OrderStep
    <2> SUFFICES ASSUME NEW k \in DOMAIN workflow,
                        NEW i \in DOMAIN Lane(k) \cap DOMAIN Lane(k)',
                        NEW j \in DOMAIN Lane(k) \cap DOMAIN Lane(k)'
                 PROVE  \/ Precedes(Lane(k), i, j) <=> Precedes(Lane(k)', i, j)
                        \/ \E t \in {i, j}, a, b \in Ids \cup {None} : MoveTodo(t, k, a, b)
      BY DEF OrderStep
    <2>1. i \in DOMAIN todos /\ j \in DOMAIN todos
      BY DEF Lane
    <2>2. CASE \E n \in Ids, c \in Keys, a, b \in Ids \cup {None} : CreateTodo(n, c, a, b)
      <3>1. PICK n \in Ids, c \in Keys, a \in Ids \cup {None}, b \in Ids \cup {None} :
              CreateTodo(n, c, a, b)
        BY <2>2
      <3>2. n \in Int /\ i # n /\ j # n
        BY <2>1, <3>1, BoardAssumption DEF CreateTodo, Ids
      <3> QED
        BY <1>1, <3>1, <3>2, PlacingKeepsOrder DEF Placing
    <2>3. CASE \E t \in Ids, c \in Keys, a, b \in Ids \cup {None} : MoveTodo(t, c, a, b)
      <3>1. PICK t \in Ids, c \in Keys, a \in Ids \cup {None}, b \in Ids \cup {None} :
              MoveTodo(t, c, a, b)
        BY <2>3
      <3>2. t \in Int
        BY BoardAssumption DEF Ids
      <3>3. CASE t \in {i, j}
        <4>1. CASE c = k
          BY <3>1, <3>3, <4>1
        <4>2. CASE c # k
          <5>1. OtherLaneAfter(t, k)
            BY <1>1, <3>1, <3>2, <4>2, LanesAfterPlacing DEF Placing
          <5>2. t \notin DOMAIN Lane(k)'
            BY <5>1, LaneFacts DEF OtherLaneAfter
          <5> QED
            BY <3>3, <5>2
        <4> QED
          BY <4>1, <4>2
      <3>4. CASE t \notin {i, j}
        BY <1>1, <3>1, <3>2, <3>4, PlacingKeepsOrder DEF Placing
      <3> QED
        BY <3>3, <3>4
    <2>4. CASE \A x \in DOMAIN todos \cap DOMAIN todos' : todos'[x].rank = todos[x].rank
      BY <2>4, SameRanksKeepOrder
    <2>5. ASSUME NEW S, NEW archive, archiveTodosByLocalID(S, archive)
          PROVE  \A x \in DOMAIN todos \cap DOMAIN todos' : todos'[x].rank = todos[x].rank
      <3>1. \A x \in DOMAIN todos : todos[x] \in Todo
        BY <1>1 DEF BoardInv, TypeOK
      <3>2. todos' = [x \in DOMAIN todos |->
              IF x \in S THEN [todos[x] EXCEPT !.archived = archive] ELSE todos[x]]
        BY <2>5 DEF archiveTodosByLocalID
      <3> QED
        BY <3>1, <3>2 DEF Todo
    <2>6. ASSUME NEW t, DeleteTodo(t)
          PROVE  \A x \in DOMAIN todos \cap DOMAIN todos' : todos'[x].rank = todos[x].rank
      BY <2>6 DEF DeleteTodo
    <2>7. ASSUME todos' = todos
          PROVE  \A x \in DOMAIN todos \cap DOMAIN todos' : todos'[x].rank = todos[x].rank
      BY <2>7
    <2> QED
      BY <1>1, <2>2, <2>3, <2>4, <2>5, <2>6, <2>7
      DEF Next, vars, ArchiveTodosByLocalID, RestoreTodosByLocalID, AddWorkflowColumn, DeleteWorkflowColumn
  <1> QED
    BY <1>1, InitInv, NextKeepsInv, PTL DEF Spec, OrderPreserved

\* Nothing but its own restore or deletion touches an archived card.
THEOREM ArchivedStay == Spec => ArchivedCardsKeepTheirPlace
  <1>1. ASSUME BoardInv, [Next]_vars PROVE ArchivedStep
    <2> SUFFICES ASSUME NEW t \in DOMAIN todos \cap DOMAIN todos',
                        todos[t].archived, todos'[t].archived
                 PROVE  todos'[t] = todos[t]
      BY DEF ArchivedStep
    <2>1. todos[t] \in Todo
      BY <1>1 DEF BoardInv, TypeOK
    <2>2. \A c, a, b : AfterSettling(c, a, b)[t] = todos[t]
      <3>1. \A c : t \notin DOMAIN Lane(c)
        BY DEF Lane
      <3> QED
        BY <3>1 DEF AfterSettling
    <2>3. ASSUME NEW n \in Ids, NEW c, NEW a, NEW b, CreateTodo(n, c, a, b)
          PROVE  todos'[t] = todos[t]
      <3>1. t # n
        BY <2>3, BoardAssumption DEF CreateTodo, Ids
      <3> QED
        BY <2>2, <2>3, <3>1 DEF CreateTodo
    <2>4. ASSUME NEW m, NEW c, NEW a, NEW b, MoveTodo(m, c, a, b)
          PROVE  todos'[t] = todos[t]
      <3>1. t # m
        BY <2>4 DEF MoveTodo
      <3> QED
        BY <2>2, <2>4, <3>1 DEF MoveTodo, AfterSettling
    <2>5. ASSUME NEW S, NEW archive \in BOOLEAN, archiveTodosByLocalID(S, archive)
          PROVE  todos'[t] = todos[t]
      <3>1. todos'[t] = IF t \in S THEN [todos[t] EXCEPT !.archived = archive] ELSE todos[t]
        BY <2>5 DEF archiveTodosByLocalID
      <3> QED
        BY <2>1, <2>5, <3>1 DEF Todo
    <2>6. ASSUME NEW x, DeleteTodo(x) PROVE todos'[t] = todos[t]
      BY <2>6 DEF DeleteTodo
    <2> QED
      BY <1>1, <2>3, <2>4, <2>5, <2>6
      DEF Next, vars, ArchiveTodosByLocalID, RestoreTodosByLocalID, AddWorkflowColumn, DeleteWorkflowColumn
  <1> QED
    BY <1>1, InitInv, NextKeepsInv, PTL DEF Spec, ArchivedCardsKeepTheirPlace
=============================================================================
