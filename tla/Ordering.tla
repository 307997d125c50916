------------------------------ MODULE Ordering ------------------------------
(***************************************************************************)
(* Manual card order inside one lane: internal/store/ordering.go.          *)
(*                                                                         *)
(* A lane is a function from the ids of the active (not archived) cards of *)
(* one column to their ranks.  Cards are shown by (rank, id).  Placing a   *)
(* card computes one new rank from at most two neighbours; when the gap    *)
(* is used up the whole lane is renumbered first.  RankStep is rankStep    *)
(* (1000 in the code); nothing below depends on its value beyond the       *)
(* assumption.                                                             *)
(***************************************************************************)
EXTENDS Integers, FiniteSets

CONSTANTS
  RankStep,  \* distance between two cards of a freshly numbered lane
  None       \* an omitted afterId or beforeId

ASSUME RankStepAssumption == RankStep \in Nat /\ RankStep >= 2
ASSUME NoneAssumption == None \notin Int

lessByRankID(rankA, idA, rankB, idB) ==
  \/ rankA < rankB
  \/ rankA = rankB /\ idA < idB

Precedes(lane, i, j) == lessByRankID(lane[i], i, lane[j], j)

\* The row number of card i under ORDER BY rank ASC, id ASC, from 1.
RowNumber(lane, i) == Cardinality({j \in DOMAIN lane : Precedes(lane, j, i)}) + 1

\* Mutants: equal ranks not told apart by id; ordered by id alone.
MutRebalanceIgnoresIds(lane) ==
  [i \in DOMAIN lane |-> (Cardinality({j \in DOMAIN lane : lane[j] < lane[i]}) + 1) * RankStep]
MutRebalanceById(lane) ==
  [i \in DOMAIN lane |-> (Cardinality({j \in DOMAIN lane : j < i}) + 1) * RankStep]
rebalanceColumn(lane) == [i \in DOMAIN lane |-> RowNumber(lane, i) * RankStep]

\* COALESCE(MAX(rank), 0).  Mutant: the rank the last card of a freshly
\* numbered lane would have.
MutRankFromCount(lane) == Cardinality(DOMAIN lane) * RankStep
maxRankInColumn(lane) ==
  IF DOMAIN lane = {} THEN 0
  ELSE lane[CHOOSE i \in DOMAIN lane : \A j \in DOMAIN lane : lane[j] <= lane[i]]

\* The neighbours a request names: present in the lane, different from the
\* card that moves, and in lane order.
neighborsAccepted(lane, moving, after, before) ==
  /\ after \in DOMAIN lane \cup {None}
  /\ before \in DOMAIN lane \cup {None}
  /\ after # None /\ before # None => Precedes(lane, after, before)
  /\ moving # None => after # moving /\ before # moving

\* No rank is free where the card has to go.
mustRebalance(lane, after, before) ==
  \/ after = None /\ before # None /\ lane[before] <= RankStep
  \/ after # None /\ before # None /\ lane[before] - lane[after] < 2

\* The ranks of the lane's cards once a rank for the new place is found.
settledLane(lane, after, before) ==
  IF mustRebalance(lane, after, before) THEN rebalanceColumn(lane) ELSE lane

\* After the renumbering the code looks at the neighbours once more and gives
\* up with a conflict if they are out of order or still adjacent.
gapFound(lane, after, before) ==
  LET settled == settledLane(lane, after, before)
  IN  after # None /\ before # None =>
        Precedes(settled, after, before) /\ settled[before] - settled[after] >= 2

\* In front of a card, the code looks only at that card's rank.
RankInFrontOf(rank) == IF rank > RankStep THEN rank - RankStep ELSE rank \div 2
RankBetween(low, high) == low + ((high - low) \div 2)

\* Mutant: takes over a neighbour's rank instead of a rank beside it.
MutRankOfNeighbour(lane, after, before) ==
  LET settled == settledLane(lane, after, before)
  IN  IF after = None
      THEN IF before = None THEN maxRankInColumn(settled) + RankStep ELSE settled[before]
      ELSE settled[after]
newRank(lane, after, before) ==
  LET settled == settledLane(lane, after, before)
  IN  IF after = None
      THEN IF before = None THEN maxRankInColumn(settled) + RankStep
                            ELSE RankInFrontOf(settled[before])
      ELSE IF before = None THEN settled[after] + RankStep
                            ELSE RankBetween(settled[after], settled[before])

computeNewRank(lane, moving, after, before) ==
  neighborsAccepted(lane, moving, after, before) /\ gapFound(lane, after, before)

=============================================================================
