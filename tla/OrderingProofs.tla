--------------------------- MODULE OrderingProofs ---------------------------
(***************************************************************************)
(* What the rank arithmetic of internal/store/ordering.go guarantees for   *)
(* every lane, however long, and every RankStep of at least 2.             *)
(***************************************************************************)
EXTENDS Ordering, FiniteSetTheorems, WellFoundedInduction, TLAPS

\* A lane: finitely many cards with integer ids and natural ranks.
IsLane(lane) ==
  /\ IsFiniteSet(DOMAIN lane)
  /\ DOMAIN lane \subseteq Int
  /\ lane \in [DOMAIN lane -> Nat]

\* ORDER BY rank, id is a strict order on the cards of a lane.
LEMMA PrecedesOrder ==
  ASSUME NEW lane, IsLane(lane),
         NEW i \in DOMAIN lane, NEW j \in DOMAIN lane, NEW k \in DOMAIN lane
  PROVE  /\ ~Precedes(lane, i, i)
         /\ Precedes(lane, i, j) => ~Precedes(lane, j, i)
         /\ Precedes(lane, i, j) /\ Precedes(lane, j, k) => Precedes(lane, i, k)
         /\ i # j => Precedes(lane, i, j) \/ Precedes(lane, j, i)
  BY DEF IsLane, Precedes, lessByRankID

\* Row numbers are positive naturals.
LEMMA RowNumberType ==
  ASSUME NEW lane, IsLane(lane), NEW i \in DOMAIN lane
  PROVE  /\ IsFiniteSet({j \in DOMAIN lane : Precedes(lane, j, i)})
         /\ RowNumber(lane, i) \in Nat
         /\ RowNumber(lane, i) >= 1
  <1> DEFINE B == {j \in DOMAIN lane : Precedes(lane, j, i)}
  <1>1. IsFiniteSet(B)
    BY FS_Subset DEF IsLane
  <1>2. Cardinality(B) \in Nat
    BY <1>1, FS_CardinalityType
  <1> QED
    BY <1>1, <1>2 DEF RowNumber

\* A card further down the lane has a larger row number.
LEMMA RowNumberMonotone ==
  ASSUME NEW lane, IsLane(lane),
         NEW i \in DOMAIN lane, NEW j \in DOMAIN lane, Precedes(lane, i, j)
  PROVE  RowNumber(lane, i) < RowNumber(lane, j)
  <1> DEFINE B(x) == {k \in DOMAIN lane : Precedes(lane, k, x)}
  <1>1. IsFiniteSet(B(i)) /\ IsFiniteSet(B(j))
    BY RowNumberType
  <1>2. B(i) \subseteq B(j)
    BY PrecedesOrder
  <1>3. i \in B(j) /\ i \notin B(i)
    BY PrecedesOrder
  <1>4. Cardinality(B(i)) <= Cardinality(B(j)) /\ B(i) # B(j)
    BY <1>1, <1>2, <1>3, FS_Subset
  <1>5. Cardinality(B(i)) # Cardinality(B(j))
    BY <1>1, <1>2, <1>4, FS_Subset
  <1>6. Cardinality(B(i)) \in Nat /\ Cardinality(B(j)) \in Nat
    BY <1>1, FS_CardinalityType
  <1> QED
    BY <1>4, <1>5, <1>6 DEF RowNumber

\* Renumbering a lane keeps it a lane, keeps every card's place, and leaves
\* room for at least one card between any two.
LEMMA RebalanceKeepsOrder ==
  ASSUME NEW lane, IsLane(lane)
  PROVE  /\ IsLane(rebalanceColumn(lane))
         /\ DOMAIN rebalanceColumn(lane) = DOMAIN lane
         /\ \A i \in DOMAIN lane : rebalanceColumn(lane)[i] >= RankStep
         /\ \A i, j \in DOMAIN lane : Precedes(lane, i, j) =>
              /\ rebalanceColumn(lane)[j] - rebalanceColumn(lane)[i] >= RankStep
              /\ Precedes(rebalanceColumn(lane), i, j)
         /\ \A i, j \in DOMAIN lane :
              Precedes(lane, i, j) <=> Precedes(rebalanceColumn(lane), i, j)
  <1> DEFINE new == rebalanceColumn(lane)
  <1> RankStep \in Nat /\ RankStep >= 2
    BY RankStepAssumption
  <1>1. DOMAIN new = DOMAIN lane
    BY DEF rebalanceColumn
  <1>2. \A i \in DOMAIN lane :
          /\ RowNumber(lane, i) \in Nat /\ RowNumber(lane, i) >= 1
          /\ new[i] = RowNumber(lane, i) * RankStep
    BY RowNumberType DEF rebalanceColumn
  <1>3. \A i \in DOMAIN lane : new[i] \in Nat /\ new[i] >= RankStep
    <2> TAKE i \in DOMAIN lane
    <2> DEFINE n == RowNumber(lane, i)
    <2>1. n \in Nat /\ n >= 1
      BY <1>2
    <2> HIDE DEF n
    <2>2. n * RankStep \in Nat /\ n * RankStep >= RankStep
      BY <2>1
    <2> QED
      BY <1>2, <2>2 DEF n
  <1>4. IsLane(new)
    BY <1>1, <1>3 DEF IsLane, rebalanceColumn
  <1>5. ASSUME NEW i \in DOMAIN lane, NEW j \in DOMAIN lane, Precedes(lane, i, j)
        PROVE  new[j] - new[i] >= RankStep
    <2> DEFINE m == RowNumber(lane, i)
               n == RowNumber(lane, j)
    <2>1. m \in Nat /\ n \in Nat /\ m < n
      BY <1>2, <1>5, RowNumberMonotone
    <2> HIDE DEF m, n
    <2>2. n >= m + 1
      BY <2>1
    <2>3. n * RankStep >= (m + 1) * RankStep
      BY <2>1, <2>2
    <2>4. (m + 1) * RankStep = m * RankStep + RankStep /\ m * RankStep \in Nat /\ n * RankStep \in Nat
      BY <2>1
    <2>5. n * RankStep - m * RankStep >= RankStep
      BY <2>3, <2>4
    <2> QED
      BY <1>2, <2>5 DEF m, n
  <1>6. ASSUME NEW i \in DOMAIN lane, NEW j \in DOMAIN lane, Precedes(lane, i, j)
        PROVE  Precedes(new, i, j)
    <2>1. new[i] \in Nat /\ new[j] \in Nat /\ new[j] - new[i] >= RankStep
      BY <1>3, <1>5, <1>6
    <2>2. new[i] < new[j]
      BY <2>1
    <2> QED
      BY <2>2 DEF Precedes, lessByRankID
  <1>7. ASSUME NEW i \in DOMAIN lane, NEW j \in DOMAIN lane, Precedes(new, i, j)
        PROVE  Precedes(lane, i, j)
    <2>1. i # j /\ ~Precedes(new, j, i)
      BY <1>1, <1>4, <1>7, PrecedesOrder
    <2> QED
      BY <1>6, <2>1, PrecedesOrder
  <1> QED
    BY <1>1, <1>3, <1>4, <1>5, <1>6, <1>7

\* Whether or not computeNewRank renumbers the lane, no two cards swap, and
\* ranks stay positive.
LEMMA SettledKeepsOrder ==
  ASSUME NEW lane, IsLane(lane), NEW a, NEW b
  PROVE  LET s == settledLane(lane, a, b)
         IN  /\ IsLane(s)
             /\ DOMAIN s = DOMAIN lane
             /\ \A i, j \in DOMAIN lane : Precedes(lane, i, j) <=> Precedes(s, i, j)
             /\ (\A i \in DOMAIN lane : lane[i] >= 1) => (\A i \in DOMAIN lane : s[i] >= 1)
  <1> RankStep \in Nat /\ RankStep >= 2
    BY RankStepAssumption
  <1>1. CASE mustRebalance(lane, a, b)
    <2>1. settledLane(lane, a, b) = rebalanceColumn(lane)
      BY <1>1 DEF settledLane
    <2>2. \A i \in DOMAIN lane : rebalanceColumn(lane)[i] \in Nat /\ rebalanceColumn(lane)[i] >= RankStep
      BY RebalanceKeepsOrder DEF IsLane
    <2>3. \A i \in DOMAIN lane : rebalanceColumn(lane)[i] >= 1
      BY <2>2
    <2> QED
      BY <2>1, <2>3, RebalanceKeepsOrder
  <1>2. CASE ~mustRebalance(lane, a, b)
    BY <1>2 DEF settledLane
  <1> QED
    BY <1>1, <1>2

\* The last error of computeNewRank, "cannot compute rank", is dead code:
\* two cards in lane order have a free rank between them once the lane has
\* been renumbered.
THEOREM GapAlwaysFound ==
  ASSUME NEW lane, IsLane(lane),
         NEW a \in DOMAIN lane, NEW b \in DOMAIN lane, Precedes(lane, a, b)
  PROVE  gapFound(lane, a, b)
  <1> RankStep \in Nat /\ RankStep >= 2
    BY RankStepAssumption
  <1> a # None /\ b # None
    BY NoneAssumption DEF IsLane
  <1> DEFINE s == settledLane(lane, a, b)
  <1>1. Precedes(s, a, b)
    BY SettledKeepsOrder
  <1>2. s[b] - s[a] >= 2
    <2>1. CASE mustRebalance(lane, a, b)
      <3>1. s = rebalanceColumn(lane)
        BY <2>1 DEF settledLane
      <3>2. rebalanceColumn(lane)[b] \in Nat /\ rebalanceColumn(lane)[a] \in Nat
        BY RebalanceKeepsOrder DEF IsLane
      <3>3. rebalanceColumn(lane)[b] - rebalanceColumn(lane)[a] >= RankStep
        BY RebalanceKeepsOrder
      <3> QED
        BY <3>1, <3>2, <3>3
    <2>2. CASE ~mustRebalance(lane, a, b)
      <3>1. s = lane
        BY <2>2 DEF settledLane
      <3>2. ~(lane[b] - lane[a] < 2) /\ lane[a] \in Nat /\ lane[b] \in Nat
        BY <2>2 DEF mustRebalance, IsLane
      <3> QED
        BY <3>1, <3>2
    <2> QED
      BY <2>1, <2>2
  <1> QED
    BY <1>1, <1>2 DEF gapFound

\* A lane that has a card has a card no other one follows.
LEMMA LastCardExists ==
  ASSUME NEW lane, IsLane(lane), DOMAIN lane # {}
  PROVE  \E i \in DOMAIN lane : \A j \in DOMAIN lane : lane[j] <= lane[i]
  <1> DEFINE D == DOMAIN lane
             After(i) == Cardinality(D) + 1 - RowNumber(lane, i)
             T == {After(i) : i \in D}
  <1>1. Cardinality(D) \in Nat
    BY FS_CardinalityType DEF IsLane
  <1>2. \A i \in D : RowNumber(lane, i) \in Nat /\ RowNumber(lane, i) <= Cardinality(D) + 1
    <2> TAKE i \in D
    <2> DEFINE B == {j \in D : Precedes(lane, j, i)}
    <2>1. Cardinality(B) <= Cardinality(D) /\ IsFiniteSet(B)
      BY FS_Subset DEF IsLane
    <2>2. Cardinality(B) \in Nat
      BY <2>1, FS_CardinalityType
    <2> QED
      BY <1>1, <2>1, <2>2 DEF RowNumber
  <1>3. T \subseteq Nat /\ T # {}
    BY <1>1, <1>2
  <1>4. PICK x \in T : \A y \in T : ~(<<y, x>> \in OpToRel(<, Nat))
    BY <1>3, WFMin, NatLessThanWellFounded
  <1>5. PICK i \in D : x = After(i)
    BY <1>4
  <1>6. \A j \in D : ~(After(j) < After(i))
    BY <1>3, <1>4, <1>5 DEF OpToRel
  <1>7. \A j \in D : ~Precedes(lane, i, j)
    BY <1>1, <1>2, <1>6, RowNumberMonotone
  <1>8. \A j \in D : lane[j] <= lane[i]
    BY <1>7 DEF Precedes, lessByRankID, IsLane
  <1> QED
    BY <1>8

\* The rank computeNewRank returns is positive and lies strictly between the
\* ranks its neighbours have by then; without neighbours it lies above the
\* whole lane.
THEOREM NewRankBetween ==
  ASSUME NEW lane, IsLane(lane), \A i \in DOMAIN lane : lane[i] >= 1,
         NEW a \in DOMAIN lane \cup {None}, NEW b \in DOMAIN lane \cup {None},
         a # None /\ b # None => Precedes(lane, a, b)
  PROVE  LET s == settledLane(lane, a, b)
             r == newRank(lane, a, b)
         IN  /\ r \in Nat /\ r >= 1
             /\ a # None => s[a] < r
             /\ b # None => r < s[b]
             /\ a = None /\ b = None => \A i \in DOMAIN lane : s[i] < r
  <1> RankStep \in Nat /\ RankStep >= 2
    BY RankStepAssumption
  <1> DEFINE s == settledLane(lane, a, b)
             r == newRank(lane, a, b)
  <1>1. IsLane(s) /\ DOMAIN s = DOMAIN lane /\ \A i \in DOMAIN lane : s[i] \in Nat /\ s[i] >= 1
    BY SettledKeepsOrder DEF IsLane
  <1>2. None \notin DOMAIN lane
    BY NoneAssumption DEF IsLane
  <1>3. CASE a = None /\ b = None
    <2>1. r = maxRankInColumn(s) + RankStep
      BY <1>3 DEF newRank
    <2>2. CASE DOMAIN lane = {}
      BY <1>1, <1>3, <2>1, <2>2 DEF maxRankInColumn
    <2>3. CASE DOMAIN lane # {}
      <3> DEFINE m == CHOOSE i \in DOMAIN s : \A j \in DOMAIN s : s[j] <= s[i]
      <3>1. m \in DOMAIN s /\ \A j \in DOMAIN s : s[j] <= s[m]
        BY <1>1, <2>3, LastCardExists
      <3>2. maxRankInColumn(s) = s[m]
        BY <1>1, <2>3 DEF maxRankInColumn
      <3> HIDE DEF m, s
      <3>3. r = s[m] + RankStep /\ s[m] \in Nat
        BY <1>1, <2>1, <3>1, <3>2 DEF s
      <3> QED
        BY <1>1, <1>3, <3>1, <3>3 DEF s
    <2> QED
      BY <2>2, <2>3
  <1>4. CASE a = None /\ b # None
    <2>1. b \in DOMAIN lane /\ s[b] \in Nat /\ s[b] >= 1
      BY <1>1, <1>4
    <2>2. r = IF s[b] > RankStep THEN s[b] - RankStep ELSE s[b] \div 2
      BY <1>4 DEF newRank, RankInFrontOf
    <2>3. s[b] >= RankStep
      <3>1. CASE mustRebalance(lane, a, b)
        BY <3>1, <2>1, RebalanceKeepsOrder DEF settledLane
      <3>2. CASE ~mustRebalance(lane, a, b)
        BY <1>4, <2>1, <3>2 DEF settledLane, mustRebalance, IsLane
      <3> QED
        BY <3>1, <3>2
    <2> HIDE DEF s, r
    <2>4. r \in Nat /\ r >= 1 /\ r < s[b]
      BY <2>1, <2>2, <2>3
    <2> QED
      BY <1>4, <2>4 DEF s, r
  <1>5. CASE a # None /\ b = None
    <2>1. a \in DOMAIN lane /\ s[a] \in Nat /\ s[a] >= 1
      BY <1>1, <1>5
    <2>2. r = s[a] + RankStep
      BY <1>5 DEF newRank
    <2> HIDE DEF s, r
    <2> QED
      BY <1>5, <2>1, <2>2 DEF s, r
  <1>6. CASE a # None /\ b # None
    <2>1. /\ a \in DOMAIN lane /\ s[a] \in Nat /\ s[a] >= 1
          /\ b \in DOMAIN lane /\ s[b] \in Nat
      BY <1>1, <1>6
    <2>2. s[b] - s[a] >= 2
      BY <1>6, <2>1, GapAlwaysFound DEF gapFound
    <2>3. r = s[a] + ((s[b] - s[a]) \div 2)
      BY <1>6 DEF newRank, RankBetween
    <2> HIDE DEF s, r
    <2>4. (s[b] - s[a]) \div 2 \in Nat /\ (s[b] - s[a]) \div 2 >= 1 /\ (s[b] - s[a]) \div 2 < s[b] - s[a]
      BY <2>1, <2>2
    <2>5. r \in Nat /\ r >= 1 /\ s[a] < r /\ r < s[b]
      BY <2>1, <2>3, <2>4
    <2> QED
      BY <1>6, <2>1, <2>3, <2>4, <2>5 DEF s, r
  <1> QED
    BY <1>3, <1>4, <1>5, <1>6
=============================================================================
