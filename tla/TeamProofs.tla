----------------------------- MODULE TeamProofs -----------------------------
(***************************************************************************)
(* For every queue, group size, spread and block: a match that is formed   *)
(* is whole, its blocks bear each other's distance, and the draft never    *)
(* lets the teams differ by more than one block.                           *)
(*                                                                         *)
(* The inductive invariant IInv adds to the properties what the loops rely *)
(* on: the count never exceeds Required, every block picked was compared   *)
(* with the anchor, and a group is only drafted once it is full.  BookInv  *)
(* says, on top of it, that the running totals are the sums.               *)
(***************************************************************************)
EXTENDS TeamBalance, Sums

USE TeamsAssumption

PickedInv ==
  /\ 1 \in picked
  /\ \A i \in picked : i = 1 \/ Compatible(i)

CountInv ==
  /\ count <= Required
  /\ pc \in {"check", "draft", "matched"} => count = Required

DraftInv ==
  /\ team1 \cap team2 = {}
  /\ pc = "matched" => Undrafted = {}
  /\ Balanced

IInv == TypeOK /\ PickedInv /\ CountInv /\ DraftInv

-----------------------------------------------------------------------------
(* Lemmas on the operators *)

\* The solver multiplies only when told that the product is a number.
LEMMA ProductIsNat ==
  ASSUME NEW a \in Nat, NEW b \in Nat
  PROVE  a * b \in Nat
BY SMT

\* A queue is a sequence of at least one block.
LEMMA QueueIsSeq ==
  ASSUME queue \in Queues
  PROVE  /\ Len(queue) \in Nat \ {0}
         /\ 1 \in Places
         /\ \A i \in Places : queue[i] \in Blocks
<1>1. PICK n \in 1..MaxBlocks : queue \in [1..n -> Blocks]
  BY DEF Queues
<1>2. n \in Nat /\ n >= 1
  BY <1>1
<1>3. Len(queue) = n
  BY <1>1, <1>2
<1> QED
  BY <1>1, <1>2, <1>3 DEF Places

\* What is known of a block: its members, their total, its patience.
LEMMA BlockFacts ==
  ASSUME queue \in Queues, NEW i \in Places
  PROVE  /\ queue[i].size \in 1..Required
         /\ queue[i].elo \in Nat
         /\ EloSum(i) \in Nat
         /\ EffectiveSpread(queue[i]) \in Nat
<1>1. queue[i] \in Blocks
  BY QueueIsSeq
<1>2. queue[i].size \in 1..Required /\ queue[i].elo \in Nat /\ queue[i].wait \in Nat
  BY <1>1 DEF Blocks
<1>3. EloSum(i) \in Nat
  BY <1>2, ProductIsNat DEF EloSum
<1>4. queue[i].wait \div Interval \in Nat
  BY <1>2
<1>5. (queue[i].wait \div Interval) * Amount \in Nat
  BY <1>4, ProductIsNat
<1>6. EffectiveSpread(queue[i]) \in Nat
  BY <1>5 DEF EffectiveSpread
<1> QED
  BY <1>2, <1>3, <1>6

\* The anchor alone is a group that satisfies the invariant.
LEMMA InitInv == Init => IInv
<1> SUFFICES ASSUME Init PROVE IInv
  OBVIOUS
<1>1. queue \in Queues
  BY DEF Init
<1>2. 1 \in Places /\ queue[1].size \in 1..Required
  BY <1>1, QueueIsSeq, BlockFacts
<1>3. TypeOK
  BY <1>1, <1>2 DEF Init, TypeOK
<1>4. PickedInv /\ CountInv /\ DraftInv
  BY <1>2 DEF Init, PickedInv, CountInv, DraftInv, Balanced
<1> QED
  BY <1>3, <1>4 DEF IInv

\* The greedy step: a block given to the weaker team leaves a difference no
\* larger than the one before, or than the block.
LEMMA WeakerTeamGains ==
  ASSUME NEW low \in Nat, NEW high \in Nat, NEW gain \in Nat, low <= high
  PROVE  \/ Distance(low + gain, high) <= gain
         \/ Distance(low + gain, high) <= Distance(low, high)
BY DEF Distance

\* What the cases below need of the distance of two totals.
LEMMA DistanceFacts ==
  ASSUME NEW a \in Nat, NEW b \in Nat
  PROVE  Distance(a, b) \in Nat /\ (Distance(a, b) <= 0 => a = b) /\ Distance(a, a) = 0
BY DEF Distance

\* If the new difference is bounded by the block i that was added, or by the
\* old difference, the draft stays balanced.
LEMMA GainKeepsBalance ==
  ASSUME Balanced, queue' = queue, NEW i,
         sum1 \in Nat, sum2 \in Nat, sum1' \in Nat, sum2' \in Nat,
         team1' \cup team2' = team1 \cup team2 \cup {i},
         \A j \in team1 \cup team2 : EloSum(j) \in Nat,
         \/ Distance(sum1', sum2') <= EloSum(i)
         \/ Distance(sum1', sum2') <= Distance(sum1, sum2)
  PROVE  Balanced'
<1>1. \A j : EloSum(j)' = EloSum(j)
  BY DEF EloSum
<1>2. CASE Distance(sum1', sum2') <= EloSum(i)
  BY <1>1, <1>2 DEF Balanced
<1>3. CASE Distance(sum1', sum2') <= Distance(sum1, sum2) /\ sum1 = sum2
  <2>1. Distance(sum1', sum2') <= 0
    BY <1>3, DistanceFacts
  <2>2. sum1' = sum2'
    BY <2>1, DistanceFacts
  <2> QED
    BY <2>2 DEF Balanced
<1>4. CASE Distance(sum1', sum2') <= Distance(sum1, sum2) /\ sum1 # sum2
  <2>1. PICK j \in team1 \cup team2 : Distance(sum1, sum2) <= EloSum(j)
    BY <1>4 DEF Balanced
  <2>2. /\ Distance(sum1', sum2') \in Nat /\ Distance(sum1, sum2) \in Nat
        /\ EloSum(j) \in Nat
    BY DistanceFacts
  <2>3. Distance(sum1', sum2') <= EloSum(j)
    BY <1>4, <2>1, <2>2
  <2> QED
    BY <1>1, <2>3 DEF Balanced
<1> QED
  BY <1>2, <1>3, <1>4

\* Two blocks that both bear the anchor bear each other with joint patience.
LEMMA PairsAreClose ==
  ASSUME IInv, NEW i \in picked, NEW j \in picked
  PROVE  Distance(queue[i].elo, queue[j].elo)
           <= EffectiveSpread(queue[i]) + EffectiveSpread(queue[j])
<1> DEFINE Elo(k) == queue[k].elo
           Patience(k) == EffectiveSpread(queue[k])
<1>1. queue \in Queues /\ i \in Places /\ j \in Places /\ 1 \in Places
  BY DEF IInv, TypeOK, PickedInv
<1>2. \A k \in {1, i, j} : Elo(k) \in Nat /\ Patience(k) \in Nat
  BY <1>1, BlockFacts
<1>3. \A k \in {i, j} : k = 1 \/ Distance(Elo(k), Elo(1)) <= Least(Patience(1), Patience(k))
  BY DEF IInv, PickedInv, Compatible
<1> HIDE DEF Elo, Patience
<1>4. \A k \in {i, j} : /\ Distance(Elo(k), Elo(1)) <= Patience(1)
                        /\ Distance(Elo(k), Elo(1)) <= Patience(k)
  BY <1>2, <1>3 DEF Distance, Least
<1>5. Distance(Elo(i), Elo(j)) <= Patience(i) + Patience(j)
  BY <1>2, <1>4 DEF Distance
<1> QED
  BY <1>5 DEF Elo, Patience

-----------------------------------------------------------------------------
(* The steps *)

\* The first loop takes a block only if it fits and bears the anchor.
LEMMA CollectInv == IInv /\ Collect => IInv'
<1> SUFFICES ASSUME IInv, Collect PROVE IInv'
  OBVIOUS
<1> USE DEF IInv, Collect, teams
<1>1. /\ next \in Places
      /\ queue \in Queues
      /\ count \in Nat /\ count < Required
  BY DEF TypeOK
<1>2. queue[next].size \in 1..Required
  BY <1>1, BlockFacts
<1>3. TypeOK'
  <2>1. count' \in Nat /\ next' \in Nat
    BY <1>1, <1>2 DEF TypeOK
  <2>2. picked' \subseteq Places' /\ picked \subseteq picked'
    BY <1>1 DEF TypeOK, Places
  <2> QED
    BY <1>1, <2>1, <2>2 DEF TypeOK
<1>4. PickedInv'
  BY DEF PickedInv, Compatible
<1>5. CountInv'
  BY <1>1, <1>2 DEF CountInv, TypeOK, Fits
<1>6. DraftInv'
  BY DEF DraftInv, Balanced, EloSum
<1> QED
  BY <1>3, <1>4, <1>5, <1>6

\* Only a full group goes on to the avoid list.
LEMMA EndCollectInv == IInv /\ EndCollect => IInv'
<1> SUFFICES ASSUME IInv, EndCollect PROVE IInv'
  OBVIOUS
<1> USE DEF IInv, EndCollect, teams
<1>1. TypeOK' /\ PickedInv'
  BY DEF TypeOK, Places, PickedInv, Compatible
<1>2. CountInv'
  BY DEF CountInv, TypeOK
<1>3. DraftInv'
  BY DEF DraftInv, Balanced, EloSum
<1> QED
  BY <1>1, <1>2, <1>3

\* The avoid list changes nothing but whether there is a draft.
LEMMA CheckAvoidListInv == IInv /\ CheckAvoidList => IInv'
<1> SUFFICES ASSUME IInv, CheckAvoidList PROVE IInv'
  OBVIOUS
<1> USE DEF IInv, CheckAvoidList, teams
<1>1. TypeOK' /\ PickedInv'
  BY DEF TypeOK, Places, PickedInv, Compatible
<1>2. CountInv' /\ DraftInv'
  BY DEF CountInv, DraftInv, Balanced, EloSum
<1> QED
  BY <1>1, <1>2

\* The draft ends when every block picked is in a team.
LEMMA EndDraftInv == IInv /\ EndDraft => IInv'
<1> SUFFICES ASSUME IInv, EndDraft PROVE IInv'
  OBVIOUS
<1> USE DEF IInv, EndDraft, teams
<1>1. TypeOK' /\ PickedInv'
  BY DEF TypeOK, Places, PickedInv, Compatible
<1>2. CountInv' /\ DraftInv'
  BY DEF CountInv, DraftInv, Balanced, EloSum, Undrafted
<1> QED
  BY <1>1, <1>2

\* A turn of the draft: whichever team is weaker gains the block.
LEMMA DraftInvStep == IInv /\ (\E i \in Places : Draft(i)) => IInv'
<1> SUFFICES ASSUME IInv, NEW i \in Places, Draft(i) PROVE IInv'
  OBVIOUS
<1> USE DEF IInv
<1>1. /\ queue \in Queues /\ queue' = queue /\ pc = "draft" /\ pc' = pc
      /\ sum1 \in Nat /\ sum2 \in Nat
      /\ i \in picked /\ i \notin team1 /\ i \notin team2
  BY DEF Draft, TypeOK, Strongest, Undrafted
<1>2. EloSum(i) \in Nat /\ \A j : EloSum(j)' = EloSum(j)
  BY <1>1, BlockFacts DEF EloSum
<1>3. PickedInv' /\ CountInv'
  BY DEF Draft, PickedInv, CountInv, Compatible
<1>4. \A j \in team1 \cup team2 : EloSum(j) \in Nat
  BY <1>1, BlockFacts DEF TypeOK
<1>5. CASE sum1 <= sum2
  <2>1. /\ team1' = team1 \cup {i} /\ sum1' = sum1 + EloSum(i)
        /\ team2' = team2 /\ sum2' = sum2
    BY <1>5 DEF Draft
  <2>2. TypeOK'
    BY <2>1, <1>1, <1>2 DEF TypeOK, Draft, Places
  <2>3. \/ Distance(sum1', sum2') <= EloSum(i)
        \/ Distance(sum1', sum2') <= Distance(sum1, sum2)
    BY <2>1, <1>1, <1>2, <1>5, WeakerTeamGains
  <2>4. sum1' \in Nat /\ sum2' \in Nat /\ team1' \cup team2' = team1 \cup team2 \cup {i}
    BY <2>1, <1>1, <1>2
  <2>5. Balanced'
    BY <2>3, <2>4, <1>1, <1>4, GainKeepsBalance DEF DraftInv
  <2> QED
    BY <2>1, <2>2, <2>5, <1>1, <1>3 DEF DraftInv
<1>6. CASE ~(sum1 <= sum2)
  <2>1. /\ team2' = team2 \cup {i} /\ sum2' = sum2 + EloSum(i)
        /\ team1' = team1 /\ sum1' = sum1
    BY <1>6 DEF Draft
  <2>2. TypeOK'
    BY <2>1, <1>1, <1>2 DEF TypeOK, Draft, Places
  <2>3. sum2 <= sum1
    BY <1>1, <1>6
  <2>4. \/ Distance(sum2', sum1') <= EloSum(i)
        \/ Distance(sum2', sum1') <= Distance(sum2, sum1)
    BY <2>1, <2>3, <1>1, <1>2, WeakerTeamGains
  <2>5. \/ Distance(sum1', sum2') <= EloSum(i)
        \/ Distance(sum1', sum2') <= Distance(sum1, sum2)
    BY <2>1, <2>4, <1>1, <1>2 DEF Distance
  <2>6. sum1' \in Nat /\ sum2' \in Nat /\ team1' \cup team2' = team1 \cup team2 \cup {i}
    BY <2>1, <1>1, <1>2
  <2>7. Balanced'
    BY <2>5, <2>6, <1>1, <1>4, GainKeepsBalance DEF DraftInv
  <2> QED
    BY <2>1, <2>2, <2>7, <1>1, <1>3 DEF DraftInv
<1> QED
  BY <1>5, <1>6

\* Every step of find_balanced_match keeps the invariant.
LEMMA NextInv == IInv /\ [Next]_vars => IInv'
<1> SUFFICES ASSUME IInv, [Next]_vars PROVE IInv'
  OBVIOUS
<1>1. CASE Collect
  BY <1>1, CollectInv
<1>2. CASE EndCollect
  BY <1>2, EndCollectInv
<1>3. CASE CheckAvoidList
  BY <1>3, CheckAvoidListInv
<1>4. CASE \E i \in Places : Draft(i)
  BY <1>4, DraftInvStep
<1>5. CASE EndDraft
  BY <1>5, EndDraftInv
<1>6. CASE UNCHANGED vars
  BY <1>6 DEF vars, IInv, TypeOK, PickedInv, CountInv, DraftInv, Balanced, Undrafted,
              Places, Compatible, EloSum
<1> QED
  BY <1>1, <1>2, <1>3, <1>4, <1>5, <1>6 DEF Next

-----------------------------------------------------------------------------
(* The running totals *)

\* The first loop never comes back to a block it has taken.
BookInv == Bookkeeping /\ \A i \in picked : i < next

\* A total of one block more.
LEMMA TotalsGrow ==
  ASSUME queue \in Queues, NEW S \in SUBSET Places, NEW i \in Places, i \notin S
  PROVE  /\ Headcount(S \cup {i}) = Headcount(S) + queue[i].size
         /\ TotalElo(S \cup {i}) = TotalElo(S) + EloSum(i)
<1>1. IsFiniteSet(S)
  <2>1. 1 \in Int /\ Len(queue) \in Int
    BY QueueIsSeq
  <2>2. IsFiniteSet(Places)
    BY <2>1, FS_Interval DEF Places
  <2> QED BY <2>2, FS_Subset
<1>2. \A j \in Places : queue[j].size \in Int /\ EloSum(j) \in Int
  BY BlockFacts
<1> DEFINE sizes == [j \in S \cup {i} |-> queue[j].size]
           elos == [j \in S \cup {i} |-> EloSum(j)]
<1>3. sizes \in [S \cup {i} -> Int] /\ elos \in [S \cup {i} -> Int]
  BY <1>2
<1>4. /\ [j \in S |-> sizes[j]] = [j \in S |-> queue[j].size]
      /\ [j \in S |-> elos[j]] = [j \in S |-> EloSum(j)]
      /\ sizes[i] = queue[i].size /\ elos[i] = EloSum(i)
  OBVIOUS
<1>5. /\ Headcount(S \cup {i}) = SumFunction(sizes) /\ TotalElo(S \cup {i}) = SumFunction(elos)
      /\ Headcount(S) = SumFunction([j \in S |-> queue[j].size])
      /\ TotalElo(S) = SumFunction([j \in S |-> EloSum(j)])
  BY DEF Headcount, TotalElo
<1> HIDE DEF sizes, elos
<1>6. /\ SumFunction(sizes) = SumFunction([j \in S |-> sizes[j]]) + sizes[i]
      /\ SumFunction(elos) = SumFunction([j \in S |-> elos[j]]) + elos[i]
  BY <1>1, <1>3, SumAdd
<1> QED
  BY <1>4, <1>5, <1>6

\* An empty total.
LEMMA TotalsBegin == Headcount({}) = 0 /\ TotalElo({}) = 0
<1>1. IsFiniteSet({})
  BY FS_EmptySet
<1>2. [i \in {} |-> queue[i].size] = [i \in {} |-> 0] /\ [i \in {} |-> EloSum(i)] = [i \in {} |-> 0]
  OBVIOUS
<1>3. SumFunction([i \in {} |-> 0]) = 0
  BY <1>1, SumZero
<1> QED
  BY <1>2, <1>3 DEF Headcount, TotalElo

LEMMA BookInit == Init => BookInv
<1> SUFFICES ASSUME Init PROVE BookInv
  OBVIOUS
<1>1. queue \in Queues /\ picked = {1} /\ count = queue[1].size
      /\ team1 = {} /\ team2 = {} /\ sum1 = 0 /\ sum2 = 0 /\ next = 2
  BY DEF Init
<1>2. 1 \in Places /\ queue[1].size \in Int
  BY <1>1, QueueIsSeq, BlockFacts
<1>3. Headcount({} \cup {1}) = Headcount({}) + queue[1].size
  BY <1>1, <1>2, TotalsGrow
<1>4. {} \cup {1} = {1}
  OBVIOUS
<1>5. Headcount({1}) = 0 + queue[1].size
  BY <1>3, <1>4, TotalsBegin
<1> QED
  BY <1>1, <1>2, <1>5, TotalsBegin DEF BookInv, Bookkeeping

\* Each turn adds to the total what it adds to the set.
LEMMA BookNext == IInv /\ BookInv /\ [Next]_vars => BookInv'
<1> SUFFICES ASSUME IInv, BookInv, [Next]_vars PROVE BookInv'
  OBVIOUS
<1>1. /\ queue \in Queues /\ next \in Nat /\ count \in Nat
      /\ picked \subseteq Places /\ team1 \subseteq Places /\ team2 \subseteq Places
  BY DEF IInv, TypeOK
<1>2. CASE Collect
  <2>1. /\ queue' = queue /\ UNCHANGED teams /\ next \in Places /\ next' = next + 1
        /\ \/ picked' = picked \cup {next} /\ count' = count + queue[next].size
           \/ UNCHANGED <<picked, count>>
    BY <1>2 DEF Collect
  <2>2. next \notin picked /\ \A i \in picked : i \in Nat
    BY <1>1 DEF BookInv, Places
  <2>3. Headcount(picked \cup {next}) = Headcount(picked) + queue[next].size
    BY <1>1, <2>1, <2>2, TotalsGrow
  <2>4. count' = Headcount(picked')
    BY <2>1, <2>3 DEF BookInv, Bookkeeping
  <2>5. ASSUME NEW i \in picked'
        PROVE  i < next'
    <3>1. CASE i \in picked
      <4>1. i < next /\ i \in Nat
        BY <2>2, <3>1 DEF BookInv
      <4> QED BY <1>1, <2>1, <4>1
    <3>2. CASE i = next
      BY <1>1, <2>1, <3>2
    <3> QED BY <2>1, <3>1, <3>2
  <2>6. /\ TotalElo(team1)' = TotalElo(team1) /\ TotalElo(team2)' = TotalElo(team2)
        /\ UNCHANGED <<team1, team2, sum1, sum2>>
    BY <2>1 DEF TotalElo, EloSum, teams
  <2>7. Headcount(picked)' = Headcount(picked')
    BY <2>1 DEF Headcount
  <2> QED BY <2>4, <2>5, <2>6, <2>7 DEF BookInv, Bookkeeping
<1>3. ASSUME NEW i \in Places, Draft(i)
      PROVE  BookInv'
  <2>1. /\ UNCHANGED <<queue, picked, count, next>>
        /\ \/ team1' = team1 \cup {i} /\ sum1' = sum1 + EloSum(i) /\ UNCHANGED <<team2, sum2>>
           \/ team2' = team2 \cup {i} /\ sum2' = sum2 + EloSum(i) /\ UNCHANGED <<team1, sum1>>
        /\ i \notin team1 /\ i \notin team2
    BY <1>3 DEF Draft, Strongest, Undrafted
  <2>2. /\ TotalElo(team1 \cup {i}) = TotalElo(team1) + EloSum(i)
        /\ TotalElo(team2 \cup {i}) = TotalElo(team2) + EloSum(i)
    BY <1>1, <2>1, TotalsGrow
  <2>3. sum1' = TotalElo(team1') /\ sum2' = TotalElo(team2')
    BY <2>1, <2>2 DEF BookInv, Bookkeeping
  <2>4. /\ TotalElo(team1)' = TotalElo(team1') /\ TotalElo(team2)' = TotalElo(team2')
        /\ Headcount(picked)' = Headcount(picked)
    BY <2>1 DEF Headcount, TotalElo, EloSum
  <2> QED BY <2>1, <2>3, <2>4 DEF BookInv, Bookkeeping
<1>4. CASE EndCollect \/ CheckAvoidList \/ EndDraft \/ UNCHANGED vars
  <2>1. UNCHANGED <<queue, next, picked, count, team1, team2, sum1, sum2>>
    BY <1>4 DEF EndCollect, CheckAvoidList, EndDraft, vars, teams
  <2>2. /\ TotalElo(team1)' = TotalElo(team1) /\ TotalElo(team2)' = TotalElo(team2)
        /\ Headcount(picked)' = Headcount(picked)
    BY <2>1 DEF Headcount, TotalElo, EloSum
  <2> QED BY <2>1, <2>2 DEF BookInv, Bookkeeping
<1> QED
  BY <1>2, <1>3, <1>4 DEF Next

-----------------------------------------------------------------------------
(* The theorems *)

\* The invariant the loops of find_balanced_match rely on always holds.
THEOREM Inductive == Spec => []IInv
<1>1. Init => IInv
  BY InitInv
<1>2. IInv /\ [Next]_vars => IInv'
  BY NextInv
<1> QED
  BY <1>1, <1>2, PTL DEF Spec

\* The types of the two loops of find_balanced_match and of its draft.
THEOREM TypeCorrect == Spec => []TypeOK
<1>1. IInv => TypeOK
  BY DEF IInv
<1> QED
  BY <1>1, Inductive, PTL

\* A match find_balanced_match forms has exactly players_per_match players,
\* the longest waiting block among them, each drafted to one team.
THEOREM WholeGroups == Spec => []GroupIsWhole
<1>1. IInv => GroupIsWhole
  BY DEF IInv, TypeOK, PickedInv, CountInv, DraftInv, Undrafted, GroupIsWhole
<1> QED
  BY <1>1, Inductive, PTL

\* The greedy draft of _snake_draft_with_parties never lets the teams' totals
\* differ by more than one block it has drafted.
THEOREM BalancedTeams == Spec => []Balanced
<1>1. IInv => Balanced
  BY DEF IInv, DraftInv
<1> QED
  BY <1>1, Inductive, PTL

\* Comparing every block with the anchor alone bounds the distance of any two.
THEOREM AcceptableGroups == Spec => []MutuallyAcceptable
<1>1. IInv => MutuallyAcceptable
  BY PairsAreClose DEF MutuallyAcceptable
<1> QED
  BY <1>1, Inductive, PTL

\* The count and the two totals the loops compare are what the group and the
\* teams really hold.
THEOREM TotalsCorrect == Spec => []Bookkeeping
<1>1. Init => BookInv
  BY BookInit
<1>2. IInv /\ BookInv /\ [Next]_vars => BookInv'
  BY BookNext
<1>3. BookInv => Bookkeeping
  BY DEF BookInv
<1> QED
  BY <1>1, <1>2, <1>3, Inductive, PTL DEF Spec

=============================================================================
