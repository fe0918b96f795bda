---------------------------- MODULE TeamBalance -----------------------------
(***************************************************************************)
(* How one tick of the daemon forms a match: find_balanced_match of        *)
(* mysql_queue.py and the party-aware draft it ends with.  The two loops   *)
(* are the steps; the queue is read once and does not change under them.   *)
(*                                                                         *)
(* A block is a party, or a player alone.  Its members queued together, so *)
(* one waiting time stands for all of them, and only their number and      *)
(* their average ELO matter here.  Blocks are named by their place in the  *)
(* queue, the oldest first.                                                *)
(***************************************************************************)
EXTENDS Integers, Sequences, Functions

CONSTANTS
  Required,               \* players_per_match
  BaseSpread,             \* MAX_ELO_SPREAD
  Interval, Amount,       \* ELO_SPREAD_INCREASE_INTERVAL and _AMOUNT
  Sizes, Elos, Waits,     \* what a block may be
  MaxBlocks               \* bound: blocks in the queue

ASSUME TeamsAssumption ==
  /\ Required \in Nat /\ BaseSpread \in Nat
  /\ Interval \in Nat \ {0} /\ Amount \in Nat
  /\ Sizes \subseteq 1..Required
  /\ Elos \subseteq Nat /\ Waits \subseteq Nat
  /\ MaxBlocks \in Nat

VARIABLES
  queue,          \* the waiting blocks
  pc,             \* "collect", "check", "draft", "matched" or "none"
  next,           \* the block the first loop looks at
  picked,         \* selected_blocks
  count,          \* selected_count
  team1, team2,   \* blocks drafted so far
  sum1, sum2      \* t1_sum and t2_sum

vars == <<queue, pc, next, picked, count, team1, team2, sum1, sum2>>
teams == <<team1, team2, sum1, sum2>>

Places == 1..Len(queue)
Blocks == [size : Sizes, elo : Elos, wait : Waits]
Queues == UNION {[1..n -> Blocks] : n \in 1..MaxBlocks}
OldestFirst(q) == \A i, j \in DOMAIN q : i < j => q[i].wait >= q[j].wait

Distance(a, b) == IF a >= b THEN a - b ELSE b - a
Least(a, b) == IF a <= b THEN a ELSE b
EloSum(i) == queue[i].size * queue[i].elo
Headcount(S) == SumFunction([i \in S |-> queue[i].size])

\* The longer a block waits, the more distant opponents it puts up with.
EffectiveSpread(b) == BaseSpread + (b.wait \div Interval) * Amount

\* Faulty: only the anchor's patience is asked.
WithinAnchorSpread(i) ==
  Distance(queue[i].elo, queue[1].elo) <= EffectiveSpread(queue[1])

\* The oldest block is the anchor; both must accept the distance.
Compatible(i) ==
  Distance(queue[i].elo, queue[1].elo)
    <= Least(EffectiveSpread(queue[1]), EffectiveSpread(queue[i]))

Init ==
  /\ queue \in {q \in Queues : OldestFirst(q)}
  /\ pc = IF Headcount(DOMAIN queue) < Required THEN "none" ELSE "collect"
  /\ next = 2
  /\ picked = {1} /\ count = queue[1].size
  /\ team1 = {} /\ team2 = {} /\ sum1 = 0 /\ sum2 = 0

\* Faulty: a party is taken whole although it exceeds the match.
FitsOneAtLeast(i) == count + 1 <= Required

Fits(i) == count + queue[i].size <= Required

\* One turn of the first loop: take the block or skip it.
Collect ==
  /\ pc = "collect" /\ count < Required /\ next \in Places
  /\ IF Fits(next) /\ Compatible(next)
       THEN picked' = picked \cup {next} /\ count' = count + queue[next].size
       ELSE UNCHANGED <<picked, count>>
  /\ next' = next + 1
  /\ UNCHANGED <<queue, pc, teams>>

EndCollect ==
  /\ pc = "collect" /\ (count >= Required \/ next \notin Places)
  /\ pc' = IF count < Required THEN "none" ELSE "check"
  /\ UNCHANGED <<queue, next, picked, count, teams>>

\* mm_avoid_list is asked for a pair within the group.  One pair is enough to
\* form no match in this tick; an error counts as no pair.
CheckAvoidList ==
  /\ pc = "check"
  /\ pc' \in {"draft", "none"}
  /\ UNCHANGED <<queue, next, picked, count, teams>>

\* Faulty: every block of the queue is drafted.
EveryoneWaiting == Places \ (team1 \cup team2)

Undrafted == picked \ (team1 \cup team2)

\* The sort is stable: among equals, the one picked first.
Strongest(i) ==
  /\ i \in Undrafted
  /\ \A j \in Undrafted : \/ queue[j].elo < queue[i].elo
                          \/ queue[j].elo = queue[i].elo /\ i <= j

\* Faulty: the stronger team gets the block.
DraftToStronger(i) ==
  /\ pc = "draft" /\ Strongest(i)
  /\ IF sum1 >= sum2
       THEN /\ team1' = team1 \cup {i} /\ sum1' = sum1 + EloSum(i)
            /\ UNCHANGED <<team2, sum2>>
       ELSE /\ team2' = team2 \cup {i} /\ sum2' = sum2 + EloSum(i)
            /\ UNCHANGED <<team1, sum1>>
  /\ UNCHANGED <<queue, pc, next, picked, count>>

\* Faulty: the first team's total is never computed again.
DraftKeepsSum(i) ==
  /\ pc = "draft" /\ Strongest(i)
  /\ IF sum1 <= sum2
       THEN team1' = team1 \cup {i} /\ UNCHANGED <<team2, sum1, sum2>>
       ELSE /\ team2' = team2 \cup {i} /\ sum2' = sum2 + EloSum(i)
            /\ UNCHANGED <<team1, sum1>>
  /\ UNCHANGED <<queue, pc, next, picked, count>>

\* One turn of the draft: the strongest block left goes to the weaker team.
Draft(i) ==
  /\ pc = "draft" /\ Strongest(i)
  /\ IF sum1 <= sum2
       THEN /\ team1' = team1 \cup {i} /\ sum1' = sum1 + EloSum(i)
            /\ UNCHANGED <<team2, sum2>>
       ELSE /\ team2' = team2 \cup {i} /\ sum2' = sum2 + EloSum(i)
            /\ UNCHANGED <<team1, sum1>>
  /\ UNCHANGED <<queue, pc, next, picked, count>>

EndDraft ==
  /\ pc = "draft" /\ Undrafted = {}
  /\ pc' = "matched"
  /\ UNCHANGED <<queue, next, picked, count, teams>>

Next == Collect \/ EndCollect \/ CheckAvoidList \/ (\E i \in Places : Draft(i)) \/ EndDraft

Spec == Init /\ [][Next]_vars

-----------------------------------------------------------------------------
(* Properties *)

TypeOK ==
  /\ queue \in Queues
  /\ pc \in {"collect", "check", "draft", "matched", "none"}
  /\ next \in Nat /\ count \in Nat
  /\ picked \subseteq Places
  /\ team1 \subseteq picked /\ team2 \subseteq picked
  /\ sum1 \in Nat /\ sum2 \in Nat

\* A match that is formed has exactly the players it needs: parties are never
\* split, nobody is drafted twice or left out, and the oldest block is in.
GroupIsWhole ==
  pc \in {"draft", "matched"} =>
    /\ count = Required
    /\ 1 \in picked
    /\ team1 \cap team2 = {}
    /\ pc = "matched" => team1 \cup team2 = picked

\* Any two blocks of a match are no further apart than their two patiences
\* together, although each was only compared with the anchor.
MutuallyAcceptable ==
  \A i, j \in picked :
    Distance(queue[i].elo, queue[j].elo)
      <= EffectiveSpread(queue[i]) + EffectiveSpread(queue[j])

\* "minimises the inter-team ELO gap": at every turn of the draft, the teams'
\* totals differ by no more than one of the blocks drafted.
Balanced ==
  \/ sum1 = sum2
  \/ \E i \in team1 \cup team2 : Distance(sum1, sum2) <= EloSum(i)

TotalElo(S) == SumFunction([i \in S |-> EloSum(i)])

\* What the loops compare is what the group and the teams hold.
Bookkeeping ==
  /\ count = Headcount(picked)
  /\ sum1 = TotalElo(team1)
  /\ sum2 = TotalElo(team2)
=============================================================================
