---------------------------- MODULE ResultsProofs ----------------------------
(***************************************************************************)
(* Theorems about MatchResults: TypeOK, EloIsSum, AbandonerLoses, ZeroSum, *)
(* ClosedIsRated and PunishedOnce, for every number of players and         *)
(* matches, and with every fault and every administrator the module has.   *)
(*                                                                         *)
(* First what the formulas of elo_ranking.py compute, then the invariants, *)
(* each on top of Course and Fresh:                                        *)
(*   Course   where step 4 and step 5 are, and which matches they hold;    *)
(*   Fresh    which scoreboards are still empty;                           *)
(*   Defeats, Agreed, Doomed                                               *)
(*            what step 4 is going to write;                               *)
(*   Counted, FinedOnce                                                    *)
(*            how many matches are settled for a player, which bounds the  *)
(*            matches played from below and the offences from both sides.  *)
(***************************************************************************)
EXTENDS MatchResults, Sums

-----------------------------------------------------------------------------
(* The formulas *)

LEMMA RoundedType ==
  ASSUME NEW x \in Int
  PROVE  Rounded(x) \in Int
BY DEF Rounded

\* A loss is not rounded to a gain; half a point more is at least one.
LEMMA RoundedSign ==
  ASSUME NEW x \in Int
  PROVE  /\ x <= 0 => Rounded(x) <= 0
         /\ x < -500 => Rounded(x) < 0
BY DEF Rounded

\* Python rounds a half to the even neighbour, above zero and below it alike.
LEMMA RoundedSymmetric ==
  ASSUME NEW x \in Int
  PROVE  Rounded(-x) = -Rounded(x)
BY DEF Rounded

LEMMA KFactorValues ==
  ASSUME NEW n \in Nat
  PROVE  KFactor(n) \in {24, 32, 64}
BY DEF KFactor

\* Nobody is expected to do worse than nothing, and of two teams that are near
\* each other neither is expected to lose with certainty.
LEMMA ExpectedBounds ==
  ASSUME NEW a \in Int, NEW b \in Int
  PROVE  /\ ExpectedScore(a, b) \in 0..1000
         /\ a - b > -700 => ExpectedScore(a, b) > 30
<1> DEFINE step(gap) == Smaller(gap \div 100, 8) + 1
<1>1. \A gap \in Nat : step(gap) \in 1..9 /\ (gap < 700 => step(gap) <= 7)
  BY DEF Smaller
<1>2. \A i \in 1..9 : Curve[i] \in 500..990 /\ (i <= 7 => Curve[i] < 970)
  BY DEF Curve
<1>3. ExpectedScore(a, b) =
        IF a >= b THEN Curve[step(a - b)] ELSE 1000 - Curve[step(b - a)]
  BY DEF ExpectedScore
<1> HIDE DEF step
<1>4. CASE a >= b
  <2>1. a - b \in Nat
    BY <1>4
  <2>2. step(a - b) \in 1..9
    BY <2>1, <1>1
  <2>3. Curve[step(a - b)] \in 500..990
    BY <2>2, <1>2
  <2> QED BY <2>3, <1>3, <1>4
<1>5. CASE ~(a >= b)
  <2>1. b - a \in Nat
    BY <1>5
  <2>2. step(b - a) \in 1..9 /\ (b - a < 700 => step(b - a) <= 7)
    BY <2>1, <1>1
  <2>3. Curve[step(b - a)] \in 500..990 /\ (b - a < 700 => Curve[step(b - a)] < 970)
    BY <2>2, <1>2
  <2> QED BY <2>3, <1>3, <1>5
<1> QED BY <1>4, <1>5

\* What one team is expected to win the other one is expected to lose.
LEMMA ExpectedSymmetric ==
  ASSUME NEW a \in Int, NEW b \in Int
  PROVE  ExpectedScore(b, a) = 1000 - ExpectedScore(a, b)
BY DEF ExpectedScore, Curve, Smaller

-----------------------------------------------------------------------------
(* The averages and the changes of a match *)

Rows == line \in [Matches -> [Players -> [before : Nat, change : Int, abandoned : BOOLEAN]]]
Counts == player \in [Players -> [elo : Nat, played : Nat, offences : Nat]]

LEMMA AverageType ==
  ASSUME Rows, NEW m \in Matches, NEW team \in SUBSET Players
  PROVE  Average(m, team) \in Int
<1>1. CASE team = {}
  BY <1>1 DEF Average
<1>2. CASE team # {}
  <2> DEFINE f == [p \in team |-> line[m][p].before]
  <2>1. IsFiniteSet(team)
    BY ResultsAssumption, FS_Subset
  <2>2. Cardinality(team) \in Nat /\ Cardinality(team) # 0
    BY <2>1, <1>2, FS_CardinalityType, FS_EmptySet
  <2>3. f \in [team -> Int]
    BY DEF Rows
  <2>4. SumFunction(f) \in Int
    <3> HIDE DEF f
    <3> QED BY <2>1, <2>3, SumType
  <2>5. SumFunction(f) \div Cardinality(team) \in Int
    <3> HIDE DEF f
    <3> QED BY <2>2, <2>4
  <2> QED BY <1>2, <2>5 DEF Average
<1> QED BY <1>1, <1>2

LEMMA ExpectedType ==
  ASSUME Rows, NEW m \in Matches, NEW p \in Players
  PROVE  /\ Expected(m, p) \in 0..1000
         /\ Near(m) => Expected(m, p) > 30
<1> DEFINE a == Average(m, Team1)
           b == Average(m, Players \ Team1)
<1>1. a \in Int /\ b \in Int
  BY ResultsAssumption, AverageType
<1>2. Expected(m, p) = IF p \in Team1 THEN ExpectedScore(a, b) ELSE ExpectedScore(b, a)
  BY DEF Expected
<1>3. Near(m) => a - b > -700 /\ b - a > -700
  <2>1. Near(m) => a - b > -700 /\ a - b < 700
    BY DEF Near
  <2> HIDE DEF a, b
  <2>2. a - b > -700 /\ a - b < 700 => b - a > -700
    BY <1>1
  <2> QED BY <2>1, <2>2
<1> HIDE DEF a, b
<1>4. ExpectedScore(a, b) \in 0..1000 /\ (a - b > -700 => ExpectedScore(a, b) > 30)
  BY <1>1, ExpectedBounds
<1>5. ExpectedScore(b, a) \in 0..1000 /\ (b - a > -700 => ExpectedScore(b, a) > 30)
  BY <1>1, ExpectedBounds
<1> QED BY <1>2, <1>3, <1>4, <1>5

\* What an abandoner is given is no gain, and with teams near each other a loss.
LEMMA DefeatCosts ==
  ASSUME NEW k \in {24, 32, 64}, NEW e \in 0..1000
  PROVE  /\ Rounded(k * (0 - e)) \in Int
         /\ Rounded(k * (0 - e)) <= 0
         /\ e > 30 => Rounded(k * (0 - e)) < 0
<1>1. k * (0 - e) \in Int /\ k * (0 - e) <= 0 /\ (e > 30 => k * (0 - e) < -500)
  <2>1. CASE k = 24 BY <2>1
  <2>2. CASE k = 32 BY <2>2
  <2>3. CASE k = 64 BY <2>3
  <2> QED BY <2>1, <2>2, <2>3
<1> QED BY <1>1, RoundedType, RoundedSign

LEMMA ChangesType ==
  ASSUME Rows, Counts, NEW m \in Matches
  PROVE  EloChanges(m) \in [Players -> Int]
<1> SUFFICES ASSUME NEW p \in Players
             PROVE  EloChanges(m)[p] \in Int
  BY DEF EloChanges
<1> DEFINE k == KFactor(player[p].played)
           e == Expected(m, p)
           a == Actual(m, p)
<1>1. k \in {24, 32, 64}
  BY KFactorValues DEF Counts
<1>2. e \in Int
  BY ExpectedType
<1>3. a \in Int
  BY DEF Actual
<1>4. EloChanges(m)[p] \in {0, Rounded(k * (a - e)), Rounded(k * (0 - e))}
  BY DEF EloChanges, CalculateMatchResults
<1> HIDE DEF k, e, a
<1>5. k * (a - e) \in Int /\ k * (0 - e) \in Int
  BY <1>1, <1>2, <1>3
<1> QED BY <1>4, <1>5, RoundedType

LEMMA AbandonerNeverGains ==
  ASSUME Rows, Counts, NEW m \in Matches, match[m].winner \in Winners,
         NEW p \in Players, line[m][p].abandoned
  PROVE  /\ EloChanges(m)[p] <= 0
         /\ Near(m) /\ Team1 # {} /\ Team1 # Players => EloChanges(m)[p] < 0
<1> DEFINE k == KFactor(player[p].played)
           e == Expected(m, p)
<1>1. k \in {24, 32, 64}
  BY KFactorValues DEF Counts
<1>2. e \in 0..1000 /\ (Near(m) => e > 30)
  BY ExpectedType
<1>3. CASE Overridden(m, p)
  <2>1. EloChanges(m)[p] = Rounded(k * (0 - e))
    BY <1>3 DEF EloChanges
  <2> HIDE DEF k, e
  <2> QED BY <2>1, <1>1, <1>2, DefeatCosts
<1>4. CASE ~Overridden(m, p)
  <2>1. Actual(m, p) = 0
    BY <1>4 DEF Overridden, Actual, Winners
  <2>2. EloChanges(m)[p] = IF Team1 = {} \/ Team1 = Players THEN 0 ELSE Rounded(k * (0 - e))
    BY <1>4, <2>1 DEF EloChanges, CalculateMatchResults
  <2> HIDE DEF k, e
  <2> QED BY <2>2, <1>1, <1>2, DefeatCosts
<1> QED BY <1>3, <1>4

-----------------------------------------------------------------------------
(* The steps, as the proofs take them apart *)

\* The three ways on from a player of the loops of step 4.
Onward(p) ==
  /\ left # {p} /\ left' = left \ {p}
  /\ pc' = pc /\ cur' = cur /\ changes' = changes
Upward(p) ==
  /\ left = {p} /\ pc = "update" /\ pc' = "ban"
  /\ left' = {q \in Players : line[cur][q].abandoned}
  /\ cur' = cur /\ changes' = changes
Back(p) ==
  /\ left = {p} /\ left' = {} /\ pc' = "next" /\ cur' = NoMatch /\ changes' = NoChanges
  /\ pc = "update" => \A q \in Players : ~line[cur][q].abandoned

LEMMA NextPlayerCases ==
  ASSUME NEW p \in Players, NextPlayer(p)
  PROVE  Onward(p) \/ Upward(p) \/ Back(p)
BY DEF NextPlayer, Goto, Onward, Upward, Back

Withdrawal == \E m \in Matches : CancelMatch(m) \/ MatchCleanup(m)

\* Seasons and administrators are one case.
LEMMA StepKinds ==
  ASSUME Next, TypeOK
  PROVE  \/ SelectFinished \/ SelectFails \/ ReadEnded \/ CleanupFails \/ Crash
         \/ \E m \in Matches : SkipProcessed(m) \/ ReadPlayers(m)
         \/ \E m \in Matches : MarkMatchCleaned(m) \/ DestroyRefused(m) \/ CreateMatch(m)
         \/ \E p \in Players : UpdatePlayerAfterMatch(p) \/ PassOver(p) \/ ApplyAbandonPenalty(p)
         \/ \E m \in Matches, w \in Winners, quitters \in SUBSET Players : Finish(m, w, quitters)
         \/ \E elo \in [Players -> Nat] : GiveRatings(elo)
         \/ Withdrawal
<1>1. ASSUME NEW p \in Players, NEW elo \in Overrides, SetElo(p, elo)
      PROVE  \E given \in [Players -> Nat] : GiveRatings(given)
  <2>1. [q \in Players |-> IF q = p THEN elo ELSE player[q].elo] \in [Players -> Nat]
    BY ResultsAssumption DEF TypeOK
  <2> QED BY <2>1, <1>1 DEF SetElo
<1>2. ASSUME NEW to \in Overrides, StartNewSeason(to)
      PROVE  \E given \in [Players -> Nat] : GiveRatings(given)
  <2>1. \A p \in Players : to + Larger(0, player[p].elo - to) \div 2 \in Nat
    <3> SUFFICES ASSUME NEW p \in Players
                 PROVE  to + Larger(0, player[p].elo - to) \div 2 \in Nat
      OBVIOUS
    <3>1. to \in Nat /\ player[p].elo \in Nat
      BY ResultsAssumption DEF TypeOK
    <3>2. Larger(0, player[p].elo - to) \in Nat
      BY <3>1 DEF Larger
    <3> QED BY <3>1, <3>2
  <2>2. [p \in Players |-> to + Larger(0, player[p].elo - to) \div 2] \in [Players -> Nat]
    BY <2>1
  <2> QED BY <2>2, <1>2 DEF StartNewSeason
<1> QED BY <1>1, <1>2 DEF Next, Step4, Step5, Environment, Withdrawal

-----------------------------------------------------------------------------
(* What the UPDATEs of several columns leave of a row *)

States ==
  match \in [Matches -> [status : {"none", "live", "finished", "cancelled"}, winner : Winners,
                         cleaned : BOOLEAN, attempts : 0..MaxAttempts]]

LEMMA RatedRow ==
  ASSUME Counts, NEW p \in Players, NEW e \in Nat, NEW n \in Nat,
         player' = [player EXCEPT ![p].elo = e, ![p].played = n]
  PROVE  /\ Counts'
         /\ player'[p].elo = e /\ player'[p].played = n
         /\ player'[p].offences = player[p].offences
         /\ \A q \in Players : q # p => player'[q] = player[q]
BY DEF Counts

LEMMA ClosedRow ==
  ASSUME States, NEW m \in Matches, NEW n \in 0..MaxAttempts, NEW c \in BOOLEAN,
         match' = [match EXCEPT ![m].attempts = n, ![m].cleaned = c]
  PROVE  /\ States'
         /\ match'[m].attempts = n /\ match'[m].cleaned = c
         /\ match'[m].status = match[m].status /\ match'[m].winner = match[m].winner
         /\ \A k \in Matches : k # m => match'[k] = match[k]
BY DEF States

LEMMA FinishedRow ==
  ASSUME States, NEW m \in Matches, NEW w \in Winners,
         match' = [match EXCEPT ![m].status = "finished", ![m].winner = w]
  PROVE  /\ States'
         /\ match'[m].status = "finished" /\ match'[m].winner = w
         /\ match'[m].cleaned = match[m].cleaned /\ match'[m].attempts = match[m].attempts
         /\ \A k \in Matches : k # m => match'[k] = match[k]
BY DEF States

\* What an administrator who cancels or closes a match leaves as it is.
LEMMA WithdrawnRow ==
  ASSUME TypeOK, NEW m \in Matches, CancelMatch(m) \/ MatchCleanup(m)
  PROVE  /\ States'
         /\ UNCHANGED <<player, line, pc, todo, cur, left, changes, base, late, faults>>
         /\ withdrawn' = withdrawn \cup {m}
         /\ \A k \in Matches : k # m => match'[k] = match[k]
         /\ match'[m].winner = match[m].winner /\ match'[m].attempts = match[m].attempts
         /\ match[m].cleaned => match'[m].cleaned
         /\ match'[m].status # match[m].status =>
              match[m].status = "live" /\ match'[m].status = "cancelled"
         /\ match[m].status # "none"
         /\ overrides' \in Nat /\ overrides' + faults <= MaxDisturbances
<1>1. match[m] \in [status : {"none", "live", "finished", "cancelled"}, winner : Winners,
                    cleaned : BOOLEAN, attempts : 0..MaxAttempts]
      /\ States
  BY DEF TypeOK, States
<1>2. Withdraw(m)
  BY DEF CancelMatch, MatchCleanup
<1>3. overrides' \in Nat /\ overrides' + faults <= MaxDisturbances
  BY <1>2, ResultsAssumption DEF Withdraw, Override, TypeOK
<1>4. CASE CancelMatch(m)
  BY <1>1, <1>2, <1>3, <1>4 DEF CancelMatch, Withdraw, States, daemon
<1>5. CASE MatchCleanup(m)
  BY <1>1, <1>2, <1>3, <1>5 DEF MatchCleanup, Withdraw, States, daemon
<1> QED BY <1>4, <1>5

LEMMA WrittenLine ==
  ASSUME Rows, NEW m \in Matches, NEW p \in Players, NEW v \in Int,
         line' = [line EXCEPT ![m][p].change = v]
  PROVE  /\ Rows'
         /\ line'[m][p].change = v
         /\ \A k \in Matches, q \in Players :
              /\ line'[k][q].before = line[k][q].before
              /\ line'[k][q].abandoned = line[k][q].abandoned
              /\ k # m \/ q # p => line'[k][q].change = line[k][q].change
<1> DEFINE row == [line[m][p] EXCEPT !.change = v]
           rows == [line[m] EXCEPT ![p] = row]
<1>1. row = [before |-> line[m][p].before, change |-> v, abandoned |-> line[m][p].abandoned]
      /\ line[m][p].before \in Nat /\ line[m][p].abandoned \in BOOLEAN
  BY DEF Rows
<1>2. line' = [line EXCEPT ![m] = rows]
  OBVIOUS
<1> HIDE DEF row
<1>3. rows \in [Players -> [before : Nat, change : Int, abandoned : BOOLEAN]]
      /\ rows[p] = row /\ \A q \in Players : q # p => rows[q] = line[m][q]
  BY <1>1 DEF Rows
<1> HIDE DEF rows
<1> QED BY <1>1, <1>2, <1>3 DEF Rows

\* The lines of a match that ends: the same but for who has left for good.
LEMMA LeftLines ==
  ASSUME Rows, NEW m \in Matches, NEW quitters \in SUBSET Players,
         line' = [line EXCEPT ![m] =
                    [p \in Players |-> [@[p] EXCEPT !.abandoned = p \in quitters]]]
  PROVE  /\ Rows'
         /\ \A k \in Matches : k # m => line'[k] = line[k]
         /\ \A p \in Players : /\ line'[m][p].before = line[m][p].before
                               /\ line'[m][p].change = line[m][p].change
<1> DEFINE Row == [before : Nat, change : Int, abandoned : BOOLEAN]
           rows == [p \in Players |-> [line[m][p] EXCEPT !.abandoned = p \in quitters]]
<1>1. line' = [line EXCEPT ![m] = rows]
  OBVIOUS
<1>2. ASSUME NEW p \in Players
      PROVE  rows[p] \in Row /\ rows[p].before = line[m][p].before
                             /\ rows[p].change = line[m][p].change
  <2>1. line[m][p] \in Row
    BY DEF Rows
  <2>2. CASE p \in quitters
    <3>1. rows[p] = [line[m][p] EXCEPT !.abandoned = TRUE]
      BY <2>2
    <3> QED BY <2>1, <3>1
  <2>3. CASE p \notin quitters
    <3>1. (p \in quitters) = FALSE
      BY <2>3
    <3>2. rows[p] = [line[m][p] EXCEPT !.abandoned = FALSE]
      BY <3>1, Zenon
    <3> QED BY <2>1, <3>2
  <2> QED BY <2>2, <2>3
<1>3. rows \in [Players -> Row]
  BY <1>2
<1> HIDE DEF rows
<1> QED BY <1>1, <1>2, <1>3 DEF Rows

-----------------------------------------------------------------------------
(* Where steps 4 and 5 are *)

\* Step 4 only holds matches that are finished, step 5 also cancelled ones; a
\* match that is cancelled, or closed before its end, has been withdrawn; step 4
\* has a match in hand while it rates it and at no other time.
Course ==
  /\ \A m \in todo : /\ match[m].attempts < MaxAttempts
                     /\ m \notin withdrawn => ~match[m].cleaned
                     /\ \/ match[m].status = "finished"
                        \/ match[m].status = "cancelled" /\ pc = "clean"
  /\ \A m \in Matches \ withdrawn : /\ match[m].cleaned => match[m].status = "finished"
                                    /\ match[m].status # "cancelled"
  /\ \A m \in Matches : ~match[m].cleaned => match[m].attempts < MaxAttempts
  /\ pc \in {"update", "ban"} => /\ match[cur].status = "finished" /\ cur \notin todo
                                 /\ cur \notin withdrawn => ~match[cur].cleaned
  /\ pc \notin {"update", "ban"} => cur = NoMatch

LEMMA CourseInit ==
  ASSUME Init
  PROVE  TypeOK /\ Course
<1>1. PICK elo \in [Players -> StartElos] :
        /\ player = [p \in Players |-> [elo |-> elo[p], played |-> 0, offences |-> 0]]
        /\ base = elo
  BY DEF Init
<1>2. player \in [Players -> [elo : Nat, played : Nat, offences : Nat]]
      /\ base \in [Players -> Int]
  BY <1>1, ResultsAssumption
<1>3. changes \in [Players -> Int]
  BY DEF Init, NoChanges
<1>4. match \in [Matches -> [status : {"none", "live", "finished", "cancelled"}, winner : Winners,
                             cleaned : BOOLEAN, attempts : 0..MaxAttempts]]
  BY ResultsAssumption DEF Init, Winners
<1>5. line \in [Matches -> [Players -> [before : Nat, change : Int, abandoned : BOOLEAN]]]
  BY DEF Init
<1>6. overrides \in Nat /\ faults \in Nat /\ overrides + faults <= MaxDisturbances
  BY ResultsAssumption DEF Init
<1>7. TypeOK
  BY <1>2, <1>3, <1>4, <1>5, <1>6 DEF Init, TypeOK
<1>8. Course
  BY ResultsAssumption DEF Init, Course
<1> QED BY <1>7, <1>8

\* Each of the tables keeps its type in the steps that write it.
LEMMA RatedTypes ==
  ASSUME TypeOK, Course, NEW p \in Players,
         UpdatePlayerAfterMatch(p) \/ PassOver(p) \/ ApplyAbandonPenalty(p)
  PROVE  TypeOK' /\ Course'
<1>1. pc \in {"update", "ban"} /\ cur \in Matches /\ NextPlayer(p)
  BY DEF UpdatePlayerAfterMatch, PassOver, ApplyAbandonPenalty, TypeOK
<1>2. /\ pc' \in {"idle", "next", "update", "ban", "clean"}
      /\ cur' \in Matches \cup {NoMatch} /\ (pc' \in {"update", "ban"} => cur' \in Matches)
      /\ left' \subseteq Players /\ changes' \in [Players -> Int]
  <2>1. CASE Onward(p) BY <1>1, <2>1 DEF Onward, TypeOK
  <2>2. CASE Upward(p) BY <1>1, <2>2 DEF Upward, TypeOK
  <2>3. CASE Back(p) BY <1>1, <2>3 DEF Back, TypeOK, NoChanges
  <2> QED BY <1>1, <2>1, <2>2, <2>3, NextPlayerCases
<1>3. todo' = todo /\ match' = match /\ late' = late /\ withdrawn' = withdrawn
      /\ overrides' = overrides
  BY DEF UpdatePlayerAfterMatch, PassOver, ApplyAbandonPenalty, database, history
<1>4. Course'
  <2>1. CASE Onward(p) BY <1>1, <1>3, <2>1 DEF Onward, Course
  <2>2. CASE Upward(p) BY <1>1, <1>3, <2>2 DEF Upward, Course
  <2>3. CASE Back(p) BY <1>1, <1>3, <2>3 DEF Back, Course
  <2> QED BY <1>1, <2>1, <2>2, <2>3, NextPlayerCases
<1>5. CASE UpdatePlayerAfterMatch(p)
  <2> USE <1>5 DEF UpdatePlayerAfterMatch
  <2>1. changes[p] \in Int /\ player[p].elo \in Nat /\ player[p].played \in Nat /\ base[p] \in Int
    BY DEF TypeOK
  <2>2. Larger(0, player[p].elo + changes[p]) \in Nat
        /\ base[p] + Larger(0, -(player[p].elo + changes[p])) \in Int
    BY <2>1 DEF Larger
  <2>3. player' = [player EXCEPT ![p].elo = Larger(0, player[p].elo + changes[p]),
                                 ![p].played = player[p].played + 1]
    OBVIOUS
  <2>4. Counts'
    <3>1. player[p].played + 1 \in Nat BY <2>1
    <3>2. Counts BY DEF TypeOK, Counts
    <3> QED BY <2>2, <2>3, <3>1, <3>2, RatedRow
  <2>5. Rows'
    <3>1. Rows BY DEF TypeOK, Rows
    <3> QED BY <1>1, <2>1, <3>1, WrittenLine
  <2>6. base' \in [Players -> Int]
    BY <2>2 DEF TypeOK
  <2>7. faults' = faults
    OBVIOUS
  <2> QED BY <1>2, <1>3, <1>4, <2>4, <2>5, <2>6, <2>7 DEF TypeOK, Counts, Rows
<1>6. CASE PassOver(p)
  <2>1. player' = player /\ line' = line /\ base' = base
        /\ overrides + faults < MaxDisturbances /\ faults' = faults + 1
    BY <1>6 DEF PassOver, database, Fault
  <2>2. overrides' \in Nat /\ faults' \in Nat /\ overrides' + faults' <= MaxDisturbances
    BY <1>3, <2>1, ResultsAssumption DEF TypeOK
  <2> QED BY <1>2, <1>3, <1>4, <2>1, <2>2 DEF TypeOK
<1>7. CASE ApplyAbandonPenalty(p)
  <2>1. PICK forgiven \in {0, Smaller(1, player[p].offences)} :
          player' = [player EXCEPT ![p].offences = player[p].offences - forgiven + 1]
    BY <1>7 DEF ApplyAbandonPenalty
  <2>2. player[p].offences - forgiven + 1 \in Nat
    BY DEF Smaller, TypeOK
  <2>3. player' \in [Players -> [elo : Nat, played : Nat, offences : Nat]]
    BY <2>1, <2>2 DEF TypeOK
  <2>4. line' = line /\ base' = base /\ faults' = faults
    BY <1>7 DEF ApplyAbandonPenalty, history
  <2> QED BY <1>2, <1>3, <1>4, <2>3, <2>4 DEF TypeOK
<1> QED BY <1>5, <1>6, <1>7

LEMMA ClosedTypes ==
  ASSUME TypeOK, Course, NEW m \in Matches, MarkMatchCleaned(m) \/ DestroyRefused(m)
  PROVE  TypeOK' /\ Course'
<1>1. /\ pc = "clean" /\ m \in todo /\ CloseLoop(todo \ {m})
      /\ UNCHANGED <<player, line, cur, left, changes, history>>
  BY DEF MarkMatchCleaned, DestroyRefused
<1>2. /\ match[m].attempts \in Nat /\ match[m].attempts < MaxAttempts
      /\ match[m].cleaned \in BOOLEAN
      /\ m \notin withdrawn => match[m].status = "finished"
  BY <1>1 DEF Course, TypeOK
<1>3. PICK n \in 0..MaxAttempts, c \in BOOLEAN :
        /\ match' = [match EXCEPT ![m].attempts = n, ![m].cleaned = c]
        /\ ~c => n < MaxAttempts
  <2>1. CASE MarkMatchCleaned(m)
    <3>1. match' = [match EXCEPT ![m].cleaned = TRUE]
      BY <2>1 DEF MarkMatchCleaned
    <3>2. [match EXCEPT ![m].attempts = match[m].attempts, ![m].cleaned = TRUE]
            = [match EXCEPT ![m].cleaned = TRUE]
      <4>1. [match[m] EXCEPT !.attempts = match[m].attempts, !.cleaned = TRUE]
              = [match[m] EXCEPT !.cleaned = TRUE]
        BY DEF TypeOK
      <4> QED BY <4>1
    <3>3. match[m].attempts \in 0..MaxAttempts
      BY <1>2, ResultsAssumption
    <3> QED BY <3>1, <3>2, <3>3
  <2>2. CASE DestroyRefused(m)
    <3> DEFINE n == match[m].attempts + 1
               c == match[m].cleaned \/ match[m].attempts + 1 >= MaxAttempts
    <3>1. match' = [match EXCEPT ![m].attempts = n, ![m].cleaned = c]
      BY <2>2 DEF DestroyRefused
    <3>2. n \in 0..MaxAttempts /\ c \in BOOLEAN /\ (~c => n < MaxAttempts)
      BY <1>2, ResultsAssumption
    <3> QED BY <3>1, <3>2
  <2> QED BY <2>1, <2>2, <1>1 DEF MarkMatchCleaned, DestroyRefused
<1>4. /\ States'
      /\ match'[m].attempts = n /\ match'[m].cleaned = c
      /\ match'[m].status = match[m].status
      /\ \A k \in Matches : k # m => match'[k] = match[k]
  <2>1. States BY DEF TypeOK, States
  <2> QED BY <1>3, <2>1, ClosedRow
<1>5. pc' \in {"idle", "clean"} /\ todo' = todo \ {m} /\ (pc' = "clean" \/ todo' = {})
  BY <1>1 DEF CloseLoop, Goto
<1>6. TypeOK'
  BY <1>1, <1>4, <1>5 DEF TypeOK, States, history, Course
<1>7. Course'
  BY <1>1, <1>2, <1>3, <1>4, <1>5 DEF Course, TypeOK, history
<1> QED BY <1>6, <1>7

LEMMA CourseNext ==
  ASSUME TypeOK, Course, [Next]_vars
  PROVE  TypeOK' /\ Course'
<1>1. CASE SelectFinished
  BY <1>1 DEF SelectFinished, Open, Goto, TypeOK, Course, database, history
<1>2. CASE SelectFails
  BY <1>2, ResultsAssumption DEF SelectFails, Fault, Goto, TypeOK, Course, database
<1>3. CASE ReadEnded
  BY <1>3 DEF ReadEnded, CloseLoop, Ended, Goto, TypeOK, Course, database, history
<1>4. CASE CleanupFails
  <2>1. PICK rest \in {{}} \cup {todo \ {m} : m \in todo} : CloseLoop(rest)
    BY <1>4 DEF CleanupFails
  <2>2. rest \subseteq todo
    BY <2>1
  <2>3. todo' = rest /\ pc' \in {"idle", "clean"} /\ (pc' = "clean" => pc = "clean")
        /\ (pc' = "clean" \/ todo' = {})
    BY <1>4, <2>1, <2>2 DEF CleanupFails, CloseLoop, Goto
  <2> QED BY <1>4, <2>2, <2>3, ResultsAssumption DEF CleanupFails, Fault, TypeOK, Course, database
<1>5. CASE Crash
  BY <1>5, ResultsAssumption DEF Crash, Fault, Goto, NoChanges, TypeOK, Course, database
<1>6. ASSUME NEW m \in Matches, SkipProcessed(m)
      PROVE  TypeOK' /\ Course'
  BY <1>6 DEF SkipProcessed, TypeOK, Course, database, history
<1>7. ASSUME NEW m \in Matches, ReadPlayers(m)
      PROVE  TypeOK' /\ Course'
  <2>1. EloChanges(m) \in [Players -> Int]
    BY ChangesType DEF TypeOK, Rows, Counts
  <2> QED BY <1>7, <2>1 DEF ReadPlayers, Goto, TypeOK, Course, database, history
<1>8. ASSUME NEW m \in Matches, MarkMatchCleaned(m) \/ DestroyRefused(m)
      PROVE  TypeOK' /\ Course'
  BY <1>8, ClosedTypes
<1>9. ASSUME NEW m \in Matches, CreateMatch(m)
      PROVE  TypeOK' /\ Course'
  <2> USE <1>9 DEF CreateMatch, daemon, history
  <2>1. match' \in [Matches -> [status : {"none", "live", "finished", "cancelled"}, winner : Winners,
                                cleaned : BOOLEAN, attempts : 0..MaxAttempts]]
    BY DEF TypeOK
  <2>2. line' \in [Matches -> [Players -> [before : Nat, change : Int, abandoned : BOOLEAN]]]
    BY DEF TypeOK
  <2>3. TypeOK'
    BY <2>1, <2>2 DEF TypeOK
  <2>4. \A k \in Matches : /\ k # m => match'[k] = match[k]
                           /\ match'[k].cleaned = match[k].cleaned
                           /\ match'[k].attempts = match[k].attempts
                           /\ match'[k].status # match[k].status =>
                                match[k].status = "none" /\ match'[k].status = "live"
    BY DEF TypeOK
  <2>5. pc' = pc /\ todo' = todo /\ cur' = cur /\ pc = "idle" /\ todo \subseteq Matches
        /\ withdrawn' = withdrawn
    BY DEF TypeOK
  <2>6. Course'
    BY <2>4, <2>5 DEF Course
  <2> QED BY <2>3, <2>6
<1>10. ASSUME NEW p \in Players,
              UpdatePlayerAfterMatch(p) \/ PassOver(p) \/ ApplyAbandonPenalty(p)
       PROVE  TypeOK' /\ Course'
  BY <1>10, RatedTypes
<1>11. ASSUME NEW m \in Matches, NEW w \in Winners, NEW quitters \in SUBSET Players,
              Finish(m, w, quitters)
       PROVE  TypeOK' /\ Course'
  <2> USE <1>11 DEF Finish, daemon
  <2>1. /\ States'
        /\ match'[m].status = "finished"
        /\ match'[m].cleaned = match[m].cleaned /\ match'[m].attempts = match[m].attempts
        /\ \A k \in Matches : k # m => match'[k] = match[k]
    <3>1. States BY DEF TypeOK, States
    <3> QED BY <3>1, FinishedRow
  <2>2. Rows'
    <3>1. Rows BY DEF TypeOK, Rows
    <3> QED BY <3>1, LeftLines
  <2>3. late' \subseteq Matches
    BY DEF TypeOK
  <2>4. TypeOK'
    BY <2>1, <2>2, <2>3 DEF TypeOK, States, Rows
  <2>5. Course'
    BY <2>1 DEF Course, TypeOK
  <2> QED BY <2>4, <2>5
<1>12. ASSUME NEW elo \in [Players -> Nat], GiveRatings(elo)
       PROVE  TypeOK' /\ Course'
  <2> USE <1>12 DEF GiveRatings, daemon
  <2>1. player' \in [Players -> [elo : Nat, played : Nat, offences : Nat]]
    BY DEF TypeOK
  <2>2. base' \in [Players -> Int]
    BY DEF TypeOK
  <2>3. overrides' \in Nat /\ overrides' + faults <= MaxDisturbances
    BY ResultsAssumption DEF Override, TypeOK
  <2> QED BY <2>1, <2>2, <2>3 DEF TypeOK, Course
<1>13. ASSUME NEW m \in Matches, CancelMatch(m) \/ MatchCleanup(m)
       PROVE  TypeOK' /\ Course'
  <2>1. /\ States'
        /\ UNCHANGED <<player, line, pc, todo, cur, left, changes, base, late, faults>>
        /\ withdrawn' = withdrawn \cup {m}
        /\ \A k \in Matches : k # m => match'[k] = match[k]
        /\ match'[m].attempts = match[m].attempts /\ (match[m].cleaned => match'[m].cleaned)
        /\ match'[m].status # match[m].status => match[m].status = "live"
        /\ overrides' \in Nat /\ overrides' + faults <= MaxDisturbances
    BY <1>13, WithdrawnRow
  <2>2. TypeOK'
    BY <2>1 DEF TypeOK, States
  <2>3. \A k \in Matches : /\ match'[k].attempts = match[k].attempts
                           /\ match[k].cleaned => match'[k].cleaned
                           /\ match'[k].status # match[k].status => match[k].status = "live"
                           /\ k \notin withdrawn' => match'[k] = match[k] /\ k \notin withdrawn
    BY <2>1
  <2>4. todo \subseteq Matches /\ (pc \in {"update", "ban"} => cur \in Matches)
    BY DEF TypeOK
  <2>5. Course'
    BY <2>1, <2>3, <2>4 DEF Course
  <2> QED BY <2>2, <2>5
<1>14. CASE UNCHANGED vars
  BY <1>14 DEF vars, database, daemon, history, TypeOK, Course
<1> QED
  BY <1>1, <1>2, <1>3, <1>4, <1>5, <1>6, <1>7, <1>8, <1>9, <1>10, <1>11, <1>12, <1>13, <1>14,
     StepKinds DEF Withdrawal

\* Every variable keeps its type: no rating falls below zero, and the attempts
\* to remove a container never exceed _CLEANUP_MAX_ATTEMPTS.
THEOREM ResultsTypeCorrect == Spec => []TypeOK
<1>1. Init => TypeOK /\ Course
  BY CourseInit
<1>2. (TypeOK /\ Course) /\ [Next]_vars => (TypeOK /\ Course)'
  BY CourseNext
<1> QED BY <1>1, <1>2, PTL DEF Spec

-----------------------------------------------------------------------------
(* What is written, and what step 4 is going to write *)

Quiet ==
  \/ SelectFinished \/ SelectFails \/ ReadEnded \/ CleanupFails \/ Crash
  \/ \E m \in Matches : SkipProcessed(m) \/ MarkMatchCleaned(m) \/ DestroyRefused(m)

\* The steps that only move through the lists.
LEMMA QuietSteps ==
  ASSUME TypeOK, Quiet
  PROVE  /\ UNCHANGED <<player, line, base, late>>
         /\ \A m \in Matches : match'[m].status = match[m].status
                               /\ match'[m].winner = match[m].winner
         /\ pc' \notin {"update", "ban"}
<1>1. CASE SelectFinished
  BY <1>1 DEF SelectFinished, Goto, database, history
<1>2. CASE SelectFails
  BY <1>2 DEF SelectFails, Goto, database
<1>3. CASE ReadEnded
  BY <1>3 DEF ReadEnded, CloseLoop, Goto, database, history
<1>4. CASE CleanupFails
  BY <1>4 DEF CleanupFails, CloseLoop, Goto, database
<1>5. CASE Crash
  BY <1>5 DEF Crash, Goto, database
<1>6. CASE \E m \in Matches : SkipProcessed(m)
  BY <1>6 DEF SkipProcessed, database, history
<1>7. CASE \E m \in Matches : MarkMatchCleaned(m)
  BY <1>7 DEF MarkMatchCleaned, CloseLoop, Goto, history, TypeOK
<1>8. CASE \E m \in Matches : DestroyRefused(m)
  BY <1>8 DEF DestroyRefused, CloseLoop, Goto, history, TypeOK
<1> QED BY <1>1, <1>2, <1>3, <1>4, <1>5, <1>6, <1>7, <1>8 DEF Quiet

LEMMA Steps ==
  ASSUME [Next]_vars, TypeOK
  PROVE  \/ Quiet
         \/ \E m \in Matches : ReadPlayers(m) \/ CreateMatch(m)
         \/ \E p \in Players : UpdatePlayerAfterMatch(p) \/ PassOver(p) \/ ApplyAbandonPenalty(p)
         \/ \E m \in Matches, w \in Winners, quitters \in SUBSET Players : Finish(m, w, quitters)
         \/ \E elo \in [Players -> Nat] : GiveRatings(elo)
         \/ Withdrawal
         \/ UNCHANGED vars
BY StepKinds DEF Quiet

\* No scoreboard is written before its match has ended, nor twice while the
\* match is rated.
Fresh ==
  /\ \A m \in Matches, p \in Players :
       match[m].status # "finished" => line[m][p].change = 0 /\ ~line[m][p].abandoned
  /\ \A m \in Matches, p \in Players : match[m].status = "none" => line[m][p].before = 0
  /\ pc = "update" => \A p \in left : line[cur][p].change = 0

LEMMA FreshNext ==
  ASSUME TypeOK, Course, Fresh, [Next]_vars
  PROVE  Fresh'
<1> USE DEF Fresh
<1>1. CASE Quiet
  BY <1>1, QuietSteps
<1>2. ASSUME NEW m \in Matches, ReadPlayers(m)
      PROVE  Fresh'
  <2>1. UNCHANGED <<match, line>> /\ cur' = m /\ \A p \in Players : line[m][p].change = 0
    BY <1>2 DEF ReadPlayers, AlreadyProcessed, database
  <2>2. left' = Players
    BY <1>2 DEF ReadPlayers
  <2> QED BY <2>1, <2>2
<1>3. ASSUME NEW m \in Matches, CreateMatch(m)
      PROVE  Fresh'
  BY <1>3 DEF CreateMatch, daemon, TypeOK
<1>4. ASSUME NEW p \in Players, UpdatePlayerAfterMatch(p)
      PROVE  Fresh'
  <2>1. pc = "update" /\ p \in left /\ cur \in Matches /\ NextPlayer(p)
        /\ changes[p] \in Int /\ match' = match
        /\ line' = [line EXCEPT ![cur][p].change = changes[p]]
    BY <1>4 DEF UpdatePlayerAfterMatch, TypeOK
  <2>2. Rows
    BY DEF TypeOK, Rows
  <2>3. \A k \in Matches, q \in Players :
          /\ line'[k][q].before = line[k][q].before
          /\ line'[k][q].abandoned = line[k][q].abandoned
          /\ k # cur \/ q # p => line'[k][q].change = line[k][q].change
    BY <2>1, <2>2, WrittenLine
  <2>4. match[cur].status = "finished"
    BY <2>1 DEF Course
  <2>5. pc' = "update" => cur' = cur /\ left' = left \ {p}
    BY <2>1, NextPlayerCases DEF Onward, Upward, Back
  <2>6. left \subseteq Players
    BY DEF TypeOK
  <2> QED BY <2>1, <2>3, <2>4, <2>5, <2>6
<1>5. ASSUME NEW p \in Players, PassOver(p) \/ ApplyAbandonPenalty(p)
      PROVE  Fresh'
  <2>1. match' = match /\ line' = line /\ NextPlayer(p)
    BY <1>5 DEF PassOver, ApplyAbandonPenalty, database
  <2>2. pc' = "update" => pc = "update" /\ cur' = cur /\ left' \subseteq left
    BY <2>1, NextPlayerCases DEF Onward, Upward, Back
  <2> QED BY <2>1, <2>2
<1>6. ASSUME NEW m \in Matches, NEW w \in Winners, NEW quitters \in SUBSET Players,
             Finish(m, w, quitters)
      PROVE  Fresh'
  <2>1. States /\ Rows
    BY DEF TypeOK, States, Rows
  <2>2. /\ match[m].status # "finished" /\ match'[m].status = "finished"
        /\ \A k \in Matches : k # m => match'[k] = match[k]
    BY <1>6, <2>1, FinishedRow DEF Finish
  <2>3. /\ \A k \in Matches : k # m => line'[k] = line[k]
        /\ \A p \in Players : line'[m][p].change = line[m][p].change
    BY <1>6, <2>1, LeftLines DEF Finish
  <2>4. pc = "update" => cur # m /\ cur \in Matches
    BY <2>2 DEF Course, TypeOK
  <2>5. UNCHANGED <<pc, cur, left>>
    BY <1>6 DEF Finish, daemon
  <2>6. left \subseteq Players
    BY DEF TypeOK
  <2> QED BY <2>2, <2>3, <2>4, <2>5, <2>6
<1>7. ASSUME NEW elo \in [Players -> Nat], GiveRatings(elo)
      PROVE  Fresh'
  BY <1>7 DEF GiveRatings, daemon
<1>8. ASSUME NEW m \in Matches, CancelMatch(m) \/ MatchCleanup(m)
      PROVE  Fresh'
  <2>1. /\ UNCHANGED <<line, pc, cur, left>> /\ match[m].status # "none"
        /\ match'[m].status # match[m].status =>
             match[m].status = "live" /\ match'[m].status = "cancelled"
        /\ \A k \in Matches : k # m => match'[k] = match[k]
    BY <1>8, WithdrawnRow
  <2> QED BY <2>1
<1>9. CASE UNCHANGED vars
  BY <1>9 DEF vars, database, daemon
<1> QED BY <1>1, <1>2, <1>3, <1>4, <1>5, <1>6, <1>7, <1>8, <1>9, Steps DEF Withdrawal

-----------------------------------------------------------------------------
(* EloIsSum *)

LEMMA SumNext ==
  ASSUME TypeOK, Course, Fresh, EloIsSum, [Next]_vars
  PROVE  EloIsSum'
<1> DEFINE Row(p) == [m \in Matches |-> line[m][p].change]
<1>1. ASSUME UNCHANGED <<player, base>>,
             \A m \in Matches, p \in Players : line'[m][p].change = line[m][p].change
      PROVE  EloIsSum'
  <2>1. ASSUME NEW p \in Players
        PROVE  Row(p)' = Row(p)
    BY <1>1
  <2>2. \A p \in Players : Won(p)' = Won(p)
    BY <2>1 DEF Won
  <2> QED BY <1>1, <2>2 DEF EloIsSum
<1>2. CASE Quiet
  BY <1>1, <1>2, QuietSteps
<1>3. ASSUME NEW m \in Matches, ReadPlayers(m)
      PROVE  EloIsSum'
  BY <1>1, <1>3 DEF ReadPlayers, database, history
<1>4. ASSUME NEW m \in Matches, CreateMatch(m)
      PROVE  EloIsSum'
  <2>1. \A p \in Players : line[m][p].change = 0
    BY <1>4 DEF CreateMatch, Fresh
  <2>2. \A k \in Matches, p \in Players : line'[k][p].change = line[k][p].change
    BY <1>4, <2>1 DEF CreateMatch, TypeOK
  <2> QED BY <1>1, <1>4, <2>2 DEF CreateMatch, history
<1>5. ASSUME NEW p \in Players, UpdatePlayerAfterMatch(p)
      PROVE  EloIsSum'
  <2>1. /\ pc = "update" /\ p \in left /\ cur \in Matches /\ changes[p] \in Int
        /\ player[p].elo \in Nat /\ player[p].played + 1 \in Nat /\ base[p] \in Int
    BY <1>5 DEF UpdatePlayerAfterMatch, TypeOK
  <2> DEFINE x == player[p].elo + changes[p]
  <2>2. x \in Int /\ Larger(0, x) \in Nat /\ Larger(0, x) = x + Larger(0, -x)
        /\ Larger(0, -x) \in Int
    BY <2>1 DEF Larger
  <2>3. /\ player' = [player EXCEPT ![p].elo = Larger(0, x), ![p].played = player[p].played + 1]
        /\ base' = [base EXCEPT ![p] = base[p] + Larger(0, -x)]
        /\ line' = [line EXCEPT ![cur][p].change = changes[p]]
    BY <1>5 DEF UpdatePlayerAfterMatch
  <2> HIDE DEF x
  <2>4. Rows /\ Counts
    BY DEF TypeOK, Rows, Counts
  <2>5. /\ player'[p].elo = Larger(0, x)
        /\ \A q \in Players : q # p => player'[q] = player[q]
    BY <2>1, <2>2, <2>3, <2>4, RatedRow
  <2>6. /\ line'[cur][p].change = changes[p]
        /\ \A k \in Matches, q \in Players :
             k # cur \/ q # p => line'[k][q].change = line[k][q].change
    <3> HIDE DEF Row
    <3>1. cur \in Matches /\ changes[p] \in Int /\ Rows
          /\ line' = [line EXCEPT ![cur][p].change = changes[p]]
      BY <2>1, <2>3, <2>4
    <3>2. line'[cur][p].change = changes[p]
      BY <3>1 DEF Rows
    <3>3. \A k \in Matches, q \in Players :
            k # cur \/ q # p => line'[k][q].change = line[k][q].change
      BY <3>1, WrittenLine
    <3> QED BY <3>2, <3>3
  <2>7. line[cur][p].change = 0
    BY <2>1 DEF Fresh
  <2>8. Row(p) \in [Matches -> Int]
    BY DEF TypeOK
  <2>9. Won(p)' = Won(p) + changes[p]
    <3>1. Row(p)' = [Row(p) EXCEPT ![cur] = changes[p]]
      BY <2>1, <2>6
    <3>2. Row(p)[cur] = 0
      BY <2>1, <2>7
    <3>3. Won(p) = SumFunction(Row(p)) /\ Won(p)' = SumFunction(Row(p)')
      BY DEF Won
    <3> HIDE DEF Row
    <3>4. SumFunction(Row(p)) \in Int
      BY <2>8, ResultsAssumption, SumType
    <3>5. SumFunction([Row(p) EXCEPT ![cur] = changes[p]])
            = SumFunction(Row(p)) - Row(p)[cur] + changes[p]
      <4>1. IsFiniteSet(Matches) /\ cur \in Matches /\ changes[p] \in Int
            /\ Row(p) \in [Matches -> Int]
        BY <2>1, <2>8, ResultsAssumption
      <4> QED BY <4>1, SumUpdate
    <3> QED BY <2>1, <3>1, <3>2, <3>3, <3>4, <3>5
  <2>10. Won(p) \in Int
    <3> HIDE DEF Row
    <3>1. SumFunction(Row(p)) \in Int
      BY <2>8, ResultsAssumption, SumType
    <3> QED BY <3>1 DEF Won, Row
  <2>11. player'[p].elo = base'[p] + Won(p)'
    <3>1. player[p].elo = base[p] + Won(p)
      BY DEF EloIsSum
    <3>2. base'[p] = base[p] + Larger(0, -x)
      BY <2>3 DEF TypeOK
    <3>3. x = player[p].elo + changes[p]
      BY DEF x
    <3> QED BY <2>1, <2>2, <2>5, <2>9, <2>10, <3>1, <3>2, <3>3
  <2>12. ASSUME NEW q \in Players, q # p
         PROVE  player'[q].elo = base'[q] + Won(q)'
    <3>1. Row(q)' = Row(q)
      BY <2>6, <2>12
    <3>2. Won(q)' = Won(q)
      BY <3>1 DEF Won
    <3>3. player'[q] = player[q] /\ base'[q] = base[q]
      BY <2>3, <2>5, <2>12 DEF TypeOK
    <3> QED BY <3>2, <3>3 DEF EloIsSum
  <2> QED BY <2>11, <2>12 DEF EloIsSum
<1>6. ASSUME NEW p \in Players, PassOver(p)
      PROVE  EloIsSum'
  BY <1>1, <1>6 DEF PassOver, database
<1>7. ASSUME NEW p \in Players, ApplyAbandonPenalty(p)
      PROVE  EloIsSum'
  <2>1. \A q \in Players : player'[q].elo = player[q].elo
    BY <1>7 DEF ApplyAbandonPenalty, TypeOK
  <2>2. line' = line /\ base' = base
    BY <1>7 DEF ApplyAbandonPenalty, history
  <2>3. \A q \in Players : Won(q)' = Won(q)
    BY <2>2 DEF Won
  <2> QED BY <2>1, <2>2, <2>3 DEF EloIsSum
<1>8. ASSUME NEW m \in Matches, NEW w \in Winners, NEW quitters \in SUBSET Players,
             Finish(m, w, quitters)
      PROVE  EloIsSum'
  <2>1. Rows
    BY DEF TypeOK, Rows
  <2>2. \A k \in Matches, p \in Players : line'[k][p].change = line[k][p].change
    BY <1>8, <2>1, LeftLines DEF Finish
  <2> QED BY <1>1, <1>8, <2>2 DEF Finish
<1>9. ASSUME NEW elo \in [Players -> Nat], GiveRatings(elo)
      PROVE  EloIsSum'
  <2>1. \A q \in Players : Won(q)' = Won(q)
    BY <1>9 DEF GiveRatings, Won
  <2>2. ASSUME NEW q \in Players
        PROVE  player'[q].elo = base'[q] + Won(q)
    <3>1. player'[q].elo = elo[q] /\ base'[q] = base[q] + elo[q] - player[q].elo
      BY <1>9 DEF GiveRatings, TypeOK
    <3>2. Won(q) \in Int
      <4>1. Row(q) \in [Matches -> Int]
        BY DEF TypeOK
      <4> HIDE DEF Row
      <4>2. SumFunction(Row(q)) \in Int
        BY <4>1, ResultsAssumption, SumType
      <4> QED BY <4>2 DEF Won, Row
    <3>3. player[q].elo = base[q] + Won(q) /\ base[q] \in Int /\ elo[q] \in Int
      BY DEF EloIsSum, TypeOK
    <3> QED BY <3>1, <3>2, <3>3
  <2> QED BY <2>1, <2>2 DEF EloIsSum
<1>10. ASSUME NEW m \in Matches, CancelMatch(m) \/ MatchCleanup(m)
       PROVE  EloIsSum'
  <2>1. UNCHANGED <<player, base, line>>
    BY <1>10, WithdrawnRow
  <2> QED BY <1>1, <2>1
<1>11. CASE UNCHANGED vars
  BY <1>1, <1>11 DEF vars, database, history
<1> QED
  BY <1>2, <1>3, <1>4, <1>5, <1>6, <1>7, <1>8, <1>9, <1>10, <1>11, Steps DEF Withdrawal

-----------------------------------------------------------------------------
(* AbandonerLoses *)

\* Nor is step 4 going to give an abandoner anything.
Defeats ==
  /\ AbandonerLoses
  /\ pc = "update" => \A p \in Players : line[cur][p].abandoned => changes[p] <= 0

LEMMA DefeatsNext ==
  ASSUME TypeOK, Course, Fresh, Defeats, [Next]_vars
  PROVE  Defeats'
<1> USE DEF Defeats, AbandonerLoses
<1>1. CASE Quiet
  BY <1>1, QuietSteps
<1>2. ASSUME NEW m \in Matches, ReadPlayers(m)
      PROVE  Defeats'
  <2>1. UNCHANGED <<match, line>> /\ cur' = m /\ changes' = EloChanges(m)
    BY <1>2 DEF ReadPlayers, database
  <2>2. Rows /\ Counts /\ match[m].winner \in Winners
    BY DEF TypeOK, Rows, Counts
  <2>3. \A p \in Players : line[m][p].abandoned => EloChanges(m)[p] <= 0
    BY <2>2, AbandonerNeverGains
  <2> QED BY <2>1, <2>3
<1>3. ASSUME NEW m \in Matches, CreateMatch(m)
      PROVE  Defeats'
  BY <1>3 DEF CreateMatch, daemon, TypeOK
<1>4. ASSUME NEW p \in Players, UpdatePlayerAfterMatch(p)
      PROVE  Defeats'
  <2>1. /\ pc = "update" /\ cur \in Matches /\ changes[p] \in Int /\ NextPlayer(p)
        /\ line' = [line EXCEPT ![cur][p].change = changes[p]]
    BY <1>4 DEF UpdatePlayerAfterMatch, TypeOK
  <2>2. Rows
    BY DEF TypeOK, Rows
  <2>3. line'[cur][p].change = changes[p]
    BY <2>1, <2>2 DEF Rows
  <2>4. \A k \in Matches, q \in Players :
          /\ line'[k][q].abandoned = line[k][q].abandoned
          /\ k # cur \/ q # p => line'[k][q].change = line[k][q].change
    BY <2>1, <2>2, WrittenLine
  <2>5. pc' = "update" => cur' = cur /\ changes' = changes
    BY <2>1, NextPlayerCases DEF Onward, Upward, Back
  <2> QED BY <2>1, <2>3, <2>4, <2>5
<1>5. ASSUME NEW p \in Players, PassOver(p) \/ ApplyAbandonPenalty(p)
      PROVE  Defeats'
  <2>1. line' = line /\ NextPlayer(p)
    BY <1>5 DEF PassOver, ApplyAbandonPenalty, database
  <2>2. pc' = "update" => pc = "update" /\ cur' = cur /\ changes' = changes
    BY <2>1, NextPlayerCases DEF Onward, Upward, Back
  <2> QED BY <2>1, <2>2
<1>6. ASSUME NEW m \in Matches, NEW w \in Winners, NEW quitters \in SUBSET Players,
             Finish(m, w, quitters)
      PROVE  Defeats'
  <2>1. Rows /\ match[m].status # "finished"
    BY <1>6 DEF TypeOK, Rows, Finish
  <2>2. /\ \A k \in Matches : k # m => line'[k] = line[k]
        /\ \A p \in Players : line'[m][p].change = line[m][p].change
    BY <1>6, <2>1, LeftLines DEF Finish
  <2>3. \A p \in Players : line[m][p].change = 0
    BY <2>1 DEF Fresh
  <2>4. pc = "update" => cur # m /\ cur \in Matches
    BY <2>1 DEF Course, TypeOK
  <2>5. UNCHANGED <<pc, cur, changes>>
    BY <1>6 DEF Finish, daemon
  <2> QED BY <2>2, <2>3, <2>4, <2>5
<1>7. ASSUME NEW elo \in [Players -> Nat], GiveRatings(elo)
      PROVE  Defeats'
  BY <1>7 DEF GiveRatings, daemon
<1>8. ASSUME NEW m \in Matches, CancelMatch(m) \/ MatchCleanup(m)
      PROVE  Defeats'
  <2>1. UNCHANGED <<line, pc, cur, changes>>
    BY <1>8, WithdrawnRow
  <2> QED BY <2>1
<1>9. CASE UNCHANGED vars
  BY <1>9 DEF vars, database, daemon
<1> QED BY <1>1, <1>2, <1>3, <1>4, <1>5, <1>6, <1>7, <1>8, <1>9, Steps DEF Withdrawal

-----------------------------------------------------------------------------
(* ZeroSum *)

\* Before the first player is written, what step 4 holds is still what the rows
\* of the match say: no administrator changes what the formulas read.
Agreed == pc = "update" /\ left = Players => changes = EloChanges(cur)

LEMMA SameRowsSameChanges ==
  ASSUME NEW m \in Matches, match'[m].winner = match[m].winner, line'[m] = line[m],
         \A p \in Players : player'[p].played = player[p].played
  PROVE  EloChanges(m)' = EloChanges(m)
<1>1. Average(m, Team1)' = Average(m, Team1)
      /\ Average(m, Players \ Team1)' = Average(m, Players \ Team1)
  BY DEF Average
<1>2. \A p \in Players : Expected(m, p)' = Expected(m, p)
  BY <1>1 DEF Expected
<1>3. \A p \in Players : Actual(m, p)' = Actual(m, p)
  BY DEF Actual
<1>4. \A p \in Players : Overridden(m, p)' = Overridden(m, p)
  BY DEF Overridden
<1>5. CalculateMatchResults(m)' = CalculateMatchResults(m)
  BY <1>2, <1>3 DEF CalculateMatchResults
<1> QED BY <1>2, <1>4, <1>5 DEF EloChanges

LEMMA AgreedNext ==
  ASSUME TypeOK, Course, Agreed, [Next]_vars
  PROVE  Agreed'
<1>1. CASE Quiet
  BY <1>1, QuietSteps DEF Agreed
<1>2. ASSUME NEW m \in Matches, ReadPlayers(m)
      PROVE  Agreed'
  <2>1. UNCHANGED <<match, line, player>> /\ cur' = m /\ changes' = EloChanges(m)
    BY <1>2 DEF ReadPlayers, database
  <2>2. EloChanges(m)' = EloChanges(m)
    BY <2>1, SameRowsSameChanges
  <2> QED BY <2>1, <2>2 DEF Agreed
<1>3. ASSUME NEW m \in Matches, CreateMatch(m)
      PROVE  Agreed'
  BY <1>3 DEF CreateMatch, daemon, Agreed
<1>4. ASSUME NEW p \in Players,
             UpdatePlayerAfterMatch(p) \/ PassOver(p) \/ ApplyAbandonPenalty(p)
      PROVE  Agreed'
  <2>1. NextPlayer(p) /\ p \in left
    BY <1>4 DEF UpdatePlayerAfterMatch, PassOver, ApplyAbandonPenalty
  <2>2. pc' = "update" => p \notin left'
    BY <2>1, NextPlayerCases DEF Onward, Upward, Back
  <2> QED BY <2>2 DEF Agreed
<1>5. ASSUME NEW m \in Matches, NEW w \in Winners, NEW quitters \in SUBSET Players,
             Finish(m, w, quitters), pc = "update"
      PROVE  Agreed'
  <2>1. Rows /\ States /\ match[m].status # "finished"
    BY <1>5 DEF TypeOK, Rows, States, Finish
  <2>2. cur # m /\ cur \in Matches
    BY <1>5, <2>1 DEF Course, TypeOK
  <2>3. line'[cur] = line[cur]
    BY <1>5, <2>1, <2>2, LeftLines DEF Finish
  <2>4. match'[cur] = match[cur]
    BY <1>5, <2>1, <2>2, FinishedRow DEF Finish
  <2>5. UNCHANGED <<player, pc, cur, left, changes>>
    BY <1>5 DEF Finish, daemon
  <2>6. PICK k \in Matches : k = cur
    BY <2>2
  <2>7. EloChanges(k)' = EloChanges(k)
    BY <2>3, <2>4, <2>5, <2>6, SameRowsSameChanges
  <2> QED BY <1>5, <2>5, <2>6, <2>7 DEF Agreed
<1>6. ASSUME NEW elo \in [Players -> Nat], GiveRatings(elo), pc = "update"
      PROVE  Agreed'
  <2>1. PICK k \in Matches : k = cur
    BY <1>6 DEF TypeOK
  <2>2. UNCHANGED <<match, line, pc, cur, left, changes>>
    BY <1>6 DEF GiveRatings, daemon
  <2>3. \A p \in Players : player'[p].played = player[p].played
    BY <1>6 DEF GiveRatings, TypeOK
  <2>4. EloChanges(k)' = EloChanges(k)
    BY <2>2, <2>3, SameRowsSameChanges
  <2> QED BY <1>6, <2>1, <2>2, <2>4 DEF Agreed
<1>7. ASSUME UNCHANGED vars, pc = "update"
      PROVE  Agreed'
  <2>1. PICK k \in Matches : k = cur
    BY <1>7 DEF TypeOK
  <2>2. UNCHANGED <<player, match, line, pc, cur, left, changes>>
    BY <1>7 DEF vars, database, daemon
  <2>3. EloChanges(k)' = EloChanges(k)
    BY <2>2, SameRowsSameChanges
  <2> QED BY <1>7, <2>1, <2>2, <2>3 DEF Agreed
<1>8. ASSUME NEW m \in Matches, CancelMatch(m) \/ MatchCleanup(m)
      PROVE  Agreed'
  <2>1. /\ UNCHANGED <<player, line, pc, cur, left, changes>>
        /\ \A k \in Matches : match'[k].winner = match[k].winner
    BY <1>8, WithdrawnRow
  <2>2. CASE pc = "update"
    <3>1. PICK k \in Matches : k = cur
      BY <2>2 DEF TypeOK
    <3>2. EloChanges(k)' = EloChanges(k)
      BY <2>1, SameRowsSameChanges
    <3> QED BY <2>1, <2>2, <3>1, <3>2 DEF Agreed
  <2>3. CASE pc # "update"
    BY <2>1, <2>3 DEF Agreed
  <2> QED BY <2>2, <2>3
<1>9. ASSUME pc # "update",
             \/ \E m \in Matches, w \in Winners, quitters \in SUBSET Players : Finish(m, w, quitters)
             \/ \E elo \in [Players -> Nat] : GiveRatings(elo)
             \/ UNCHANGED vars
      PROVE  Agreed'
  BY <1>9 DEF Agreed, Finish, GiveRatings, vars, daemon
<1> QED BY <1>1, <1>2, <1>3, <1>4, <1>5, <1>6, <1>7, <1>8, <1>9, Steps DEF Withdrawal

LEMMA AgreedIsZeroSum ==
  ASSUME TypeOK, Agreed
  PROVE  ZeroSum
<1> SUFFICES ASSUME pc = "update", left = Players,
                    \A p, q \in Players : KFactor(player[p].played) = KFactor(player[q].played),
                    \A p \in Players : ~line[cur][p].abandoned,
                    2 * Cardinality(Team1) = Cardinality(Players)
             PROVE  SumFunction(changes) = 0
  BY DEF ZeroSum
<1>1. IsFiniteSet(Players) /\ IsFiniteSet(Team1) /\ Team1 \in SUBSET Players
  BY ResultsAssumption, FS_Subset
<1>2. changes = EloChanges(cur) /\ cur \in Matches
  BY DEF Agreed, TypeOK
<1>3. changes = CalculateMatchResults(cur)
  <2>1. \A p \in Players : ~Overridden(cur, p)
    BY DEF Overridden
  <2> QED BY <1>2, <2>1 DEF EloChanges, CalculateMatchResults
<1>4. CASE Players = {}
  <2>1. changes = [x \in {} |-> 0]
    BY <1>3, <1>4 DEF CalculateMatchResults
  <2> QED BY <1>1, <1>4, <2>1, SumZero
<1>5. CASE Players # {}
  <2>1. Team1 # {} /\ Team1 # Players
    <3> DEFINE n == Cardinality(Players)
    <3>1. n \in Nat /\ n # 0
      BY <1>1, <1>5, FS_CardinalityType, FS_EmptySet
    <3>2. Cardinality({}) = 0
      BY FS_EmptySet
    <3>3. Team1 = {} => n = 0
      BY <3>1, <3>2
    <3>4. Team1 = Players => 2 * n = n
      OBVIOUS
    <3> HIDE DEF n
    <3> QED BY <3>1, <3>3, <3>4
  <2>2. PICK o \in Players : TRUE
    BY <1>5
  <2> DEFINE k == KFactor(player[o].played)
             e == ExpectedScore(Average(cur, Team1), Average(cur, Players \ Team1))
             a == IF match[cur].winner = "team1" THEN 1000
                  ELSE IF match[cur].winner = "tie" THEN 500 ELSE 0
             c == Rounded(k * (a - e))
  <2>3. k \in {24, 32, 64}
    BY KFactorValues DEF TypeOK
  <2>4. /\ e \in Int
        /\ ExpectedScore(Average(cur, Players \ Team1), Average(cur, Team1)) = 1000 - e
    <3>1. Rows
      BY DEF TypeOK, Rows
    <3>2. Average(cur, Team1) \in Int /\ Average(cur, Players \ Team1) \in Int
      BY <1>1, <1>2, <3>1, AverageType
    <3>3. e \in 0..1000
      BY <3>2, ExpectedBounds
    <3> QED BY <3>2, <3>3, ExpectedSymmetric
  <2>5. match[cur].winner \in Winners
    BY <1>2 DEF TypeOK
  <2>6. a \in Int
    OBVIOUS
  <2>7. ASSUME NEW p \in Players
        PROVE  changes[p] = IF p \in Team1 THEN c ELSE -c
    <3>1. changes[p] = Rounded(k * (Actual(cur, p) - Expected(cur, p)))
      <4>1. KFactor(player[p].played) = k
        BY <2>2
      <4> QED BY <1>3, <2>1, <4>1 DEF CalculateMatchResults
    <3>2. CASE p \in Team1
      <4>1. Actual(cur, p) = a /\ Expected(cur, p) = e
        BY <3>2 DEF Actual, Expected, Team
      <4> QED BY <3>1, <3>2, <4>1
    <3>3. CASE p \notin Team1
      <4>1. Actual(cur, p) = 1000 - a
        BY <2>5, <3>3 DEF Actual, Team, Winners
      <4>2. Expected(cur, p) = 1000 - e
        BY <2>4, <3>3 DEF Expected
      <4> HIDE DEF k, e, a
      <4>3. k * (a - e) \in Int
        BY <2>3, <2>4, <2>6
      <4>4. k * ((1000 - a) - (1000 - e)) = -(k * (a - e))
        BY <2>3, <2>4, <2>6
      <4>5. Rounded(-(k * (a - e))) = -c
        BY <4>3, RoundedSymmetric
      <4> QED BY <3>1, <3>3, <4>1, <4>2, <4>4, <4>5
    <3> QED BY <3>2, <3>3
  <2>8. changes = [p \in Players |-> IF p \in Team1 THEN c ELSE -c]
    <3> HIDE DEF c
    <3> QED BY <2>7 DEF TypeOK
  <2>9. c \in Int
    <3> HIDE DEF k, e, a
    <3>1. k * (a - e) \in Int
      BY <2>3, <2>4, <2>6
    <3> QED BY <3>1, RoundedType
  <2> HIDE DEF c
  <2> QED BY <1>1, <2>8, <2>9, HalvesCancel
<1> QED BY <1>4, <1>5

-----------------------------------------------------------------------------
(* ClosedIsRated *)

\* The matches of which the lists themselves say that step 4 is through with
\* them.  What is late, finished while step 5 runs, or withdrawn is not among them.
Settled(m) ==
  /\ m \notin late \cup withdrawn /\ match[m].status = "finished" /\ m # cur
  /\ \/ match[m].cleaned
     \/ pc \in {"next", "update", "ban"} /\ m \notin todo
     \/ pc = "clean" /\ m \in todo
     \/ AlreadyProcessed(m)

\* The matches p has been rated for, and those he has been fined for.
Rated(p) ==
  {m \in Matches :
     \/ Settled(m)
     \/ /\ m = cur /\ m \notin late \cup withdrawn
        /\ pc = "ban" \/ (pc = "update" /\ p \notin left)}
Fined(p) ==
  {m \in Matches :
     \/ Settled(m)
     \/ m = cur /\ m \notin late \cup withdrawn /\ pc = "ban" /\ p \notin left}

Counted ==
  faults = 0 => \A p \in Players :
    /\ player[p].played >= Cardinality(Rated(p))
    /\ \A m \in Fined(p) : line[m][p].abandoned => player[p].offences > 0

LEMMA Growth ==
  ASSUME NEW S \in SUBSET Matches, NEW T \in SUBSET Matches, NEW m \in Matches
  PROVE  /\ Cardinality(S) \in Nat /\ Cardinality(T) \in Nat
         /\ T \subseteq S => Cardinality(T) <= Cardinality(S)
         /\ T \subseteq S \cup {m} => Cardinality(T) <= Cardinality(S) + 1
         /\ m \notin S /\ S \cup {m} \subseteq T => Cardinality(S) + 1 <= Cardinality(T)
<1>1. IsFiniteSet(S) /\ IsFiniteSet(T) /\ IsFiniteSet(S \cup {m})
  BY ResultsAssumption, FS_Subset
<1>2. /\ Cardinality(S) \in Nat /\ Cardinality(T) \in Nat
      /\ Cardinality(S \cup {m}) = IF m \in S THEN Cardinality(S) ELSE Cardinality(S) + 1
  BY <1>1, FS_CardinalityType, FS_AddElement
<1>3. T \subseteq S => Cardinality(T) <= Cardinality(S)
  BY <1>1, FS_Subset
<1>4. T \subseteq S \cup {m} => Cardinality(T) <= Cardinality(S \cup {m})
  BY <1>1, FS_Subset
<1>5. S \cup {m} \subseteq T => Cardinality(S \cup {m}) <= Cardinality(T)
  BY <1>1, FS_Subset
<1> DEFINE s == Cardinality(S)
           t == Cardinality(T)
           u == Cardinality(S \cup {m})
<1> HIDE DEF s, t, u
<1>6. s \in Nat /\ t \in Nat /\ u = IF m \in S THEN s ELSE s + 1
  BY <1>2 DEF s, t, u
<1>7. /\ T \subseteq S => t <= s
      /\ T \subseteq S \cup {m} => t <= u
      /\ S \cup {m} \subseteq T => u <= t
  BY <1>3, <1>4, <1>5 DEF s, t, u
<1>8. /\ T \subseteq S \cup {m} => t <= s + 1
      /\ m \notin S /\ S \cup {m} \subseteq T => s + 1 <= t
  BY <1>6, <1>7
<1> QED BY <1>6, <1>7, <1>8 DEF s, t

\* Without a fault, nothing but the loops over the players settles a match.
LEMMA SettledBefore ==
  ASSUME TypeOK, Course, Fresh, faults' = 0, [Next]_vars,
         ~ \E p \in Players : UpdatePlayerAfterMatch(p) \/ ApplyAbandonPenalty(p)
  PROVE  \A p \in Players, m \in Matches :
           /\ m \in Rated(p)' => m \in Rated(p)
           /\ m \in Fined(p)' => m \in Fined(p) /\ line'[m][p].abandoned = line[m][p].abandoned
<1> DEFINE Goal == \A p \in Players, m \in Matches :
             /\ m \in Rated(p)' => m \in Rated(p)
             /\ m \in Fined(p)' => m \in Fined(p) /\ line'[m][p].abandoned = line[m][p].abandoned
<1> USE DEF Rated, Fined, Settled
<1>1. ~ \E p \in Players : PassOver(p)
  BY DEF PassOver, Fault, TypeOK
<1>2. ~SelectFails /\ ~CleanupFails /\ ~Crash
  BY DEF SelectFails, CleanupFails, Crash, Fault, TypeOK
<1>3. CASE SelectFinished
  BY <1>3 DEF SelectFinished, Goto, Open, AlreadyProcessed, database, history
<1>4. CASE ReadEnded
  BY <1>4 DEF ReadEnded, CloseLoop, Goto, Ended, AlreadyProcessed, database, history
<1>5. ASSUME NEW k \in Matches, SkipProcessed(k)
      PROVE  Goal
  BY <1>5 DEF SkipProcessed, AlreadyProcessed, Course, database, history
<1>6. ASSUME NEW k \in Matches, ReadPlayers(k)
      PROVE  Goal
  <2>1. /\ UNCHANGED <<match, line, late, withdrawn>> /\ todo' = todo \ {k} /\ cur' = k
        /\ pc = "next" /\ pc' = "update" /\ left' = Players
    BY <1>6 DEF ReadPlayers, Goto, database, history
  <2>2. cur = NoMatch /\ NoMatch \notin Matches
    BY <2>1, ResultsAssumption DEF Course
  <2> QED BY <2>1, <2>2 DEF AlreadyProcessed
<1>7. ASSUME NEW k \in Matches, MarkMatchCleaned(k) \/ DestroyRefused(k)
      PROVE  Goal
  <2>1. /\ UNCHANGED <<line, late, withdrawn, cur, left>> /\ pc = "clean" /\ k \in todo
        /\ todo' = todo \ {k} /\ pc' \in {"idle", "clean"}
    BY <1>7 DEF MarkMatchCleaned, DestroyRefused, CloseLoop, Goto, history
  <2>2. \A m \in Matches : m # k => match'[m] = match[m]
    BY <1>7 DEF MarkMatchCleaned, DestroyRefused, TypeOK
  <2>3. /\ k \notin withdrawn => match[k].status = "finished"
        /\ cur = NoMatch /\ NoMatch \notin Matches
    BY <2>1, ResultsAssumption DEF Course
  <2> QED BY <2>1, <2>2, <2>3 DEF AlreadyProcessed
<1>8. ASSUME NEW k \in Matches, CreateMatch(k)
      PROVE  Goal
  <2>1. /\ UNCHANGED <<daemon, late, withdrawn>> /\ match'[k].status = "live"
        /\ \A m \in Matches : m # k => match'[m] = match[m] /\ line'[m] = line[m]
    BY <1>8 DEF CreateMatch, history, TypeOK
  <2> QED BY <1>8, <2>1 DEF CreateMatch, AlreadyProcessed, daemon
<1>9. ASSUME NEW k \in Matches, NEW w \in Winners, NEW quitters \in SUBSET Players,
             Finish(k, w, quitters)
      PROVE  Goal
  <2>1. Rows /\ States /\ match[k].status \in {"live", "cancelled"}
    BY <1>9 DEF TypeOK, Rows, States, Finish
  <2>2. /\ match'[k].cleaned = match[k].cleaned
        /\ \A m \in Matches : m # k => match'[m] = match[m]
    BY <1>9, <2>1, FinishedRow DEF Finish
  <2>3. /\ \A m \in Matches : m # k => line'[m] = line[m]
        /\ \A p \in Players : line'[k][p].change = line[k][p].change
    BY <1>9, <2>1, LeftLines DEF Finish
  <2>4. UNCHANGED <<pc, todo, cur, left, withdrawn>>
        /\ late' = IF pc \in {"next", "update", "ban"} THEN late \cup {k} ELSE late
    BY <1>9 DEF Finish, daemon
  <2>5. /\ k \notin withdrawn => ~match[k].cleaned /\ k \notin todo
        /\ cur = k => pc \notin {"update", "ban"}
        /\ \A p \in Players : line[k][p].change = 0
    BY <2>1 DEF Course, Fresh, TypeOK
  <2>6. cur # k
    BY <2>5, ResultsAssumption DEF Course
  <2> QED BY <2>2, <2>3, <2>4, <2>5, <2>6 DEF AlreadyProcessed
<1>10. ASSUME NEW elo \in [Players -> Nat], GiveRatings(elo)
       PROVE  Goal
  BY <1>10 DEF GiveRatings, AlreadyProcessed, daemon
<1>11. ASSUME NEW k \in Matches, CancelMatch(k) \/ MatchCleanup(k)
       PROVE  Goal
  <2>1. /\ UNCHANGED <<line, pc, todo, cur, left, late>> /\ withdrawn' = withdrawn \cup {k}
        /\ \A m \in Matches : m # k => match'[m] = match[m]
    BY <1>11, WithdrawnRow
  <2> QED BY <2>1 DEF AlreadyProcessed
<1>12. CASE UNCHANGED vars
  BY <1>12 DEF vars, database, daemon, history, AlreadyProcessed
<1> QED
  BY <1>1, <1>2, <1>3, <1>4, <1>5, <1>6, <1>7, <1>8, <1>9, <1>10, <1>11, <1>12, Steps
     DEF Quiet, Withdrawal

LEMMA CountedNext ==
  ASSUME TypeOK, Course, Fresh, Counted, [Next]_vars
  PROVE  Counted'
<1> SUFFICES ASSUME faults' = 0
             PROVE  \A p \in Players :
                      /\ player'[p].played >= Cardinality(Rated(p)')
                      /\ \A m \in Fined(p)' : line'[m][p].abandoned => player'[p].offences > 0
  BY DEF Counted
<1>1. \A p \in Players : /\ Rated(p) \in SUBSET Matches /\ Rated(p)' \in SUBSET Matches
                         /\ Fined(p)' \subseteq Matches
  BY DEF Rated, Fined
<1>2. CASE ~ \E p \in Players : UpdatePlayerAfterMatch(p) \/ ApplyAbandonPenalty(p)
  <2> SUFFICES ASSUME NEW p \in Players
               PROVE  /\ player'[p].played >= Cardinality(Rated(p)')
                      /\ \A m \in Fined(p)' : line'[m][p].abandoned => player'[p].offences > 0
    OBVIOUS
  <2>1. faults = 0 /\ player'[p].played = player[p].played
        /\ player'[p].offences = player[p].offences
    <3>1. ~ \E q \in Players : PassOver(q)
      BY DEF PassOver, Fault, TypeOK
    <3>2. ~SelectFails /\ ~CleanupFails /\ ~Crash
      BY DEF SelectFails, CleanupFails, Crash, Fault, TypeOK
    <3>3. CASE Quiet
      BY <3>2, <3>3 DEF Quiet, SelectFinished, ReadEnded, SkipProcessed, MarkMatchCleaned,
                        DestroyRefused, database, history
    <3>4. CASE \E m \in Matches : ReadPlayers(m) \/ CreateMatch(m)
      BY <3>4 DEF ReadPlayers, CreateMatch, database, history
    <3>5. CASE \E m \in Matches, w \in Winners, quitters \in SUBSET Players : Finish(m, w, quitters)
      BY <3>5 DEF Finish
    <3>6. CASE \E elo \in [Players -> Nat] : GiveRatings(elo)
      BY <3>6 DEF GiveRatings, TypeOK
    <3>7. ASSUME NEW m \in Matches, CancelMatch(m) \/ MatchCleanup(m)
          PROVE  faults = 0 /\ UNCHANGED player
      BY <3>7, WithdrawnRow
    <3>8. CASE UNCHANGED vars
      BY <3>8 DEF vars, database, history
    <3> QED BY <1>2, <3>1, <3>3, <3>4, <3>5, <3>6, <3>7, <3>8, Steps DEF Withdrawal
  <2>2. /\ \A m \in Matches : m \in Rated(p)' => m \in Rated(p)
        /\ \A m \in Matches : m \in Fined(p)' =>
             m \in Fined(p) /\ line'[m][p].abandoned = line[m][p].abandoned
    BY <1>2, SettledBefore
  <2>3. Rated(p)' \subseteq Rated(p)
    BY <1>1, <2>2
  <2>4. Cardinality(Rated(p)') <= Cardinality(Rated(p))
        /\ Cardinality(Rated(p)') \in Nat /\ Cardinality(Rated(p)) \in Nat
    <3>1. CASE Matches = {}
      <4>1. Rated(p)' = Rated(p) BY <1>1, <3>1
      <4>2. IsFiniteSet(Rated(p)) BY <1>1, ResultsAssumption, FS_Subset
      <4>3. Cardinality(Rated(p)) \in Nat BY <4>2, FS_CardinalityType
      <4> QED BY <4>1, <4>3
    <3>2. CASE Matches # {}
      <4>1. PICK m \in Matches : TRUE BY <3>2
      <4> QED BY <1>1, <2>3, <4>1, Growth
    <3> QED BY <3>1, <3>2
  <2>5. player[p].played >= Cardinality(Rated(p)) /\ player[p].played \in Nat
    BY <2>1 DEF Counted, TypeOK
  <2>6. player'[p].played >= Cardinality(Rated(p)')
    BY <2>1, <2>4, <2>5
  <2> QED BY <1>1, <2>1, <2>2, <2>6 DEF Counted
<1>3. ASSUME NEW p \in Players, UpdatePlayerAfterMatch(p)
      PROVE  \A q \in Players :
               /\ player'[q].played >= Cardinality(Rated(q)')
               /\ \A m \in Fined(q)' : line'[m][q].abandoned => player'[q].offences > 0
  <2>1. /\ pc = "update" /\ p \in left /\ cur \in Matches /\ changes[p] \in Int
        /\ NextPlayer(p) /\ faults = 0 /\ UNCHANGED <<match, todo, late, withdrawn>>
        /\ player' = [player EXCEPT ![p].elo = Larger(0, player[p].elo + changes[p]),
                                    ![p].played = player[p].played + 1]
        /\ line' = [line EXCEPT ![cur][p].change = changes[p]]
    BY <1>3 DEF UpdatePlayerAfterMatch, TypeOK
  <2>2. /\ player'[p].played = player[p].played + 1
        /\ \A q \in Players : q # p => player'[q].played = player[q].played
        /\ \A q \in Players : player'[q].offences = player[q].offences
    BY <2>1 DEF TypeOK
  <2>3. \A m \in Matches, q \in Players :
          /\ line'[m][q].abandoned = line[m][q].abandoned
          /\ m # cur => line'[m][q].change = line[m][q].change
    <3>1. Rows BY DEF TypeOK, Rows
    <3> QED BY <2>1, <3>1, WrittenLine
  <2>4. /\ match[cur].status = "finished" /\ cur \notin todo /\ NoMatch \notin Matches
        /\ left \subseteq Players
    BY <2>1, ResultsAssumption DEF Course, TypeOK
  <2>5. \A m \in Matches : m # cur => (AlreadyProcessed(m)' <=> AlreadyProcessed(m))
    BY <2>3 DEF AlreadyProcessed
  <2>6. ASSUME NEW q \in Players, NEW m \in Matches
        PROVE  /\ m \in Rated(q)' => m \in Rated(q) \/ (q = p /\ m = cur)
               /\ m \in Fined(q)' => m \in Fined(q) \/ (m = cur /\ ~line[m][q].abandoned)
    <3>1. CASE Onward(p)
      BY <2>1, <2>4, <2>5, <3>1 DEF Onward, Rated, Fined, Settled
    <3>2. CASE Upward(p)
      BY <2>1, <2>4, <2>5, <3>2 DEF Upward, Rated, Fined, Settled
    <3>3. CASE Back(p)
      BY <2>1, <2>4, <2>5, <3>3 DEF Back, Rated, Fined, Settled
    <3> QED BY <2>1, <3>1, <3>2, <3>3, NextPlayerCases
  <2>7. cur \notin Rated(p)
    BY <2>1 DEF Rated, Settled
  <2>8. ASSUME NEW q \in Players
        PROVE  player'[q].played >= Cardinality(Rated(q)')
    <3>1. player[q].played >= Cardinality(Rated(q)) /\ player[q].played \in Nat
      BY <2>1 DEF Counted, TypeOK
    <3>2. CASE q = p
      <4>1. Rated(p)' \subseteq Rated(p) \cup {cur}
        BY <1>1, <2>6
      <4>2. Cardinality(Rated(p)') <= Cardinality(Rated(p)) + 1
            /\ Cardinality(Rated(p)') \in Nat /\ Cardinality(Rated(p)) \in Nat
        BY <1>1, <2>1, <4>1, Growth
      <4> QED BY <2>2, <3>1, <3>2, <4>2
    <3>3. CASE q # p
      <4>1. Rated(q)' \subseteq Rated(q)
        BY <1>1, <2>6, <3>3
      <4>2. Cardinality(Rated(q)') <= Cardinality(Rated(q))
            /\ Cardinality(Rated(q)') \in Nat /\ Cardinality(Rated(q)) \in Nat
        BY <1>1, <2>1, <4>1, Growth
      <4> QED BY <2>2, <3>1, <3>3, <4>2
    <3> QED BY <3>2, <3>3
  <2>9. ASSUME NEW q \in Players, NEW m \in Fined(q)', line'[m][q].abandoned
        PROVE  player'[q].offences > 0
    <3>1. m \in Matches
      BY <1>1
    <3>2. line[m][q].abandoned
      BY <2>3, <2>9, <3>1
    <3>3. m \in Fined(q)
      BY <2>6, <3>1, <3>2
    <3>4. player[q].offences > 0
      BY <2>1, <3>2, <3>3 DEF Counted
    <3> QED BY <2>2, <3>4
  <2> QED BY <2>8, <2>9
<1>4. ASSUME NEW p \in Players, ApplyAbandonPenalty(p)
      PROVE  \A q \in Players :
               /\ player'[q].played >= Cardinality(Rated(q)')
               /\ \A m \in Fined(q)' : line'[m][q].abandoned => player'[q].offences > 0
  <2>1. /\ pc = "ban" /\ p \in left /\ cur \in Matches
        /\ NextPlayer(p) /\ faults = 0 /\ UNCHANGED <<match, line, todo, late, withdrawn>>
    BY <1>4 DEF ApplyAbandonPenalty, history, TypeOK
  <2>2. /\ player'[p].offences > 0
        /\ \A q \in Players : player'[q].played = player[q].played
        /\ \A q \in Players : q # p => player'[q].offences = player[q].offences
    <3>1. PICK forgiven \in {0, Smaller(1, player[p].offences)} :
            player' = [player EXCEPT ![p].offences = player[p].offences - forgiven + 1]
      BY <1>4 DEF ApplyAbandonPenalty
    <3>2. player[p].offences - forgiven + 1 > 0
      BY DEF Smaller, TypeOK
    <3> QED BY <3>1, <3>2 DEF TypeOK
  <2>3. /\ match[cur].status = "finished" /\ cur \notin todo /\ NoMatch \notin Matches
        /\ left \subseteq Players
    BY <2>1, ResultsAssumption DEF Course, TypeOK
  <2>4. ASSUME NEW q \in Players, NEW m \in Matches
        PROVE  /\ m \in Rated(q)' => m \in Rated(q)
               /\ m \in Fined(q)' => m \in Fined(q) \/ q = p
    <3>1. CASE Onward(p)
      BY <2>1, <2>3, <3>1 DEF Onward, Rated, Fined, Settled, AlreadyProcessed
    <3>2. CASE Back(p)
      BY <2>1, <2>3, <3>2 DEF Back, Rated, Fined, Settled, AlreadyProcessed
    <3> QED BY <2>1, <3>1, <3>2, NextPlayerCases DEF Upward
  <2>5. ASSUME NEW q \in Players
        PROVE  player'[q].played >= Cardinality(Rated(q)')
    <3>1. player[q].played >= Cardinality(Rated(q)) /\ player[q].played \in Nat
      BY <2>1 DEF Counted, TypeOK
    <3>2. Rated(q)' \subseteq Rated(q)
      BY <1>1, <2>4
    <3>3. Cardinality(Rated(q)') <= Cardinality(Rated(q))
          /\ Cardinality(Rated(q)') \in Nat /\ Cardinality(Rated(q)) \in Nat
      BY <1>1, <2>1, <3>2, Growth
    <3> QED BY <2>2, <3>1, <3>3
  <2>6. ASSUME NEW q \in Players, NEW m \in Fined(q)', line'[m][q].abandoned
        PROVE  player'[q].offences > 0
    BY <1>1, <2>1, <2>2, <2>4, <2>6 DEF Counted
  <2> QED BY <2>5, <2>6
<1> QED BY <1>2, <1>3, <1>4

\* What is closed and neither late nor withdrawn is settled.
LEMMA CountedIsClosedIsRated ==
  ASSUME TypeOK, Course, Counted
  PROVE  ClosedIsRated
<1> SUFFICES ASSUME faults = 0, NEW p \in Players
             PROVE  LET closed == {m \in Matches \ (late \cup withdrawn) : match[m].cleaned} IN
                      /\ player[p].played >= Cardinality(closed)
                      /\ (\E m \in closed : line[m][p].abandoned) => player[p].offences > 0
  BY DEF ClosedIsRated
<1> DEFINE closed == {m \in Matches \ (late \cup withdrawn) : match[m].cleaned}
<1>1. \A m \in closed : m \in Rated(p) /\ m \in Fined(p)
  <2> SUFFICES ASSUME NEW m \in closed
               PROVE  m \in Rated(p) /\ m \in Fined(p)
    OBVIOUS
  <2>1. match[m].status = "finished"
    BY DEF Course
  <2>2. m # cur
    BY ResultsAssumption DEF Course
  <2> QED BY <2>1, <2>2 DEF Rated, Fined, Settled
<1>2. player[p].played >= Cardinality(Rated(p)) /\ player[p].played \in Nat
  BY DEF Counted, TypeOK
<1>3. \A m \in Fined(p) : line[m][p].abandoned => player[p].offences > 0
  BY DEF Counted
<1>4. IsFiniteSet(Rated(p))
  <2>1. Rated(p) \subseteq Matches
    BY DEF Rated
  <2> QED BY <2>1, ResultsAssumption, FS_Subset
<1>5. IsFiniteSet(closed) /\ Cardinality(closed) <= Cardinality(Rated(p))
  <2>1. closed \subseteq Rated(p)
    BY <1>1
  <2> HIDE DEF closed
  <2> QED BY <2>1, <1>4, FS_Subset
<1>6. Cardinality(closed) \in Nat /\ Cardinality(Rated(p)) \in Nat
  <2> HIDE DEF closed
  <2> QED BY <1>4, <1>5, FS_CardinalityType
<1> DEFINE n == Cardinality(closed)
           r == Cardinality(Rated(p))
<1>7. player[p].played >= n
  <2> HIDE DEF n, r
  <2>1. n <= r /\ n \in Nat /\ r \in Nat /\ player[p].played >= r
    BY <1>2, <1>5, <1>6 DEF n, r
  <2> QED BY <2>1, <1>2
<1> QED BY <1>1, <1>3, <1>7

-----------------------------------------------------------------------------
(* PunishedOnce *)

AllNear == \A m \in Matches : Near(m)

\* The matches p left and step 4 will not rate, nor fine him for, any more: a
\* rating of theirs has moved.
Marked(p) ==
  {m \in Matches : /\ line[m][p].abandoned /\ AlreadyProcessed(m)
                   /\ m = cur => pc = "ban" /\ p \notin left}

\* While near teams are rated without a fault, the ratings of the abandoners are
\* going to move before the first penalty is written.
Doomed ==
  faults = 0 /\ AllNear =>
    /\ pc = "update" => \A q \in Players : line[cur][q].abandoned =>
         changes[q] < 0 /\ (q \notin left => line[cur][q].change < 0)
    /\ pc = "ban" => \A q \in Players :
         /\ line[cur][q].abandoned => line[cur][q].change < 0
         /\ q \in left => line[cur][q].abandoned

FinedOnce ==
  faults = 0 /\ AllNear =>
    \A p \in Players : player[p].offences <= Cardinality(Marked(p))

BothTeams == Team1 # {} /\ Team1 # Players

\* A match that is created only now was near before: its lines were empty.
LEMMA NearBefore ==
  ASSUME TypeOK, Fresh, [Next]_vars, AllNear'
  PROVE  AllNear
<1> SUFFICES ASSUME NEW m \in Matches
             PROVE  Near(m)
  BY DEF AllNear
<1>1. Near(m)'
  BY DEF AllNear
<1>2. CASE \A p \in Players : line'[m][p].before = line[m][p].before
  <2>1. Average(m, Team1)' = Average(m, Team1)
        /\ Average(m, Players \ Team1)' = Average(m, Players \ Team1)
    <3>1. [p \in Team1 |-> line[m][p].before]' = [p \in Team1 |-> line[m][p].before]
      BY <1>2, ResultsAssumption
    <3>2. [p \in Players \ Team1 |-> line[m][p].before]'
            = [p \in Players \ Team1 |-> line[m][p].before]
      BY <1>2
    <3> QED BY <3>1, <3>2 DEF Average
  <2> QED BY <1>1, <2>1 DEF Near
<1>3. CASE \A p \in Players : line[m][p].before = 0
  <2>1. ASSUME NEW team \in SUBSET Players
        PROVE  Average(m, team) = 0
    <3>1. IsFiniteSet(team)
      BY ResultsAssumption, FS_Subset
    <3>2. [p \in team |-> line[m][p].before] = [p \in team |-> 0]
      BY <1>3
    <3>3. SumFunction([p \in team |-> line[m][p].before]) = 0
      BY <3>1, <3>2, SumZero
    <3>4. team # {} => Cardinality(team) \in Nat \ {0}
      BY <3>1, FS_CardinalityType, FS_EmptySet
    <3>5. CASE team # {}
      <4>1. Average(m, team) = 0 \div Cardinality(team)
        BY <3>3, <3>5 DEF Average
      <4> DEFINE n == Cardinality(team)
      <4>2. n \in Nat \ {0}
        BY <3>4, <3>5
      <4> HIDE DEF n
      <4>3. 0 \div n = 0
        BY <4>2
      <4> QED BY <4>1, <4>3 DEF n
    <3> QED BY <3>5 DEF Average
  <2>2. Average(m, Team1) = 0 /\ Average(m, Players \ Team1) = 0
    BY <2>1, ResultsAssumption
  <2> QED BY <2>2 DEF Near
<1>4. \/ \A p \in Players : line'[m][p].before = line[m][p].before
      \/ \A p \in Players : line[m][p].before = 0
  <2>1. Rows /\ States
    BY DEF TypeOK, Rows, States
  <2>2. CASE Quiet
    BY <2>2, QuietSteps
  <2>3. ASSUME NEW k \in Matches, ReadPlayers(k) \/ CreateMatch(k)
        PROVE  \/ \A q \in Players : line'[m][q].before = line[m][q].before
               \/ \A q \in Players : line[m][q].before = 0
    BY <2>1, <2>3 DEF ReadPlayers, CreateMatch, Fresh, database, Rows
  <2>4. ASSUME NEW p \in Players,
               UpdatePlayerAfterMatch(p) \/ PassOver(p) \/ ApplyAbandonPenalty(p)
        PROVE  \/ \A q \in Players : line'[m][q].before = line[m][q].before
               \/ \A q \in Players : line[m][q].before = 0
    <3>1. CASE UpdatePlayerAfterMatch(p)
      <4>1. cur \in Matches /\ changes[p] \in Int
            /\ line' = [line EXCEPT ![cur][p].change = changes[p]]
        BY <3>1 DEF UpdatePlayerAfterMatch, TypeOK
      <4> QED BY <2>1, <4>1, WrittenLine
    <3>2. CASE PassOver(p) \/ ApplyAbandonPenalty(p)
      BY <3>2 DEF PassOver, ApplyAbandonPenalty, database
    <3> QED BY <2>4, <3>1, <3>2
  <2>5. ASSUME NEW k \in Matches, NEW w \in Winners, NEW quitters \in SUBSET Players,
               Finish(k, w, quitters)
        PROVE  \/ \A q \in Players : line'[m][q].before = line[m][q].before
               \/ \A q \in Players : line[m][q].before = 0
    BY <2>1, <2>5, LeftLines DEF Finish
  <2>6. CASE (\E elo \in [Players -> Nat] : GiveRatings(elo)) \/ UNCHANGED vars
    BY <2>6 DEF GiveRatings, vars, database
  <2>7. ASSUME NEW k \in Matches, CancelMatch(k) \/ MatchCleanup(k)
        PROVE  line' = line
    BY <2>7, WithdrawnRow
  <2> QED BY <2>2, <2>3, <2>4, <2>5, <2>6, <2>7, Steps DEF Withdrawal
<1> QED BY <1>2, <1>3, <1>4

LEMMA DoomedNext ==
  ASSUME BothTeams, TypeOK, Course, Fresh, Doomed, [Next]_vars
  PROVE  Doomed'
<1> SUFFICES ASSUME faults' = 0, AllNear'
             PROVE  /\ pc' = "update" => \A q \in Players : line'[cur'][q].abandoned =>
                         changes'[q] < 0 /\ (q \notin left' => line'[cur'][q].change < 0)
                    /\ pc' = "ban" => \A q \in Players :
                         /\ line'[cur'][q].abandoned => line'[cur'][q].change < 0
                         /\ q \in left' => line'[cur'][q].abandoned
  BY DEF Doomed
<1> DEFINE Goal ==
  /\ pc' = "update" => \A q \in Players : line'[cur'][q].abandoned =>
       changes'[q] < 0 /\ (q \notin left' => line'[cur'][q].change < 0)
  /\ pc' = "ban" => \A q \in Players :
       /\ line'[cur'][q].abandoned => line'[cur'][q].change < 0
       /\ q \in left' => line'[cur'][q].abandoned
<1>1. AllNear /\ (faults' = faults => faults = 0)
  BY NearBefore
<1>2. CASE Quiet
  BY <1>2, QuietSteps
<1>3. ASSUME NEW m \in Matches, ReadPlayers(m)
      PROVE  Goal
  <2>1. /\ line' = line /\ cur' = m /\ changes' = EloChanges(m) /\ left' = Players
        /\ pc' = "update"
    BY <1>3 DEF ReadPlayers, Goto, database
  <2>2. Rows /\ Counts /\ match[m].winner \in Winners /\ Near(m)
    BY <1>1 DEF TypeOK, Rows, Counts, AllNear
  <2>3. \A p \in Players : line[m][p].abandoned => EloChanges(m)[p] < 0
    BY <2>2, AbandonerNeverGains DEF BothTeams
  <2> QED BY <2>1, <2>3
<1>4. ASSUME NEW m \in Matches, CreateMatch(m)
      PROVE  Goal
  BY <1>4 DEF CreateMatch, Course, daemon, TypeOK
<1>5. ASSUME NEW p \in Players, UpdatePlayerAfterMatch(p)
      PROVE  Goal
  <2>1. /\ pc = "update" /\ cur \in Matches /\ changes[p] \in Int /\ p \in left
        /\ NextPlayer(p) /\ faults = 0 /\ left \subseteq Players
        /\ line' = [line EXCEPT ![cur][p].change = changes[p]]
    BY <1>1, <1>5 DEF UpdatePlayerAfterMatch, TypeOK
  <2>2. Rows
    BY DEF TypeOK, Rows
  <2>3. /\ line'[cur][p].change = changes[p]
        /\ \A q \in Players :
             /\ line'[cur][q].abandoned = line[cur][q].abandoned
             /\ q # p => line'[cur][q].change = line[cur][q].change
    <3>1. line'[cur][p].change = changes[p]
      BY <2>1, <2>2 DEF Rows
    <3>2. \A k \in Matches, q \in Players :
            /\ line'[k][q].abandoned = line[k][q].abandoned
            /\ k # cur \/ q # p => line'[k][q].change = line[k][q].change
      BY <2>1, <2>2, WrittenLine
    <3> QED BY <2>1, <3>1, <3>2
  <2>4. \A q \in Players : line[cur][q].abandoned =>
          changes[q] < 0 /\ (q \notin left => line[cur][q].change < 0)
    BY <1>1, <2>1 DEF Doomed
  <2>5. \A q \in Players : line'[cur][q].abandoned /\ q \notin left \ {p} =>
          line'[cur][q].change < 0
    BY <2>3, <2>4
  <2>6. CASE Onward(p)
    BY <2>1, <2>3, <2>4, <2>5, <2>6 DEF Onward
  <2>7. CASE Upward(p)
    BY <2>1, <2>3, <2>5, <2>7 DEF Upward
  <2>8. CASE Back(p)
    BY <2>8 DEF Back
  <2> QED BY <2>1, <2>6, <2>7, <2>8, NextPlayerCases
<1>6. ASSUME NEW p \in Players, ApplyAbandonPenalty(p)
      PROVE  Goal
  <2>1. line' = line /\ pc = "ban" /\ NextPlayer(p) /\ faults = 0
    BY <1>1, <1>6 DEF ApplyAbandonPenalty, history
  <2>2. \A q \in Players : /\ line[cur][q].abandoned => line[cur][q].change < 0
                           /\ q \in left => line[cur][q].abandoned
    BY <1>1, <2>1 DEF Doomed
  <2> QED BY <2>1, <2>2, NextPlayerCases DEF Onward, Upward, Back
<1>7. ASSUME NEW p \in Players, PassOver(p)
      PROVE  Goal
  BY <1>7 DEF PassOver, Fault, TypeOK
<1>8. ASSUME NEW m \in Matches, NEW w \in Winners, NEW quitters \in SUBSET Players,
             Finish(m, w, quitters)
      PROVE  Goal
  <2>1. Rows /\ match[m].status # "finished" /\ faults = 0
    BY <1>1, <1>8 DEF TypeOK, Rows, Finish
  <2>2. \A k \in Matches : k # m => line'[k] = line[k]
    BY <1>8, <2>1, LeftLines DEF Finish
  <2>3. pc \in {"update", "ban"} => cur # m /\ cur \in Matches
    BY <2>1 DEF Course, TypeOK
  <2>4. UNCHANGED <<pc, cur, left, changes>>
    BY <1>8 DEF Finish, daemon
  <2> QED BY <1>1, <2>1, <2>2, <2>3, <2>4 DEF Doomed
<1>9. CASE (\E elo \in [Players -> Nat] : GiveRatings(elo)) \/ UNCHANGED vars
  <2>1. UNCHANGED <<pc, cur, left, changes, line, faults>>
    BY <1>9 DEF GiveRatings, vars, daemon, database, history
  <2> QED BY <1>1, <2>1 DEF Doomed
<1>10. ASSUME NEW m \in Matches, CancelMatch(m) \/ MatchCleanup(m)
       PROVE  Goal
  <2>1. UNCHANGED <<pc, cur, left, changes, line, faults>>
    BY <1>10, WithdrawnRow
  <2> QED BY <1>1, <2>1 DEF Doomed
<1> QED
  BY <1>2, <1>3, <1>4, <1>5, <1>6, <1>7, <1>8, <1>9, <1>10, Steps DEF Withdrawal

\* A mark stays: a rating that moved does not move back, and the match in hand
\* has no mark before its penalties are written.
LEMMA MarksStay ==
  ASSUME TypeOK, Course, Fresh, faults' = 0, [Next]_vars, NEW p \in Players
  PROVE  Marked(p) \subseteq Marked(p)'
<1> USE DEF Marked, AlreadyProcessed
<1>1. CASE Quiet
  <2>1. line' = line /\ (cur' = cur \/ cur' = NoMatch)
    BY <1>1, QuietSteps DEF Quiet, SelectFinished, SelectFails, ReadEnded, CleanupFails, Crash,
                            SkipProcessed, MarkMatchCleaned, DestroyRefused
  <2>2. pc \in {"update", "ban"} => Crash
    BY <1>1 DEF Quiet, SelectFinished, SelectFails, ReadEnded, CleanupFails,
                SkipProcessed, MarkMatchCleaned, DestroyRefused
  <2>3. ~Crash
    BY DEF Crash, Fault, TypeOK
  <2> QED BY <2>1, <2>2, <2>3, ResultsAssumption
<1>2. ASSUME NEW m \in Matches, ReadPlayers(m)
      PROVE  Marked(p) \subseteq Marked(p)'
  BY <1>2 DEF ReadPlayers, database
<1>3. ASSUME NEW m \in Matches, CreateMatch(m)
      PROVE  Marked(p) \subseteq Marked(p)'
  <2>1. \A q \in Players : ~line[m][q].abandoned
    BY <1>3 DEF CreateMatch, Fresh
  <2>2. \A k \in Matches : k # m => line'[k] = line[k]
    BY <1>3 DEF CreateMatch, TypeOK
  <2> QED BY <1>3, <2>1, <2>2 DEF CreateMatch, daemon
<1>4. ASSUME NEW q \in Players, UpdatePlayerAfterMatch(q)
      PROVE  Marked(p) \subseteq Marked(p)'
  <2>1. pc = "update" /\ cur \in Matches /\ changes[q] \in Int /\ NextPlayer(q)
        /\ line' = [line EXCEPT ![cur][q].change = changes[q]]
    BY <1>4 DEF UpdatePlayerAfterMatch, TypeOK
  <2>2. Rows
    BY DEF TypeOK, Rows
  <2>3. \A k \in Matches, r \in Players :
          /\ line'[k][r].abandoned = line[k][r].abandoned
          /\ k # cur => line'[k][r].change = line[k][r].change
    BY <2>1, <2>2, WrittenLine
  <2>4. cur' = cur \/ cur' = NoMatch
    BY <2>1, NextPlayerCases DEF Onward, Upward, Back
  <2> QED BY <2>1, <2>3, <2>4, ResultsAssumption
<1>5. ASSUME NEW q \in Players, ApplyAbandonPenalty(q)
      PROVE  Marked(p) \subseteq Marked(p)'
  <2>1. line' = line /\ pc = "ban" /\ NextPlayer(q)
    BY <1>5 DEF ApplyAbandonPenalty
  <2>2. \/ cur' = cur /\ pc' = "ban" /\ left' \subseteq left
        \/ cur' = NoMatch
    BY <2>1, NextPlayerCases DEF Onward, Upward, Back
  <2> QED BY <2>1, <2>2, ResultsAssumption
<1>6. ASSUME NEW q \in Players, PassOver(q)
      PROVE  Marked(p) \subseteq Marked(p)'
  BY <1>6 DEF PassOver, Fault, TypeOK
<1>7. ASSUME NEW m \in Matches, NEW w \in Winners, NEW quitters \in SUBSET Players,
             Finish(m, w, quitters)
      PROVE  Marked(p) \subseteq Marked(p)'
  <2>1. Rows /\ match[m].status # "finished"
    BY <1>7 DEF TypeOK, Rows, Finish
  <2>2. \A k \in Matches : k # m => line'[k] = line[k]
    BY <1>7, <2>1, LeftLines DEF Finish
  <2>3. m \notin Marked(p)
    BY <2>1 DEF Fresh
  <2>4. UNCHANGED <<pc, cur, left>>
    BY <1>7 DEF Finish, daemon
  <2> QED BY <2>2, <2>3, <2>4
<1>8. ASSUME NEW m \in Matches, CancelMatch(m) \/ MatchCleanup(m)
      PROVE  Marked(p) \subseteq Marked(p)'
  <2>1. UNCHANGED <<pc, cur, left, line>>
    BY <1>8, WithdrawnRow
  <2> QED BY <2>1
<1>9. CASE (\E elo \in [Players -> Nat] : GiveRatings(elo)) \/ UNCHANGED vars
  BY <1>9 DEF GiveRatings, vars, daemon, database
<1> QED
  BY <1>1, <1>2, <1>3, <1>4, <1>5, <1>6, <1>7, <1>8, <1>9, Steps DEF Withdrawal

LEMMA FinedNext ==
  ASSUME TypeOK, Course, Fresh, Doomed, FinedOnce, [Next]_vars
  PROVE  FinedOnce'
<1> SUFFICES ASSUME faults' = 0, AllNear', NEW p \in Players
             PROVE  player'[p].offences <= Cardinality(Marked(p)')
  BY DEF FinedOnce
<1>1. AllNear /\ Marked(p) \subseteq Marked(p)' /\ Marked(p)' \subseteq Matches
      /\ (faults' = faults => faults = 0)
  BY NearBefore, MarksStay DEF Marked
<1>2. IsFiniteSet(Marked(p)') /\ IsFiniteSet(Marked(p))
  BY <1>1, ResultsAssumption, FS_Subset
<1>3. Cardinality(Marked(p)) \in Nat /\ Cardinality(Marked(p)') \in Nat
      /\ Cardinality(Marked(p)) <= Cardinality(Marked(p)')
  BY <1>1, <1>2, FS_CardinalityType, FS_Subset
<1>4. CASE ApplyAbandonPenalty(p)
  <2>1. /\ pc = "ban" /\ p \in left /\ cur \in Matches /\ faults = 0
        /\ NextPlayer(p) /\ line' = line /\ left \subseteq Players
    BY <1>1, <1>4 DEF ApplyAbandonPenalty, history, TypeOK
  <2>2. line[cur][p].abandoned /\ line[cur][p].change < 0
    BY <1>1, <2>1 DEF Doomed
  <2>3. cur \notin Marked(p)
    BY <2>1 DEF Marked
  <2>4. cur \in Marked(p)'
    <3>1. line[cur][p].change \in Int
      BY <2>1 DEF TypeOK
    <3>2. cur' = cur => pc' = "ban" /\ p \notin left'
      BY <2>1, ResultsAssumption, NextPlayerCases DEF Onward, Upward, Back
    <3>3. \E q \in Players : line'[cur][q].change # 0
      BY <2>1, <2>2, <3>1
    <3> QED BY <2>1, <2>2, <3>2, <3>3 DEF Marked, AlreadyProcessed
  <2>5. Cardinality(Marked(p)) + 1 <= Cardinality(Marked(p)')
    BY <1>1, <2>1, <2>3, <2>4, Growth
  <2>6. player'[p].offences <= player[p].offences + 1 /\ player'[p].offences \in Nat
    <3>1. PICK forgiven \in {0, Smaller(1, player[p].offences)} :
            player' = [player EXCEPT ![p].offences = player[p].offences - forgiven + 1]
      BY <1>4 DEF ApplyAbandonPenalty
    <3>2. /\ player[p].offences - forgiven + 1 \in Nat
          /\ player[p].offences - forgiven + 1 <= player[p].offences + 1
      BY DEF Smaller, TypeOK
    <3> QED BY <3>1, <3>2 DEF TypeOK
  <2>7. player[p].offences <= Cardinality(Marked(p)) /\ player[p].offences \in Nat
    BY <1>1, <2>1 DEF FinedOnce, TypeOK
  <2> DEFINE a == Cardinality(Marked(p))
             b == Cardinality(Marked(p)')
  <2>8. a \in Nat /\ b \in Nat /\ a + 1 <= b /\ player[p].offences <= a
    BY <1>3, <2>5, <2>7
  <2> HIDE DEF a, b
  <2>9. player'[p].offences <= b
    BY <2>6, <2>7, <2>8
  <2> QED BY <2>9 DEF b
<1>5. CASE ~ApplyAbandonPenalty(p)
  <2>1. faults = 0 /\ player'[p].offences = player[p].offences
    <3>1. ~ \E q \in Players : PassOver(q)
      BY DEF PassOver, Fault, TypeOK
    <3>2. ~SelectFails /\ ~CleanupFails /\ ~Crash
      BY DEF SelectFails, CleanupFails, Crash, Fault, TypeOK
    <3>3. CASE Quiet
      BY <3>2, <3>3 DEF Quiet, SelectFinished, ReadEnded, SkipProcessed, MarkMatchCleaned,
                        DestroyRefused, database, history
    <3>4. CASE \E m \in Matches : ReadPlayers(m) \/ CreateMatch(m)
      BY <3>4 DEF ReadPlayers, CreateMatch, database, history
    <3>5. ASSUME NEW q \in Players, UpdatePlayerAfterMatch(q)
          PROVE  faults = 0 /\ player'[p].offences = player[p].offences
      BY <3>5 DEF UpdatePlayerAfterMatch, TypeOK
    <3>6. ASSUME NEW q \in Players, ApplyAbandonPenalty(q)
          PROVE  faults = 0 /\ player'[p].offences = player[p].offences
      BY <1>5, <3>6 DEF ApplyAbandonPenalty, TypeOK, history
    <3>7. CASE \E m \in Matches, w \in Winners, quitters \in SUBSET Players : Finish(m, w, quitters)
      BY <3>7 DEF Finish
    <3>8. CASE \E elo \in [Players -> Nat] : GiveRatings(elo)
      BY <3>8 DEF GiveRatings, TypeOK
    <3>9. ASSUME NEW m \in Matches, CancelMatch(m) \/ MatchCleanup(m)
          PROVE  faults = 0 /\ UNCHANGED player
      BY <3>9, WithdrawnRow
    <3>10. CASE UNCHANGED vars
      BY <3>10 DEF vars, database, history
    <3> QED
      BY <3>1, <3>3, <3>4, <3>5, <3>6, <3>7, <3>8, <3>9, <3>10, Steps DEF Withdrawal
  <2>2. player[p].offences <= Cardinality(Marked(p)) /\ player[p].offences \in Nat
    BY <1>1, <2>1 DEF FinedOnce, TypeOK
  <2> DEFINE a == Cardinality(Marked(p))
             b == Cardinality(Marked(p)')
  <2>3. a \in Nat /\ b \in Nat /\ a <= b /\ player[p].offences <= a
    BY <1>3, <2>2
  <2> HIDE DEF a, b
  <2>4. player'[p].offences <= b
    BY <2>1, <2>2, <2>3
  <2> QED BY <2>4 DEF b
<1> QED BY <1>4, <1>5

LEMMA FinedOnceIsPunishedOnce ==
  ASSUME TypeOK, FinedOnce
  PROVE  PunishedOnce
<1> SUFFICES ASSUME faults = 0, AllNear, NEW p \in Players
             PROVE  player[p].offences <= Cardinality({m \in Matches : line[m][p].abandoned})
  BY DEF PunishedOnce, AllNear
<1> DEFINE marked == Marked(p)
           abandoned == {m \in Matches : line[m][p].abandoned}
<1>1. player[p].offences <= Cardinality(marked) /\ player[p].offences \in Nat
  BY DEF FinedOnce, TypeOK
<1>2. marked \subseteq abandoned /\ marked \subseteq Matches /\ abandoned \subseteq Matches
  BY DEF Marked
<1> DEFINE a == Cardinality(marked)
           b == Cardinality(abandoned)
<1> HIDE DEF marked, abandoned
<1>3. IsFiniteSet(marked) /\ IsFiniteSet(abandoned)
  BY <1>2, ResultsAssumption, FS_Subset
<1>4. a \in Nat /\ b \in Nat /\ a <= b
  BY <1>2, <1>3, FS_CardinalityType, FS_Subset
<1>5. player[p].offences <= b
  <2>1. player[p].offences <= a
    BY <1>1
  <2> HIDE DEF a, b
  <2> QED BY <1>1, <1>4, <2>1
<1> QED BY <1>5 DEF abandoned

-----------------------------------------------------------------------------
(* The theorems *)

LEMMA LedgerInit ==
  ASSUME Init
  PROVE  Fresh /\ EloIsSum /\ Defeats /\ Agreed /\ Counted /\ Doomed /\ FinedOnce
<1>1. TypeOK /\ Course
  BY CourseInit
<1>2. PICK elo \in [Players -> StartElos] :
        /\ player = [p \in Players |-> [elo |-> elo[p], played |-> 0, offences |-> 0]]
        /\ base = elo
  BY DEF Init
<1>3. /\ match = [m \in Matches |->
           [status |-> "none", winner |-> "tie", cleaned |-> FALSE, attempts |-> 0]]
      /\ line = [m \in Matches |-> [p \in Players |->
           [before |-> 0, change |-> 0, abandoned |-> FALSE]]]
      /\ pc = "idle" /\ cur = NoMatch /\ todo = {} /\ left = {}
  BY DEF Init
<1>4. Fresh
  BY <1>3 DEF Fresh
<1>5. EloIsSum
  <2> SUFFICES ASSUME NEW p \in Players
               PROVE  player[p].elo = base[p] + Won(p)
    BY DEF EloIsSum
  <2>1. [m \in Matches |-> line[m][p].change] = [m \in Matches |-> 0]
    BY <1>3
  <2>2. Won(p) = 0
    BY <2>1, SumZero, ResultsAssumption DEF Won
  <2>3. player[p].elo = elo[p] /\ base[p] = elo[p] /\ base[p] \in Int
    BY <1>1, <1>2 DEF TypeOK
  <2> QED BY <2>2, <2>3
<1>6. Defeats /\ Agreed /\ Doomed
  <2>1. pc \notin {"update", "ban"}
    BY <1>3
  <2>2. AbandonerLoses
    BY <1>3 DEF AbandonerLoses
  <2> QED BY <2>1, <2>2 DEF Defeats, Agreed, Doomed
<1>7. ASSUME NEW p \in Players
      PROVE  Rated(p) = {} /\ Fined(p) = {} /\ Marked(p) = {}
             /\ player[p].played = 0 /\ player[p].offences = 0
  <2>1. \A m \in Matches : match[m].status = "none" /\ m # cur /\ ~line[m][p].abandoned
    BY <1>3, ResultsAssumption
  <2> QED BY <1>2, <2>1 DEF Rated, Fined, Marked, Settled
<1>8. Cardinality({}) = 0
  BY FS_EmptySet
<1>9. Counted
  BY <1>7, <1>8 DEF Counted
<1>10. FinedOnce
  BY <1>7, <1>8 DEF FinedOnce
<1> QED BY <1>4, <1>5, <1>6, <1>9, <1>10

\* Where steps 4 and 5 are, and what is still unwritten, in every state.
LEMMA CourseAlways == Spec => [](TypeOK /\ Course /\ Fresh)
<1>1. Init => TypeOK /\ Course /\ Fresh
  BY CourseInit, LedgerInit
<1>2. (TypeOK /\ Course /\ Fresh) /\ [Next]_vars => (TypeOK /\ Course /\ Fresh)'
  BY CourseNext, FreshNext
<1> QED BY <1>1, <1>2, PTL DEF Spec

\* Every rating is what administrators and seasons made of it plus what the
\* scoreboards of the player show, whatever statement fails and wherever the
\* daemon crashes: update_player_after_match writes both in one transaction.
THEOREM EloIsSumCorrect == Spec => []EloIsSum
<1>1. Init => EloIsSum
  BY LedgerInit
<1>2. (TypeOK /\ Course /\ Fresh) /\ EloIsSum /\ [Next]_vars => EloIsSum'
  BY SumNext
<1> QED BY <1>1, <1>2, CourseAlways, PTL DEF Spec

\* No abandoner gains from the match he left, whatever the result, the ratings
\* and the K-factors.
THEOREM AbandonerLosesCorrect == Spec => []AbandonerLoses
<1>1. Init => Defeats
  BY LedgerInit
<1>2. (TypeOK /\ Course /\ Fresh) /\ Defeats /\ [Next]_vars => Defeats'
  BY DefeatsNext
<1>3. Defeats => AbandonerLoses
  BY DEF Defeats
<1> QED BY <1>1, <1>2, <1>3, CourseAlways, PTL DEF Spec

\* Between teams of equal size and players of equal K-factor the changes of a
\* match cancel, rounding included.
THEOREM ZeroSumCorrect == Spec => []ZeroSum
<1>1. Init => Agreed
  BY LedgerInit
<1>2. (TypeOK /\ Course /\ Fresh) /\ Agreed /\ [Next]_vars => Agreed'
  BY AgreedNext
<1>3. TypeOK /\ Agreed => ZeroSum
  BY AgreedIsZeroSum
<1> QED BY <1>1, <1>2, <1>3, CourseAlways, PTL DEF Spec

\* Without a fault, no match is closed whose players step 4 has not rated and
\* punished, unless it ended between the SELECTs of the two steps, was cancelled
\* or was closed by the web panel.
THEOREM ClosedIsRatedCorrect == Spec => []ClosedIsRated
<1>1. Init => Counted
  BY LedgerInit
<1>2. (TypeOK /\ Course /\ Fresh) /\ Counted /\ [Next]_vars => Counted'
  BY CountedNext
<1>3. (TypeOK /\ Course /\ Fresh) /\ Counted => ClosedIsRated
  BY CountedIsClosedIsRated
<1> QED BY <1>1, <1>2, <1>3, CourseAlways, PTL DEF Spec

\* Without a fault and between teams that are near each other nobody is fined
\* more often than he abandoned, however often his matches are selected again.
THEOREM PunishedOnceCorrect ==
  ASSUME BothTeams
  PROVE  Spec => []PunishedOnce
<1>1. Init => Doomed /\ FinedOnce
  BY LedgerInit
<1>2. (TypeOK /\ Course /\ Fresh) /\ (Doomed /\ FinedOnce) /\ [Next]_vars => (Doomed /\ FinedOnce)'
  BY DoomedNext, FinedNext
<1>3. (TypeOK /\ Course /\ Fresh) /\ (Doomed /\ FinedOnce) => PunishedOnce
  BY FinedOnceIsPunishedOnce
<1> QED BY <1>1, <1>2, <1>3, CourseAlways, PTL DEF Spec

=============================================================================
