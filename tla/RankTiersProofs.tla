---------------------------- MODULE RankTiersProofs ---------------------------
(***************************************************************************)
(* What RankTiers promises, for all changes of at most 64, all overrides   *)
(* and all weeks.                                                          *)
(*                                                                         *)
(* The facts about the table come first: a tier is reached exactly at its  *)
(* threshold, the tier grows with the rating, and 64 points are worth two  *)
(* tiers at the most, because any three thresholds span 100.  The          *)
(* invariant adds what ties the match under way to the player: its         *)
(* elo_before is his rating for as long as nobody else has written it.     *)
(***************************************************************************)
EXTENDS RankTiers, TLAPS

\* The greater of two numbers.
LEMMA MaxOfTwo ==
  ASSUME NEW a \in Int, NEW b \in Int
  PROVE  Max({a, b}) = IF a >= b THEN a ELSE b
BY DEF Max

\* The smaller of two numbers.
LEMMA MinOfTwo ==
  ASSUME NEW a \in Int, NEW b \in Int
  PROVE  Min({a, b}) = IF a <= b THEN a ELSE b
BY DEF Min

LEMMA AtLeastZeroIs ==
  ASSUME NEW n \in Int
  PROVE  AtLeastZero(n) = IF n >= 0 THEN n ELSE 0
BY MaxOfTwo DEF AtLeastZero

\* The table: it starts at nothing, grows by at least 50 from one tier to the
\* next, and any three thresholds in a row span at least 100.
LEMMA ThresholdsRise ==
  /\ \A t \in 1..18 : Thresholds[t] \in Nat
  /\ Thresholds[1] = 0
  /\ \A t \in 1..17 : Thresholds[t] + 50 <= Thresholds[t + 1]
<1>1. \A t \in 1..18 :
        t \in {1, 2, 3, 4, 5, 6, 7, 8, 9, 10, 11, 12, 13, 14, 15, 16, 17, 18}
  OBVIOUS
<1>2. /\ Thresholds[1] = 0 /\ Thresholds[2] = 800 /\ Thresholds[3] = 850
      /\ Thresholds[4] = 900 /\ Thresholds[5] = 950 /\ Thresholds[6] = 1000
      /\ Thresholds[7] = 1050 /\ Thresholds[8] = 1100 /\ Thresholds[9] = 1150
      /\ Thresholds[10] = 1200 /\ Thresholds[11] = 1300 /\ Thresholds[12] = 1400
      /\ Thresholds[13] = 1500 /\ Thresholds[14] = 1600 /\ Thresholds[15] = 1700
      /\ Thresholds[16] = 1800 /\ Thresholds[17] = 1900 /\ Thresholds[18] = 2000
  BY DEF Thresholds
<1>3. \A t \in 1..18 : Thresholds[t] \in Nat
  BY <1>1, <1>2
<1>4. ASSUME NEW t \in 1..17 PROVE Thresholds[t] + 50 <= Thresholds[t + 1]
  BY <1>1, <1>2
<1> QED BY <1>2, <1>3, <1>4

LEMMA NewPlayersTier == Thresholds[6] = 1000 /\ Thresholds[7] = 1050
BY DEF Thresholds

\* A set of tiers with 0 in it has a greatest one.
LEMMA MaxOfTiers ==
  ASSUME NEW S, S \subseteq 0..17, 0 \in S
  PROVE  Max(S) \in S /\ \A u \in S : u <= Max(S)
<1>1. \E x \in S : \A y \in S : x >= y
  OBVIOUS
<1>2. Max(S) \in S /\ \A y \in S : Max(S) >= y
  BY <1>1 DEF Max
<1> QED BY <1>2

\* A player has reached a tier exactly when he has its threshold.
LEMMA TierReached ==
  ASSUME NEW r \in Int
  PROVE  /\ get_rank_tier(r) \in 0..17
         /\ \A t \in 1..17 : get_rank_tier(r) >= t <=> r >= Thresholds[t + 1]
<1> DEFINE S == {0} \cup {t \in 1..17 : r >= Thresholds[t + 1]}
           top == Max(S)
<1>1. S \subseteq 0..17 /\ top \in S /\ \A u \in S : u <= top
  BY MaxOfTiers
<1>2. get_rank_tier(r) = top
  BY DEF get_rank_tier
<1>3. \A t \in 1..17 : Thresholds[t + 1] \in Nat
  BY ThresholdsRise
<1>4. \A t, u \in 1..17 : t <= u => Thresholds[t + 1] <= Thresholds[u + 1]
  <2>1. \A t \in 1..17 :
          t \in {1, 2, 3, 4, 5, 6, 7, 8, 9, 10, 11, 12, 13, 14, 15, 16, 17}
    OBVIOUS
  <2> QED BY <2>1 DEF Thresholds
<1>5. ASSUME NEW t \in 1..17 PROVE top >= t <=> r >= Thresholds[t + 1]
  <2>1. CASE r >= Thresholds[t + 1]
    BY <1>1, <2>1
  <2>2. CASE top >= t
    <3> HIDE DEF top
    <3>1. top \in 1..17 /\ r >= Thresholds[top + 1]
      BY <1>1, <2>2
    <3> QED BY <1>3, <1>4, <2>2, <3>1
  <2> QED BY <2>1, <2>2
<1> QED BY <1>1, <1>2, <1>5

\* The tier grows with the rating.
LEMMA TierMonotone ==
  ASSUME NEW a \in Int, NEW b \in Int, a <= b
  PROVE  get_rank_tier(a) <= get_rank_tier(b)
<1>1. CASE get_rank_tier(a) = 0
  BY <1>1, TierReached
<1>2. CASE get_rank_tier(a) # 0
  <2> DEFINE t == get_rank_tier(a)
  <2>1. t \in 1..17 /\ t >= t
    BY <1>2, TierReached
  <2>2. a >= Thresholds[t + 1] /\ Thresholds[t + 1] \in Nat
    BY <2>1, TierReached, ThresholdsRise
  <2>3. b >= Thresholds[t + 1]
    BY <2>2
  <2> QED BY <2>1, <2>3, TierReached
<1> QED BY <1>1, <1>2

\* 64 points more are two tiers more at the most.
LEMMA TwoTiers ==
  ASSUME NEW a \in Int, NEW b \in Int, b <= a + 64
  PROVE  get_rank_tier(b) <= get_rank_tier(a) + 2
<1> SUFFICES ASSUME get_rank_tier(b) > get_rank_tier(a) + 2 PROVE FALSE
  BY TierReached
<1> DEFINE t == get_rank_tier(a) + 1
<1>1. t \in 1..15 /\ t + 2 \in 1..17 /\ get_rank_tier(b) >= t + 2 /\ ~(get_rank_tier(a) >= t)
  BY TierReached
<1>2. b >= Thresholds[t + 3] /\ ~(a >= Thresholds[t + 1])
  <2>1. b >= Thresholds[(t + 2) + 1]
    BY <1>1, TierReached
  <2>2. ~(a >= Thresholds[t + 1])
    BY <1>1, TierReached
  <2>3. (t + 2) + 1 = t + 3
    BY <1>1
  <2> QED BY <2>1, <2>2, <2>3
<1>3. /\ Thresholds[t + 1] \in Nat /\ Thresholds[t + 2] \in Nat /\ Thresholds[t + 3] \in Nat
      /\ Thresholds[t + 1] + 50 <= Thresholds[t + 2]
      /\ Thresholds[t + 2] + 50 <= Thresholds[t + 3]
  <2>1. t + 1 \in 1..17 /\ t + 2 \in 1..17 /\ t + 3 \in 1..18
    BY <1>1
  <2>2. (t + 1) + 1 = t + 2 /\ (t + 2) + 1 = t + 3
    BY <1>1
  <2>3. Thresholds[t + 1] + 50 <= Thresholds[(t + 1) + 1]
    BY <2>1, ThresholdsRise
  <2>4. Thresholds[t + 2] + 50 <= Thresholds[(t + 2) + 1]
    BY <2>1, ThresholdsRise
  <2> QED BY <2>1, <2>2, <2>3, <2>4, ThresholdsRise
<1> HIDE DEF t
<1> QED BY <1>2, <1>3

-----------------------------------------------------------------------------
\* Nobody decays below the first rating of his tier, and so not out of it.
LEMMA DecayWithinTier ==
  ASSUME NEW r \in Nat, NEW weeks \in Nat
  PROVE  /\ get_rank_tier(apply_elo_decay(r, weeks)) = get_rank_tier(r)
         /\ apply_elo_decay(r, weeks) <= r
<1> DEFINE tierNow == get_rank_tier(r)
           least == Thresholds[tierNow + 1]
           decayed == r - 10 * (weeks - 2)
<1>1. tierNow \in 0..17
  BY TierReached
<1>2. least \in Nat /\ least <= r
  <2>1. least \in Nat
    BY <1>1, ThresholdsRise
  <2>2. CASE tierNow = 0
    BY <2>1, <2>2, ThresholdsRise
  <2>3. CASE tierNow # 0
    <3>1. tierNow \in 1..17 /\ tierNow >= tierNow
      BY <1>1, <2>3
    <3> QED BY <3>1, <2>1, TierReached
  <2> QED BY <2>1, <2>2, <2>3
<1>3. tier_min_elo(tierNow) = least
  <2>1. Min({tierNow, 17}) = tierNow
    BY <1>1, MinOfTwo
  <2> QED BY <1>1, <2>1 DEF tier_min_elo
<1>4. get_rank_tier(least) = tierNow
  <2>1. get_rank_tier(least) <= tierNow
    BY <1>2, TierMonotone
  <2>2. CASE tierNow = 0
    BY <1>2, <2>1, <2>2, TierReached
  <2>3. CASE tierNow # 0
    <3>1. tierNow \in 1..17 /\ least >= Thresholds[tierNow + 1]
      BY <1>1, <1>2, <2>3
    <3>2. get_rank_tier(least) >= tierNow
      BY <3>1, <1>2, TierReached
    <3> QED BY <3>2, <2>1, <1>1, <1>2, TierReached
  <2> QED BY <2>2, <2>3
<1>5. CASE weeks <= 2
  BY <1>5 DEF apply_elo_decay
<1>6. CASE weeks > 2
  <2> DEFINE rest == Max({decayed, least})
  <2>1. decayed \in Int /\ decayed <= r
    BY <1>6
  <2>2. apply_elo_decay(r, weeks) = rest
    BY <1>3, <1>6 DEF apply_elo_decay
  <2> HIDE DEF decayed, least
  <2>3. rest = IF decayed >= least THEN decayed ELSE least
    BY <1>2, <2>1, MaxOfTwo
  <2>4. rest \in Int /\ least <= rest /\ rest <= r
    BY <1>2, <2>1, <2>3
  <2> HIDE DEF rest
  <2>5. get_rank_tier(least) <= get_rank_tier(rest) /\ get_rank_tier(rest) <= get_rank_tier(r)
    BY <1>2, <2>4, TierMonotone
  <2>6. get_rank_tier(rest) = tierNow
    BY <1>1, <1>4, <2>4, <2>5, TierReached
  <2> QED BY <2>2, <2>4, <2>6
<1> QED BY <1>5, <1>6

-----------------------------------------------------------------------------
Types ==
  /\ elo \in Nat /\ tier \in 0..17
  /\ before \in Nat \cup {NoMatch} /\ announced \in 0..17 \cup {NoTier}
  /\ stale \in BOOLEAN /\ moved \in BOOLEAN

\* elo_before of the match under way is the rating, unless somebody has set it since.
BeforeIsElo == before # NoMatch /\ ~moved => before = elo

IInv == Types /\ BeforeIsElo /\ TierNearElo /\ AnnouncedIsReached

LEMMA IInvInit == Init => IInv
<1> SUFFICES ASSUME Init PROVE IInv
  OBVIOUS
<1>1. elo = 1000 /\ tier = 5 /\ before = NoMatch /\ announced = NoTier /\ ~stale /\ ~moved
      /\ stale \in BOOLEAN /\ moved \in BOOLEAN
  BY DEF Init
<1>2. get_rank_tier(1000) = 5
  <2>1. get_rank_tier(1000) >= 5
    BY TierReached, NewPlayersTier
  <2>2. ~(get_rank_tier(1000) >= 6)
    BY TierReached, NewPlayersTier
  <2> QED BY <2>1, <2>2, TierReached
<1> QED BY <1>1, <1>2 DEF IInv, Types, BeforeIsElo, TierNearElo, AnnouncedIsReached

LEMMA CreateMatchKeeps == IInv /\ CreateMatch => IInv'
<1> SUFFICES ASSUME IInv, CreateMatch PROVE IInv'
  OBVIOUS
<1>1. Types' /\ BeforeIsElo' /\ AnnouncedIsReached'
  BY DEF IInv, Types, BeforeIsElo, AnnouncedIsReached, CreateMatch
<1>2. TierNearElo'
  BY DEF IInv, TierNearElo, CreateMatch
<1> QED BY <1>1, <1>2 DEF IInv

\* The statement of the daemon: the tier is of a rating that is the change further.
LEMMA UpdateKeeps ==
  ASSUME IInv, NEW change \in Changes, UpdatePlayerAfterMatch(change)
  PROVE  IInv'
<1> DEFINE further == AtLeastZero(NewElo(change) + change)
<1>1. change \in -64..64
  BY RanksAssumption
<1>2. elo' \in Nat /\ elo' = NewElo(change) /\ elo' = IF elo + change >= 0 THEN elo + change ELSE 0
  BY <1>1, AtLeastZeroIs DEF UpdatePlayerAfterMatch, NewElo, IInv, Types
<1>3. /\ further \in Nat /\ further = IF elo' + change >= 0 THEN elo' + change ELSE 0
      /\ tier' = get_rank_tier(further)
  BY <1>1, <1>2, AtLeastZeroIs DEF UpdatePlayerAfterMatch, NewTier
<1> HIDE DEF further
<1>4. /\ before \in Nat /\ before' = NoMatch /\ announced' = RankUp(change) /\ ~stale'
      /\ moved' = moved
  BY DEF UpdatePlayerAfterMatch, IInv, Types
<1>5. TierNearElo'
  <2>1. tier' \in 0..17 /\ get_rank_tier(elo') \in 0..17
    BY <1>2, <1>3, TierReached
  <2>2. further <= elo' + 64 /\ elo' <= further + 64
    BY <1>1, <1>2, <1>3
  <2>3. tier' <= get_rank_tier(elo') + 2 /\ get_rank_tier(elo') <= tier' + 2
    BY <1>2, <1>3, <2>2, TwoTiers
  <2>4. tier' - get_rank_tier(elo') \in -2..2
    BY <2>1, <2>3
  <2> QED BY <1>2, <2>1, <2>4 DEF TierNearElo
<1> DEFINE told == AtLeastZero(before + change)
<1>6. told \in Nat /\ told = IF before + change >= 0 THEN before + change ELSE 0
  BY <1>1, <1>4, AtLeastZeroIs
<1>7. announced' = IF get_rank_tier(told) > get_rank_tier(before) THEN get_rank_tier(told) ELSE NoTier
  BY <1>4 DEF RankUp
<1> HIDE DEF told
<1>8. Types'
  <2>1. announced' \in 0..17 \cup {NoTier}
    BY <1>6, <1>7, TierReached
  <2>2. tier' \in 0..17
    BY <1>3, TierReached
  <2>3. moved' \in BOOLEAN /\ stale' = FALSE
    BY DEF UpdatePlayerAfterMatch, IInv, Types
  <2> QED BY <1>2, <1>4, <2>1, <2>2, <2>3 DEF Types
<1>9. AnnouncedIsReached'
  <2> SUFFICES ASSUME announced' # NoTier, ~moved PROVE tier' >= announced'
    BY <1>4 DEF AnnouncedIsReached
  <2>1. announced' = get_rank_tier(told) /\ get_rank_tier(told) > get_rank_tier(before)
    BY <1>7
  <2>2. before = elo
    BY <1>4 DEF IInv, BeforeIsElo, NoMatch
  <2>3. change > 0
    <3> SUFFICES ASSUME ~(change > 0) PROVE FALSE
      OBVIOUS
    <3>1. told <= before
      BY <1>1, <1>4, <1>6
    <3>2. get_rank_tier(told) <= get_rank_tier(before)
      BY <1>4, <1>6, <3>1, TierMonotone
    <3>3. get_rank_tier(told) \in Nat /\ get_rank_tier(before) \in Nat
      BY <1>4, <1>6, TierReached
    <3> QED BY <2>1, <3>2, <3>3
  <2>4. told <= further
    BY <1>1, <1>2, <1>3, <1>4, <1>6, <2>2, <2>3
  <2>5. get_rank_tier(told) <= get_rank_tier(further)
    BY <1>3, <1>6, <2>4, TierMonotone
  <2> QED BY <1>3, <1>6, <2>1, <2>5, TierReached
<1>10. BeforeIsElo'
  BY <1>4 DEF BeforeIsElo
<1> QED BY <1>5, <1>8, <1>9, <1>10 DEF IInv

LEMMA OverrideKeeps ==
  ASSUME IInv, NEW newElo \in Nat, NEW newTier \in 0..17, Override(newElo, newTier)
  PROVE  IInv'
<1>1. /\ elo' \in Nat /\ tier' \in 0..17 /\ stale' = TRUE /\ moved' = TRUE /\ announced' = NoTier
      /\ before' = before
  BY DEF Override
<1> QED BY <1>1 DEF IInv, Types, BeforeIsElo, TierNearElo, AnnouncedIsReached

\* Whatever the thresholds of the lobby are, what it stores is a tier.
LEMMA LobbyTierIsTier == ASSUME NEW r \in Int PROVE MM_EloToTier(r) \in 0..17
<1> DEFINE S == {0} \cup {t \in 1..17 : r >= LobbyThresholds[t]}
<1>1. Max(S) \in S
  BY MaxOfTiers
<1> QED BY <1>1 DEF MM_EloToTier

LEMMA NextKeeps == IInv /\ [Next]_vars => IInv'
<1> SUFFICES ASSUME IInv, [Next]_vars PROVE IInv'
  OBVIOUS
<1>1. CASE CreateMatch
  BY <1>1, CreateMatchKeeps
<1>2. ASSUME NEW change \in Changes, UpdatePlayerAfterMatch(change) PROVE IInv'
  BY <1>2, UpdateKeeps
<1>3. ASSUME NEW rating \in Overrides, set_elo(rating) PROVE IInv'
  BY <1>3, OverrideKeeps, RanksAssumption DEF set_elo, IInv, Types
<1>4. ASSUME NEW rating \in Overrides, Cmd_SetElo(rating) PROVE IInv'
  BY <1>4, OverrideKeeps, LobbyTierIsTier, RanksAssumption DEF Cmd_SetElo
<1>5. ASSUME NEW to \in Overrides, start_new_season(to) PROVE IInv'
  <2>1. to \in Nat /\ elo \in Nat /\ tier \in 0..17
    BY RanksAssumption DEF IInv, Types
  <2>2. AtLeastZero(elo - to) \in Nat
    BY <2>1, AtLeastZeroIs
  <2>3. to + AtLeastZero(elo - to) \div 2 \in Nat
    BY <2>1, <2>2
  <2> QED BY <1>5, <2>1, <2>3, OverrideKeeps DEF start_new_season
<1>6. CASE Cmd_ResetRank
  BY <1>6, OverrideKeeps DEF Cmd_ResetRank
<1>7. CASE UNCHANGED vars
  BY <1>7 DEF vars, IInv, Types, BeforeIsElo, TierNearElo, AnnouncedIsReached
<1> QED BY <1>1, <1>2, <1>3, <1>4, <1>5, <1>6, <1>7 DEF Next

LEMMA IInvHolds == Spec => []IInv
BY IInvInit, NextKeeps, PTL DEF Spec

-----------------------------------------------------------------------------
\* The tier the UPDATE of update_player_after_match stores, which counts the change
\* twice, is a tier, and at most two away from that of the rating until somebody
\* other than the daemon writes either.
THEOREM TiersNear == Spec => []TierNearElo
<1>1. IInv => TierNearElo
  BY DEF IInv
<1> QED BY <1>1, IInvHolds, PTL

\* A player who is told of a rank-up has the tier he was told, whichever way Python
\* and SQL have come to it, if nobody else wrote his rating during the match.
THEOREM RankUpsReached == Spec => []AnnouncedIsReached
<1>1. IInv => AnnouncedIsReached
  BY DEF IInv
<1> QED BY <1>1, IInvHolds, PTL

\* apply_elo_decay leaves a player in his tier and never raises his rating, for any
\* rating and any number of weeks.
THEOREM DecayStops == Spec => []DecayKeepsTier
<1>1. IInv => DecayKeepsTier
  BY DecayWithinTier, RanksAssumption DEF IInv, Types, DecayKeepsTier
<1> QED BY <1>1, IInvHolds, PTL

=============================================================================
