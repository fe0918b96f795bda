------------------------------ MODULE RankTiers ------------------------------
(***************************************************************************)
(* The rank tier of a player: rank_tier of mm_players, which every page    *)
(* and notification shows, beside his rating.                              *)
(*                                                                         *)
(* The daemon writes both in one statement when it rates a match, the      *)
(* lobby's setelo and resetrank write both by another table, the panel's   *)
(* setelo and a new season write the rating alone.  A rank-up is announced *)
(* from elo_before, the rating of the time the match was created.          *)
(*                                                                         *)
(* One player is enough: no statement looks at two.  How a change comes    *)
(* about is the subject of MatchResults.                                   *)
(***************************************************************************)
EXTENDS Integers, Sequences, FiniteSetsExt

CONSTANTS
  Changes,       \* what a match may be worth to the player
  Overrides,     \* the ratings administrators and seasons set
  MaxMatches,    \* bound: matches
  MaxOverrides,  \* bound: uses of an override
  Weeks          \* weeks of inactivity apply_elo_decay is checked for

\* No K-factor is greater than 64.
ASSUME RanksAssumption ==
  /\ Changes \subseteq -64..64
  /\ Overrides \subseteq Nat /\ Weeks \subseteq Nat
  /\ MaxMatches \in Nat /\ MaxOverrides \in Nat

VARIABLES
  elo, tier,     \* mm_players: elo, rank_tier
  before,        \* mm_match_players.elo_before of the match under way, or NoMatch
  announced,     \* the tier announced for the last match, or NoTier
  matches, overrides,   \* bounds
  stale,         \* history: the rating was written by another than the daemon since
                 \* the last match was rated
  moved          \* history: ... since the match under way was created

vars == <<elo, tier, before, announced, matches, overrides, stale, moved>>

NoMatch == -1
NoTier == -1

-----------------------------------------------------------------------------
(* elo_ranking.py                                                          *)

\* RANK_THRESHOLDS: the entry of tier t has the index t + 1.
Thresholds == <<0, 800, 850, 900, 950, 1000, 1050, 1100, 1150, 1200,
                1300, 1400, 1500, 1600, 1700, 1800, 1900, 2000>>

get_rank_tier(rating) == Max({0} \cup {t \in 1..17 : rating >= Thresholds[t + 1]})

tier_min_elo(t) == IF t < 0 THEN 0 ELSE Thresholds[Min({t, 17}) + 1]

\* Faulty: the floor is that of the tier the player would decay to.
FloorOfDecayed(rating, weeks) ==
  LET decayed == rating - 10 * (weeks - 2) IN
    IF weeks <= 2 THEN rating ELSE Max({decayed, tier_min_elo(get_rank_tier(decayed))})

apply_elo_decay(rating, weeks) ==
  IF weeks <= 2 THEN rating
  ELSE Max({rating - 10 * (weeks - 2), tier_min_elo(get_rank_tier(rating))})

\* csgo_mm.inc, MM_EloToTier.
LobbyThresholds == <<700, 800, 900, 1000, 1100, 1200, 1350, 1500, 1650, 1800,
                     1950, 2100, 2250, 2400, 2550, 2700, 2850>>
MM_EloToTier(rating) == Max({0} \cup {t \in 1..17 : rating >= LobbyThresholds[t]})

AtLeastZero(n) == Max({0, n})

-----------------------------------------------------------------------------
(* DB_UpsertPlayer inserts a new player with 1000 and 5. *)
Init ==
  /\ elo = 1000 /\ tier = 5
  /\ before = NoMatch /\ announced = NoTier
  /\ matches = 0 /\ overrides = 0
  /\ stale = FALSE /\ moved = FALSE

\* create_match copies the rating.
CreateMatch ==
  /\ before = NoMatch /\ matches < MaxMatches
  /\ before' = elo /\ matches' = matches + 1
  /\ announced' = NoTier /\ moved' = FALSE
  /\ UNCHANGED <<elo, tier, overrides, stale>>

\* update_player_after_match.  The assignments of the UPDATE are worked off from
\* left to right: the elo of the second is the elo the first has written.
NewElo(change) == AtLeastZero(elo + change)

\* Faulty: the tier reached is kept, as elo_peak is.
NewPeakTier(change) == Max({tier, get_rank_tier(AtLeastZero(NewElo(change) + change))})

NewTier(change) == get_rank_tier(AtLeastZero(NewElo(change) + change))

\* Faulty: a tier that is kept is announced as well.
RankKept(change) ==
  LET new == get_rank_tier(AtLeastZero(before + change))
  IN IF new >= get_rank_tier(before) THEN new ELSE NoTier

\* The row of the match has no rank_tier, so the old tier is that of elo_before.
RankUp(change) ==
  LET old == get_rank_tier(before)
      new == get_rank_tier(AtLeastZero(before + change))
  IN IF new > old THEN new ELSE NoTier

UpdatePlayerAfterMatch(change) ==
  /\ before # NoMatch /\ before' = NoMatch
  /\ elo' = NewElo(change) /\ tier' = NewTier(change)
  /\ announced' = RankUp(change)
  /\ stale' = FALSE
  /\ UNCHANGED <<matches, overrides, moved>>

Override(newElo, newTier) ==
  /\ overrides < MaxOverrides /\ overrides' = overrides + 1
  /\ elo' = newElo /\ tier' = newTier
  /\ announced' = NoTier /\ stale' = TRUE /\ moved' = TRUE
  /\ UNCHANGED <<before, matches>>

set_elo(rating) == Override(rating, tier)
Cmd_SetElo(rating) == Override(rating, MM_EloToTier(rating))
Cmd_ResetRank == Override(1000, 5)
start_new_season(to) == Override(to + AtLeastZero(elo - to) \div 2, tier)

Next ==
  \/ CreateMatch
  \/ \E change \in Changes : UpdatePlayerAfterMatch(change)
  \/ \E rating \in Overrides :
       set_elo(rating) \/ Cmd_SetElo(rating) \/ start_new_season(rating)
  \/ Cmd_ResetRank

Spec == Init /\ [][Next]_vars

-----------------------------------------------------------------------------
(* Properties *)

\* Although the UPDATE counts the change twice, the tier it writes is at most two
\* away from that of the rating, for as long as only the daemon writes both.  It
\* always is a tier, and no rating falls below zero.
TierNearElo ==
  /\ elo \in Nat /\ tier \in 0..17
  /\ ~stale => tier - get_rank_tier(elo) \in -2..2

\* A rank-up is announced from elo_before and by Python, the tier stored from elo
\* and by SQL.  If nobody wrote the rating while the match was played, a player
\* has at least the tier he was told.
AnnouncedIsReached == announced # NoTier /\ ~moved => tier >= announced

\* However long a player stays away, the decay leaves him in his tier and never
\* gives him anything.
DecayKeepsTier ==
  \A w \in Weeks :
    /\ get_rank_tier(apply_elo_decay(elo, w)) = get_rank_tier(elo)
    /\ apply_elo_decay(elo, w) <= elo

=============================================================================
