---------------------------- MODULE MatchResults ----------------------------
(***************************************************************************)
(* What becomes of a match once it is over: step 4 of the daemon's tick    *)
(* (matchmaker.py), which rates the players and punishes the abandoners,   *)
(* the formulas of elo_ranking.py, and step 5, which destroys the          *)
(* container and closes the match, and after which step 4 never looks at   *)
(* it again.  Beside the daemon: the match server, which ends matches at   *)
(* any moment, and the administrators, who overwrite ratings, cancel       *)
(* matches and close them.                                                 *)
(*                                                                         *)
(* One action per transaction.  A statement may fail (the database is      *)
(* away) and the daemon may crash between any two of them.  Nothing of     *)
(* step 4 is kept across a crash: the only trace of a match half rated is  *)
(* elo_change in mm_match_players.                                         *)
(*                                                                         *)
(* Left out: mm_elo_history and mm_bans, which the step only writes, and   *)
(* rank_tier.  The logistic curve is a table with one step per 100 ELO.    *)
(***************************************************************************)
EXTENDS Integers, FiniteSets, Functions

CONSTANTS
  Players, Matches,
  Team1,          \* the players create_match writes as 'team1', the others are team 2
  StartElos,      \* ratings a player may begin with
  Overrides,      \* ratings an administrator may write
  MinPlacement,   \* MIN_PLACEMENT_MATCHES
  MaxAttempts,    \* _CLEANUP_MAX_ATTEMPTS
  MaxDisturbances,   \* bound: interventions of administrators and faults together
  NoMatch

ASSUME ResultsAssumption ==
  /\ IsFiniteSet(Players) /\ IsFiniteSet(Matches)
  /\ Team1 \subseteq Players
  /\ StartElos \cup Overrides \subseteq Nat
  /\ {MinPlacement, MaxDisturbances} \subseteq Nat
  /\ MaxAttempts \in Nat \ {0}
  /\ NoMatch \notin Matches

VARIABLES
  player,     \* mm_players: elo, played, offences (abandon_count)
  match,      \* mm_matches: status, winner, cleaned, attempts
  line,       \* mm_match_players: before (elo_before), change (elo_change), abandoned
  pc, todo,   \* the daemon: where it is, the matches the step has yet to visit,
  cur, left,  \*   the match it rates, the players of it yet to be visited
  changes,    \*   and elo_changes
  base,       \* history: what a player's rating would be without any match
  late,       \* history: matches that ended between the SELECTs of steps 4 and 5
  withdrawn,  \* history: matches cancelled, or closed by the web panel
  overrides, faults   \* bounds: what is done to a match or a rating from outside,
                      \*   and what fails

database == <<player, match, line>>
daemon == <<pc, todo, cur, left, changes>>
history == <<base, late, withdrawn, overrides, faults>>
vars == <<database, daemon, history>>

Winners == {"team1", "team2", "tie"}
Team(p) == IF p \in Team1 THEN "team1" ELSE "team2"
Larger(a, b) == IF a >= b THEN a ELSE b
Smaller(a, b) == IF a <= b THEN a ELSE b

-----------------------------------------------------------------------------
(* elo_ranking.py *)

\* Python's round(): to the nearest integer, a half to the even one.
Rounded(thousandths) ==
  LET q == thousandths \div 1000
      r == thousandths % 1000
  IN IF r < 500 \/ (r = 500 /\ q % 2 = 0) THEN q ELSE q + 1

\* 1000 / (1 + 10^(-gap/400)) at each hundred from 0 to 800.
Curve == <<500, 640, 760, 849, 909, 947, 969, 983, 990>>
ExpectedScore(a, b) ==
  LET Favourite(gap) == Curve[Smaller(gap \div 100, 8) + 1]
  IN IF a >= b THEN Favourite(a - b) ELSE 1000 - Favourite(b - a)

KFactor(n) == IF n < MinPlacement THEN 64 ELSE IF n < 30 THEN 32 ELSE 24

Average(m, team) ==
  IF team = {} THEN 0
  ELSE SumFunction([p \in team |-> line[m][p].before]) \div Cardinality(team)

\* Faulty: both teams are measured against the expectation of the first.
ExpectedOfFirstTeam(m, p) ==
  ExpectedScore(Average(m, Team1), Average(m, Players \ Team1))

Expected(m, p) ==
  LET other == Players \ Team1
  IN IF p \in Team1 THEN ExpectedScore(Average(m, Team1), Average(m, other))
                    ELSE ExpectedScore(Average(m, other), Average(m, Team1))

Actual(m, p) == IF match[m].winner = Team(p) THEN 1000
                ELSE IF match[m].winner = "tie" THEN 500 ELSE 0

CalculateMatchResults(m) ==
  [p \in Players |-> IF Team1 = {} \/ Team1 = Players THEN 0
     ELSE Rounded(KFactor(player[p].played) * (Actual(m, p) - Expected(m, p)))]

\* Faulty: only an abandoner whose team won is made to lose.
OnlyWinnersLose(m, p) == line[m][p].abandoned /\ match[m].winner = Team(p)

\* An abandoner who would not have lost is rated as if he had.
Overridden(m, p) == line[m][p].abandoned /\ match[m].winner \in {Team(p), "tie"}

EloChanges(m) ==
  [p \in Players |-> IF Overridden(m, p)
     THEN Rounded(KFactor(player[p].played) * (0 - Expected(m, p)))
     ELSE CalculateMatchResults(m)[p]]

-----------------------------------------------------------------------------
Open(m) == match[m].status = "finished" /\ ~match[m].cleaned
Ended(m) == match[m].status \in {"finished", "cancelled"} /\ ~match[m].cleaned
Goto(l) == pc' = l
NoChanges == [p \in Players |-> 0]
Fault == overrides + faults < MaxDisturbances /\ faults' = faults + 1
Override == overrides + faults < MaxDisturbances /\ overrides' = overrides + 1

Init ==
  /\ \E elo \in [Players -> StartElos] :
       /\ player = [p \in Players |-> [elo |-> elo[p], played |-> 0, offences |-> 0]]
       /\ base = elo
  /\ match = [m \in Matches |->
       [status |-> "none", winner |-> "tie", cleaned |-> FALSE, attempts |-> 0]]
  /\ line = [m \in Matches |-> [p \in Players |->
       [before |-> 0, change |-> 0, abandoned |-> FALSE]]]
  /\ pc = "idle" /\ todo = {} /\ cur = NoMatch /\ left = {}
  /\ changes = NoChanges
  /\ late = {} /\ withdrawn = {} /\ overrides = 0 /\ faults = 0

-----------------------------------------------------------------------------
(* Steps 1 to 3, reduced to what the results rest on. *)

\* create_match copies every player's rating to his line.
CreateMatch(m) ==
  /\ pc = "idle" /\ match[m].status = "none"
  /\ match' = [match EXCEPT ![m].status = "live"]
  /\ line' = [line EXCEPT ![m] = [p \in Players |->
       [before |-> player[p].elo, change |-> 0, abandoned |-> FALSE]]]
  /\ UNCHANGED <<player, daemon, history>>

-----------------------------------------------------------------------------
(* Step 4: _step_process_finished_matches *)

\* Faulty: a tie is taken for a match without a winner.
SelectDecided ==
  /\ pc = "idle"
  /\ todo' = {m \in Matches : Open(m) /\ match[m].winner # "tie"}
  /\ Goto("next")
  /\ UNCHANGED <<database, cur, left, changes, history>>

SelectFinished ==
  /\ pc = "idle"
  /\ todo' = {m \in Matches : Open(m)}
  /\ Goto("next")
  /\ UNCHANGED <<database, cur, left, changes, history>>

\* Faulty: a match is rated as often as it is selected.
NeverProcessed(m) == FALSE

\* A rating that moved is the sign that the match has been here before.
AlreadyProcessed(m) == \E p \in Players : line[m][p].change # 0

SkipProcessed(m) ==
  /\ pc = "next" /\ m \in todo /\ AlreadyProcessed(m)
  /\ todo' = todo \ {m}
  /\ UNCHANGED <<database, pc, cur, left, changes, history>>

\* The rows of the match are read once; every change is computed from them.
\* abandon_count comes with them, but no one writes it while step 4 runs.
ReadPlayers(m) ==
  /\ pc = "next" /\ m \in todo /\ ~AlreadyProcessed(m)
  /\ todo' = todo \ {m} /\ cur' = m
  /\ changes' = EloChanges(m)
  /\ left' = Players
  /\ Goto("update")
  /\ UNCHANGED <<database, history>>

\* An exception of a SELECT ends the step, whatever is left in its list.
SelectFails ==
  /\ pc = "idle" \/ (pc = "next" /\ todo # {})
  /\ Fault
  /\ todo' = {} /\ Goto("next")
  /\ UNCHANGED <<database, cur, left, changes, base, late, withdrawn, overrides>>

\* The loops over the players: over all for the ratings, then over the
\* abandoners for the penalties, then back to the list of matches.
NextPlayer(p) ==
  LET abandoned == {q \in Players : line[cur][q].abandoned} IN
  IF left # {p}
    THEN left' = left \ {p} /\ UNCHANGED <<pc, cur, changes>>
    ELSE IF pc = "update" /\ abandoned # {}
      THEN left' = abandoned /\ Goto("ban") /\ UNCHANGED <<cur, changes>>
      ELSE left' = {} /\ Goto("next") /\ cur' = NoMatch /\ changes' = NoChanges

\* Faulty: the aggregate and the scoreboard are not one transaction, and the
\* second statement is lost.
UpdateWithoutLine(p) ==
  /\ pc = "update" /\ p \in left
  /\ player' = [player EXCEPT ![p].elo = Larger(0, @ + changes[p]), ![p].played = @ + 1]
  /\ NextPlayer(p)
  /\ UNCHANGED <<match, line, todo, history>>

\* update_player_after_match.  What the floor at 0 forgives counts as given.
UpdatePlayerAfterMatch(p) ==
  /\ pc = "update" /\ p \in left
  /\ player' = [player EXCEPT ![p].elo = Larger(0, @ + changes[p]), ![p].played = @ + 1]
  /\ line' = [line EXCEPT ![cur][p].change = changes[p]]
  /\ base' = [base EXCEPT ![p] = @ + Larger(0, -(player[p].elo + changes[p]))]
  /\ NextPlayer(p)
  /\ UNCHANGED <<match, todo, late, withdrawn, overrides, faults>>

\* A player whose update fails, or whose ban cannot be written, is logged and
\* passed over.
PassOver(p) ==
  /\ pc \in {"update", "ban"} /\ p \in left /\ Fault
  /\ NextPlayer(p)
  /\ UNCHANGED <<database, todo, base, late, withdrawn, overrides>>

\* _apply_abandon_penalty: the count only matters through its ban minutes;
\* it is forgiven one level when the last abandon is 14 days old.
ApplyAbandonPenalty(p) ==
  /\ pc = "ban" /\ p \in left
  /\ \E forgiven \in {0, Smaller(1, player[p].offences)} :
       player' = [player EXCEPT ![p].offences = @ - forgiven + 1]
  /\ NextPlayer(p)
  /\ UNCHANGED <<match, line, todo, history>>

-----------------------------------------------------------------------------
(* Step 5: _step_cleanup_servers, whose detail is in module Daemon. *)

\* The tick ends with the last match that was to be closed.
CloseLoop(rest) == todo' = rest /\ Goto(IF rest = {} THEN "idle" ELSE "clean")

ReadEnded ==
  /\ pc = "next" /\ todo = {}
  /\ CloseLoop({m \in Matches : Ended(m)})
  /\ UNCHANGED <<database, cur, left, changes, history>>

MarkMatchCleaned(m) ==
  /\ pc = "clean" /\ m \in todo
  /\ match' = [match EXCEPT ![m].cleaned = TRUE]
  /\ CloseLoop(todo \ {m})
  /\ UNCHANGED <<player, line, cur, left, changes, history>>

\* Faulty: one refusal more than the constant says.
DestroyRefusedOnceMore(m) ==
  /\ pc = "clean" /\ m \in todo
  /\ match' = [match EXCEPT ![m].attempts = @ + 1,
                            ![m].cleaned = @ \/ match[m].attempts >= MaxAttempts]
  /\ CloseLoop(todo \ {m})
  /\ UNCHANGED <<player, line, cur, left, changes, history>>

\* Docker keeps the container; the MaxAttempts-th time the match is closed anyway.
DestroyRefused(m) ==
  /\ pc = "clean" /\ m \in todo
  /\ match' = [match EXCEPT ![m].attempts = @ + 1,
                            ![m].cleaned = @ \/ match[m].attempts + 1 >= MaxAttempts]
  /\ CloseLoop(todo \ {m})
  /\ UNCHANGED <<player, line, cur, left, changes, history>>

\* An error ends the step, or only passes over the match it happened to.
CleanupFails ==
  /\ pc = "clean" \/ (pc = "next" /\ todo = {})
  /\ Fault
  /\ \E rest \in {{}} \cup {todo \ {m} : m \in todo} : CloseLoop(rest)
  /\ UNCHANGED <<database, cur, left, changes, base, late, withdrawn, overrides>>

\* The process dies and is started again: what it held in memory is gone.
Crash ==
  /\ pc # "idle" /\ Fault
  /\ Goto("idle") /\ todo' = {} /\ cur' = NoMatch /\ left' = {} /\ changes' = NoChanges
  /\ UNCHANGED <<database, base, late, withdrawn, overrides>>

-----------------------------------------------------------------------------
(* The match server and the administrators. *)

\* Event_MatchEnd writes the winner and the status in one statement.  By then
\* the lines of the players who left for good are marked: nobody reads them
\* before.  The statement does not ask for the status, and a match that is
\* cancelled is played on until its container is gone.
Finish(m, w, quitters) ==
  /\ match[m].status \in {"live", "cancelled"}
  /\ match' = [match EXCEPT ![m].status = "finished", ![m].winner = w]
  /\ line' = [line EXCEPT ![m] = [p \in Players |-> [@[p] EXCEPT !.abandoned = p \in quitters]]]
  /\ late' = IF pc \in {"next", "update", "ban"} THEN late \cup {m} ELSE late
  /\ UNCHANGED <<player, daemon, base, withdrawn, overrides, faults>>

Withdraw(m) ==
  /\ Override
  /\ withdrawn' = withdrawn \cup {m}
  /\ UNCHANGED <<player, line, daemon, base, late, faults>>

\* match_cancel of the web panel; a warmup that times out, in the plugin and in
\* step 7.
CancelMatch(m) ==
  /\ match[m].status = "live"
  /\ match' = [match EXCEPT ![m].status = "cancelled"]
  /\ Withdraw(m)

\* match_cleanup of the web panel, whatever the status of the match: cleaned_up
\* is set, and neither the container nor the players are looked at.
MatchCleanup(m) ==
  /\ match[m].status # "none"
  /\ match' = [match EXCEPT ![m].cleaned = TRUE]
  /\ Withdraw(m)

\* What p has won or lost in the matches rated so far.
Won(p) == SumFunction([m \in Matches |-> line[m][p].change])

\* Ratings written over: elo, and the history variable that explains them.
GiveRatings(elo) ==
  /\ Override
  /\ player' = [p \in Players |-> [player[p] EXCEPT !.elo = elo[p]]]
  /\ base' = [p \in Players |-> base[p] + elo[p] - player[p].elo]
  /\ UNCHANGED <<match, line, daemon, late, withdrawn, faults>>

\* set_elo of the web panel; sm_mm_setelo and sm_mm_resetrank of the lobby.
SetElo(p, elo) == GiveRatings([q \in Players |-> IF q = p THEN elo ELSE player[q].elo])

\* start_new_season, one transaction: the part above the reset value is halved.
StartNewSeason(to) ==
  GiveRatings([p \in Players |-> to + Larger(0, player[p].elo - to) \div 2])

-----------------------------------------------------------------------------
Step4 ==
  \/ SelectFinished \/ SelectFails
  \/ \E m \in Matches : SkipProcessed(m) \/ ReadPlayers(m)
  \/ \E p \in Players : UpdatePlayerAfterMatch(p) \/ PassOver(p) \/ ApplyAbandonPenalty(p)

Step5 ==
  \/ ReadEnded \/ CleanupFails
  \/ \E m \in Matches : MarkMatchCleaned(m) \/ DestroyRefused(m)

Environment ==
  \/ \E m \in Matches : CreateMatch(m) \/ CancelMatch(m) \/ MatchCleanup(m)
  \/ \E m \in Matches, w \in Winners, quitters \in SUBSET Players : Finish(m, w, quitters)
  \/ \E p \in Players, elo \in Overrides : SetElo(p, elo)
  \/ \E to \in Overrides : StartNewSeason(to)

Next == Step4 \/ Step5 \/ Crash \/ Environment

Spec == Init /\ [][Next]_vars

-----------------------------------------------------------------------------
(* Properties *)

TypeOK ==
  /\ player \in [Players -> [elo : Nat, played : Nat, offences : Nat]]
  /\ match \in [Matches -> [status : {"none", "live", "finished", "cancelled"}, winner : Winners,
                            cleaned : BOOLEAN, attempts : 0..MaxAttempts]]
  /\ line \in [Matches -> [Players -> [before : Nat, change : Int, abandoned : BOOLEAN]]]
  /\ pc \in {"idle", "next", "update", "ban", "clean"}
  /\ todo \subseteq Matches /\ late \subseteq Matches /\ withdrawn \subseteq Matches
  /\ cur \in Matches \cup {NoMatch} /\ (pc \in {"update", "ban"} => cur \in Matches)
  /\ left \subseteq Players
  /\ changes \in [Players -> Int] /\ base \in [Players -> Int]
  /\ overrides \in Nat /\ faults \in Nat /\ overrides + faults <= MaxDisturbances

\* A rating is the one its player was given plus the changes his scoreboards
\* show: no match counts twice and none in part, whatever fails or crashes in
\* step 4 and however administrators and seasons interfere.
EloIsSum == \A p \in Players : player[p].elo = base[p] + Won(p)

\* Without a fault, a match is closed only after everyone in it was rated and
\* whoever abandoned it was punished.  The exceptions: it ended between the
\* SELECT of step 4 and that of step 5 and is closed without ever being rated;
\* it was cancelled; or the panel's cleanup closed it, played to its end or not.
ClosedIsRated ==
  faults = 0 => \A p \in Players :
    LET closed == {m \in Matches \ (late \cup withdrawn) : match[m].cleaned} IN
      /\ player[p].played >= Cardinality(closed)
      /\ (\E m \in closed : line[m][p].abandoned) => player[p].offences > 0

\* USAGE.md: an abandon "is calculated as a loss regardless of your team's
\* result".  Nobody gains from a match he abandoned.
AbandonerLoses ==
  \A m \in Matches, p \in Players : line[m][p].abandoned => line[m][p].change <= 0

\* The averages of the teams are close enough for a defeat to cost at least one
\* point, whatever the K-factor: 24 times what the curve leaves at 600.
Near(m) ==
  LET gap == Average(m, Team1) - Average(m, Players \ Team1) IN gap > -700 /\ gap < 700

\* Without a fault nobody is punished more often than he abandoned, although a
\* match stays selected as long as Docker keeps its container.  Teams further
\* apart than Near may be rated without a rating moving, and again.
PunishedOnce ==
  faults = 0 /\ (\A m \in Matches : Near(m)) => \A p \in Players :
    player[p].offences <= Cardinality({m \in Matches : line[m][p].abandoned})

\* Between players with the same K-factor and nobody abandoning, what one team
\* wins the other loses: a match neither makes nor destroys rating.
ZeroSum ==
  /\ pc = "update"
  /\ \A p, q \in Players : KFactor(player[p].played) = KFactor(player[q].played)
  /\ left = Players
  /\ \A p \in Players : ~line[cur][p].abandoned
  /\ 2 * Cardinality(Team1) = Cardinality(Players)
  => SumFunction(changes) = 0

=============================================================================
