# CSGO-Matchmaking: a verification project

This directory holds TLA+ modules for the matchmaking system of this repository, the TLC
configurations that check them on small instances, and theorems about them that TLAPS
checks for every instance.

## 1. The system

| Part | State it keeps | Operations |
|---|---|---|
| MySQL schema (`database/schema.sql`) | all shared state: `mm_queue`, `mm_matches`, `mm_match_players`, the port and token pools, players, bans, parties | statements, each one InnoDB transaction |
| Daemon (`matchmaker/`) | the locals of one single-threaded tick | seven steps: find a group and open a ready check; expire ready checks; create servers; apply results; clean up servers; expire queue rows; cancel warmups |
| Docker backend | containers `csgo-match-<id>` on the host network | `create_server`, `destroy_server`, `cleanup_finished_servers` |
| Lobby queue plugin (`csgo_mm_queue.sp`) | `g_bQueued`, `g_bReadyCheck` and the panel per client slot | `!queue`, `!leave`, the poll every few seconds, accept and decline, expiry timers |
| Party plugin (`csgo_mm_party.sp`) | party, leader flag, shown invitation and cached ELO per client slot | create, invite, accept, decline, kick, leave, dissolve, hand over, expire |
| Lobby admin plugin (`csgo_mm_admin.sp`) | none | forcestart, cancelqueue, ban, unban, setelo, resetrank |
| Match plugin (`csgo_mm_match.sp`) | warmup, knife, live, finished; statistics; pauses; surrender votes | writes `mm_matches.status`, connections, statistics |
| Web panel (`web-panel/`) | sessions | queue kick, match cancel and cleanup, bans, ELO, maps, seasons, admins |
| Notifiers, RCON client, installer, scripts | none that the pipeline reads | input and output |

The parts never call one another: they meet in the database and on the Docker host. That
is where the hard behaviour comes from.

* The daemon reads rows in one transaction and acts on them in others. Players, game
  servers and administrators change the same rows in between.
* A ready check that times out is cancelled in two transactions; a match is cleaned in three.
* The unique key `(steam_id, status)` of `mm_queue` makes an UPDATE fail as a whole.
* The daemon may die anywhere; nothing but the tables survives, and no step looks for what
  the last process left half done.
* Docker may refuse a start or a removal; removals are retried and then given up.
* Pools are small: twenty ports, and as many tokens as the administrator registered.
* The lobby plugins decide by what they have in memory, send statements to one thread that
  works them off by priority, and go on in callbacks; commands, disconnects and other
  callbacks come in between.
* A ban is kept in two tables that three parts write with two or three statements each.
* Results are written player by player, and the only sign that a match was rated is that a
  rating moved. Administrators and seasons overwrite ratings meanwhile.

What makes each part correct: a port and a token belong to one match at a time and come
back; nobody is sent to a server without consent, nor to one that does not exist; an
accepted ready check leads somewhere; an ended match is cleaned up; ratings are applied
once and in step with the scoreboard, and whoever abandons a match loses; a match has its
ten players, parties stay together and the draft is balanced; a party has one leader, only
invited members, and is never left behind empty; a match goes from warmup to its end and
never back; whoever is banned is out of the queue and on the list an administrator lifts bans
from; the tier shown beside a rating is the tier of that rating.

## 2. The modules

| Module | What it is |
|---|---|
| `QueueTable` | `mm_queue` as a set of rows; each SQL statement as an operator from table to table, the unique key included. No variables. |
| `Database` | the shared variables: the queue, the matches, the pools, the containers with the phase of the plugin in each, the lobby's flags. Constants and their assumptions. |
| `Lobby` | the lobby queue plugin for a player without a party, and the queue commands of the administrators |
| `GameServers` | what a match plugin writes into the database, and the web panel's match commands |
| `Daemon` | the tick, one action per transaction or Docker call; crashes and failing statements |
| `PortLease` | the abstract specification of the port pool |
| `Matchmaking` | the composition, the properties and the refinement mapping |
| `MatchServer` | the match plugin of one server in detail; shown to do only what `GameServers` says |
| `MatchResults` | step 4 of the tick with the ELO formulas, and step 5 as far as it decides which matches step 4 sees; the end of matches, the administrators' ratings, seasons |
| `TeamBalance` | `find_balanced_match`: its two loops turn by turn, over every small queue |
| `Parties` | the party plugin: its commands, its callbacks and the list of statements under way |
| `Bans` | the two tables of bans and the sequences of statements of the daemon, the lobby and the panel that write them; the queue as far as a ban reaches it |
| `RankTiers` | `rank_tier` beside the rating: the daemon's UPDATE, the overrides, the announced rank-ups; the decay as an operator |
| `MC_Matchmaking`, `MC_Results`, `MC_Parties`, `MC_RankTiers` | symmetry sets and sets of numbers for TLC |
| `MatchmakingProofs` | the theorems about `Matchmaking`, in three parts: the statements of `QueueTable`, the ready check, the pool |
| `TeamProofs`, `ResultsProofs`, `MatchServerProofs`, `BansProofs`, `PartiesProofs`, `RankTiersProofs` | those about the module of that name (`TeamBalance`, `MatchResults`, ...) |
| `Sums` | lemmas about `SumFunction` of the community modules, for the two proofs that add up |

`QueueTable` <- `Database` <- {`Lobby`, `GameServers`, `Daemon`} <- `Matchmaking` (an arrow is
EXTENDS); `Matchmaking` instantiates `PortLease`, and `MatchServer` instantiates `GameServers`.
`MatchResults`, `TeamBalance`, `Parties`, `Bans` and `RankTiers` stand alone: each works on
tables, or on a copy read once, that the others do not touch, and says in its header what it takes
from them.

### How state and actions correspond to the code

`queue` is `mm_queue`. A row has its player, its rank among the rows of that player (for
ORDER BY id), its status, its match and `ready`. `matches[m]` is the row of `mm_matches`
with the players of `mm_match_players` and the set of those with `connected = 1`; the
port and token stay in the row when they are released, as in the code. `busyPorts` and
`busyTokens` are the rows with `in_use = 1`: `release_port` frees a number, whichever
match it is assigned to. `server[m]` is the container of that name. `client[p]` is the
pair of flags of the lobby plugin.

`pc` is where the daemon's thread is, and `group`, `absent`, `port`, `token`, `todo`,
`ended`, `gone`, `cur` are its locals. The tick is a straight line with loops in it, so
the actions of `Daemon` read in the order of the code. `StatementFails` is an exception of
`Database.execute` or of one of the calls: `Handler` says which `except` catches it at
each point, and whether the loop around goes on. `Crash` forgets the locals and restarts
the tick. `StartFails` and the last disjunct of `DestroyServer` are a Docker host that
refuses, possibly after it has created or stopped the container.

In `MatchServer` each handler of the plugin is an action: an event of the engine, a command,
a timer, an answer of the database. They run one at a time in the code, and in any order in
the model. `pending` is the set of timers that run, with the query of the map vote; `handles`
the set of the plugin's timer handles that are not null. The two differ after a change of the
map, which closes timers and leaves the handles: `MapStarts` follows `OnMapStart` to the
first `KillTimer` that raises. `slot` and `earned` are the client slots: the counters of a
slot outlive the player in it. The engine is external: `engine` is its round, a restart that
was asked for and a pause; `side1` the side team 1 really plays on; `won` who really won.
`Spec` of the other modules sees the plugin through `GameServers`; the mapping is at the end
of the module: a plugin that has no connection to the database is, for them, in warmup.

In `MatchResults` each transaction of step 4 is an action: `SelectFinished`, the SELECTs of one
match (`SkipProcessed`, `ReadPlayers`, which computes every change), one
`UpdatePlayerAfterMatch` per player, one `ApplyAbandonPenalty` per abandoner, then the
statements of step 5. `PassOver`, `SelectFails` and `CleanupFails` are exceptions with what the
code's `except` does about them; `Crash` forgets the locals. `line` is `mm_match_players`. The
variable `base` is not in the code: it is what a player's rating would be had he played no
match, so that a rating can be compared with the scoreboards that explain it. `late` marks
matches that end between the SELECTs of steps 4 and 5, `withdrawn` those that are cancelled
(`CancelMatch`: the panel, or a warmup that times out) or closed by the panel's cleanup, which sets
`cleaned_up` whatever the status (`MatchCleanup`). Step 5 also closes cancelled matches; one that is
cancelled while it is played may still end, because the UPDATE of `Event_MatchEnd` does not ask
for the status (`Finish`).

In `TeamBalance` the state is the locals of `find_balanced_match` and of
`_snake_draft_with_parties`: `Collect` and `Draft` are one turn of each loop. The queue is a
variable that never changes, so that one run covers every queue. A block is a party or a
single player: size, average ELO, waiting time.

In `Parties`, `client` is the plugin's arrays and `pending` the statements sent and not yet
answered. A statement and its callback are one step at the head of `pending`. `Send` puts
High statements before Normal ones; when a Normal one may already be in work, both orders are
taken. A callback looks its client up by user id, so `Orphaned` makes every statement lose a
client who goes. `tickets` counts invitations against joins. `confused` records the
things after which the plugin's memory and the tables part for good: the answer of a reconnecting
client's SELECT arrives after he has acted; a player becomes a member of two parties
(he founds one while his accept is under way), after which `uq_leader` may refuse a hand-over;
and a player accepts an invitation again, or founds a party, before his first accept is answered.

In `Bans`, `job[a]` is what the daemon, the lobby or a request of the panel has still to run:
a request puts its first statement there, each statement is an action, `Following` is the order
of the code, `Stops` an exception or the end of the process behind any of them, `Skips` a
statement of the lobby that fails while those behind it are already sent. `banned` and `until`
are what `!queue` compares (`Refused`); `rows` is `mm_bans`, of which the panel shows those that
have not expired (`Listed`). `torn` and `barred` are history: the players for whom one sequence
cut another short, and those whom `sm_mm_ban` found or left out of the queue. `queue[p]` is the set
of statuses of a player's rows in `mm_queue`, of which `UNIQUE KEY (steam_id, status)` allows
one each; every UPDATE of a status goes through `Updated`, which changes nothing when the key
refuses it, as MySQL rolls back the whole statement.

In `RankTiers` the three tables of thresholds are the code's: `RANK_THRESHOLDS` and the SQL of
the daemon agree, `MM_EloToTier` of the lobby is another one. `NewElo` and `NewTier` are the
two assignments of one UPDATE, in the order MySQL works them off.

### What is abstracted

* Time. A statement that compares with `NOW()` chooses which rows are old enough; nothing depends
  on a timer firing early enough. So the models show what holds whatever the timers do.
  `MatchServer` has five guards that order two delays where the code fixes both (2 s for the knife
  menu before a restart or the next round, 15 s for the menu itself before its fallback, the map
  vote's query before the first count of players, the last change of the map before a live match);
  each says so in its comment. The expiry of step 2 compares `queued_at` and not the time the
  ready check began (`mysql_queue.py:377`), which this covers too.
* A query of the lobby plugin and its callback are one action. The chain of queries of `!queue` is
  one action that ends in the INSERT; its interleavings are planned.
* For `Daemon`, `find_balanced_match` returns some `Required` waiting players. ELO windows,
  parties and avoid lists restrict which: `TeamBalance`. There the members of a party share one
  waiting time, the avoid list may or may not name a pair, and the map's choice is left out.
* The three statements of the web panel's cleanup, and the count and the UPDATE of forcestart, are
  one action each.
* Bans, ELO, statistics and history are not in the tables of the pipeline's modules; step 4 of the
  tick touches nothing there. `MatchResults` has the ratings, the number of matches and of
  offences, `Bans` the bans, `RankTiers` the tier of one player for whom a match is worth some
  change. History, streaks, totals and notifications are left out. The logistic curve is a table
  with a step per 100 ELO, and team averages are floored; rounding is Python's, a half to the
  even. An abandon is written before the match ends, and read only after it: `Finish` writes both.
* `Parties` leaves out the ELO gap, the queue rows of members, statements that fail for another
  reason than a key, and the chat. `joined_at` has seconds: any member may be the first.
* Of the match plugin: reports, `!score`, the chat, the whitelist's refusal, queries that fail.
  Statistics are sets: whose deeds a counter holds, not how many. A timer that repeats without
  effect is no step. The engine's own change of the map after the end is left out; the players
  have been redirected by then.
* `Bans` follows one player's rows: a statement over several players, which the key refuses for
  all of them when it refuses it for one, is a statement per player that may be left out. Rows of
  `mm_queue` are never deleted (the purge of `docs/MAINTENANCE.md:299` is done by hand).
* `Bans` counts minutes, and none pass within a sequence of statements. Reasons, authors and the
  record of who lifted a ban are left out; the page that lists bans asks for the column
  `created_at` as well and raises, so `Listed` follows the dashboard's count and the players'
  page, which have the same condition.
* A lost connection to Docker exactly between finding a container and stopping it, the one failure
  `destroy_server` does not catch, is left out.

## 3. The runs

`Faults` says what an instance has to endure: `crash`, `db` (a statement raises), `docker`
(the API refuses), `admin` (force commands). Each run has the smallest instance in which its
question can be answered both ways; the mutants listed in PROJECT.json show that each
property can fail there.

| Run | Instance | Checks |
|---|---|---|
| `Pool` | 1 player, 2 matches, 1 port, 1 token, docker | `TypeOK`, `LeaseExclusive`, `LeaseKept`, `LeaseAccounted`, `ImplementsLease` |
| `ReadyChecks` | 2 players, 1 match, 2 ports, 1 token, crash, db, admin | `ConsentToMatch`, `MatchedHasServer`, `ServerForTheReady` |
| `Progress` | 2 players, 1 match, docker, 2 attempts, fair daemon | `EndedIsCleaned`, `AcceptedMovesOn` |
| `MatchPlugin` | one against one, `MinRounds` 2, five plans, fair timers | `TypeOK`, `OwnStatistics`, `RequestsAreGood`, `OnlyForward`, `CancelledInWarmup`, `ImplementsGameServers`, `ChoiceEnds`, `PauseEnds` |
| `Results` | one against one, 2 matches, `MinPlacement` 1, 2 attempts, one fault or intervention | `TypeOK`, `EloIsSum`, `ClosedIsRated`, `AbandonerLoses`, `PunishedOnce`, `ZeroSum` |
| `Teams` | every queue of up to 4 blocks of 1 to 3 players, matches of 6 | `TypeOK`, `GroupIsWhole`, `MutuallyAcceptable`, `Balanced`, `Bookkeeping` |
| `Parties` | 3 players, 1 party of at most 2, 2 invitations, 4 statements under way | `TypeOK`, `OneLeader`, `InvitedOnly`, `NoEmptyParty` |
| `Bans` | 1 player, 1 panel, 3 instants, 2 offences, 2 bans, one fault, 3 rows and faults together | `TypeOK`, `RefusedIsListed`, `BannedLeavesQueue`, `EscalationNeverShortens` |
| `Tiers` | 3 matches, 2 overrides, eight changes, four periods of absence | `TierNearElo`, `AnnouncedIsReached`, `DecayKeepsTier` |
| `SecondMatch` | 1 player, 2 matches, no faults | `EverybodyIsMatched` is violated |
| `BrokenCheck` | 1 player, fair daemon, no faults | `AbandonedIsReleased` is violated |
| `WrongWinner` | one against one, nothing optional happens | `RightWinner` is violated |

Bounds: `MaxRows` bounds the rows a player ever inserts, `MaxMatches` the matches ever
created. Questions about the pool need two matches, one after the other or at once, and
only one player per match, since the players of a group are alike to the pool. Questions
about consent need two players who answer differently, and one match. In `ReadyChecks` two
ports and one token make the daemon return a port for want of a token; `Pool` has one of each,
since both matches must want the same one. It was also checked once with two ports and one
token (2.0 million states) and, without the refinement, with two of each (5.1 million).
`MaxAttempts` is 5 in the code; 1
and 2 keep the difference between the last refusal and those before it. Players, ports and
tokens are symmetric in runs without temporal properties over fairness.

`MatchPlugin` chooses one of `Plans` at the start, the set of optional things that happen in that
match: leaving with scores or with a map vote, timeouts, surrender votes with a map vote, a
database that answers after the map has started. They meet where the code lets them touch each
other; all at once would be a product of independent parts. A roster of one makes the second call
of a surrender vote decide it, as a roster of two does. `MinRounds` is 3 in the code; 2 keeps the
difference between before and after, and the round that a change of the map may find played.
`Late` admits a database that answers during the live match, and a check of the players before the
map vote's query is answered; the run sets it to FALSE. `OwnStatistics` says what the code keeps:
a player may be credited with the deeds of one who left his slot, but only of one recorded as
having abandoned the match.

`Results` needs two matches, because a rating is the sum of several and because a match may
end while the other is rated; one player per team, because the teams enter through their
averages; a second match after the first, because the K-factor changes at `MinPlacement`. The
ratings begin at 20, so that a defeat reaches the floor of `GREATEST(0, ...)`, and overrides go to
420, four steps of the curve away. One disturbance is enough to be unable to say which one did
it. `ClosedIsRated` and `PunishedOnce` are about executions without faults: with one, step 4
passes over players by design, and punishes again when no rating of a match could be written.
`ClosedIsRated` excepts what the code closes unrated without any fault: a match in `late`, and one
in `withdrawn`. The panel's cleanup is the sharper of the two, since it takes a match that was
played to its end out of the sight of step 4 when it comes before the SELECT.
`PunishedOnce` is also about teams less than 700 apart (`Near`): beyond, what a defeat costs a
player with the K-factor 24 rounds to nothing, no rating of the match need move, and the next tick
takes it for not yet processed. The run stays within that distance, and the proof of
`PunishedOnce` showed that the property needs it.

`Teams` has every block that matters to a match of six: alone, a pair, half a team and more; four
ratings whose distances lie on, between and beyond the windows of 100 and 150; two waiting
times. Four blocks are the fewest that skip one and still fill the match.

`Parties` has one party, because what goes wrong does so within one, and three players: a leader,
a member, and one who is invited while they leave. Two parties, more invitations and a third
member were checked once, without a violation: 2 players and 2 parties (8.2 million states), 3
players and 2 parties of three (12.5 million), 3 players, one party and 3 invitations (10
million). The bounds on statements and invitations make the instance stop. `OneLeader`,
`InvitedOnly` and `NoEmptyParty` are about executions without confusion. That a second accept is
confusion, the proof of `NoEmptyParty` showed: `Party_Accept` leaves the invitation in memory
until the last answer (`csgo_mm_party.sp:625`), so two inserts may be under way for one player. In
a party of three: the second to accept does so twice, the first answer makes him a member, the
leader leaves, he leaves, and the second answer gives him the party back in memory while the
removal of his row still waits. The hand-over finds his row and makes him the leader, his row
goes, and he kicks the third. The party then exists with no statement under way and nobody in it.
It takes six statements under way at once, more than the run has; TLC, led along these steps,
confirms the end.

`Bans` needs one player, since no statement looks at two, but a daemon, a lobby and a panel that
are all in the middle of something. The instants are now, before and after the end of the
shortest bans, and more than two weeks later, when an offence is forgiven; two offences make an
escalation. `MaxRows` leaves room for two bans, one for each of two actors.
`MaxTogether` bounds the bans (written or on their way), the player's rows of `mm_queue` and the
faults together, because the bans and the queue meet in `sm_mm_ban` and `!queue` only and their
product is large. Three are a ban and the two rows of the queue that the key needs to refuse the
cancel, or two bans and a fault. Two larger instances were checked once, without a violation:
four together with two instants, and all five rows a player can have in the queue with one offence
and no faults. The theorems hold for any bounds. `BannedLeavesQueue` excepts what the code does to a
banned player: `!queue` had let him through already, the key refused to cancel his row, or step 7
sends a `matched` row of his back to the queue.
`RefusedIsListed` excepts the players in `torn`, whose three windows no code closes: an unban of
the panel expires a row whose UPDATE is still to come, an INSERT of the lobby fails while its
UPDATE succeeds, and an unban stops between its statements.

`Tiers` has the largest change of each K-factor, 64, 32 and 24 with both signs (every rating
within reach of three matches), half of one, and none. `TierNearElo` says how far the
double change can lead: two tiers, because 64 points cross at most two thresholds.

`Pool` leaves out crashes, failing statements and administrators because the code does not
keep the pool's promise under them, by design or not: a crash between a claim and the INSERT,
or between `mark_match_cleaned` and the releases that follow it, leaks; after a crash between the
start of a container and its record, the restarted daemon meets the container's name, takes
the error path and releases the port and the token of a server that runs; the web panel's cleanup
releases the port of whatever match it is given.

Fairness: weak fairness of `Tick`, the daemon's own steps. `run()` catches every exception
of a tick and loops until the process is told to stop. Nothing is assumed about players,
game servers or timers, except in `MatchPlugin`: weak fairness of `KnifeAutoChoose` and
`AutoUnpause`, because a SourceMod timer that is not cancelled fires.

What the violations show:

* `SecondMatch`. Nothing ends a `matched` row when its match ends, so the UPDATE of
  `set_matched` violates the unique key at a player's second match, for the whole group,
  and the returned False is ignored. Players stay in `ready_check` while their server waits.
  (`docs/MAINTENANCE.md:299` deletes old rows by hand.)
* `BrokenCheck`. A ready check that breaks up leaves its match `creating` with its port and
  token. After as many broken checks as there are ports no match can be created until an
  administrator steps in.
* `WrongWinner`. The plugin takes team 1 for the counter-terrorists whatever the knife round's
  winner chose, and so writes the loser as the winner, from which step 4 computes the ELO.

The models have further behaviours that a text of the repository contradicts. They have no run of
their own; the properties of the passing runs are stated so that they hold all the same.

* A player who declines or leaves is no longer in the ready check, and "fully ready" counts
  only who is in it: the server starts for the others, where `docs/USAGE.md:196-198` returns them
  to the queue. `ServerForTheReady` is what is true.
* The member count of a party is read by one statement, and the member inserted by another
  that nothing limits: two invited players are both found room, where `docs/USAGE.md:93` says
  five at most. No property of `Parties` bounds a party.
* The last statement of `sm_mm_ban`, "Cancel any active queue entry for the banned player"
  (`csgo_mm_admin.sp:389`), is refused by the key of `mm_queue` (`schema.sql:99`) when the player
  has a `cancelled` row from an earlier `!leave`, decline or kick, or both a `waiting` and a
  `ready_check` row (`Cancel`): he is banned, and stays in the queue. `BannedLeavesQueue` is about
  the players whose row the key lets go.
* The panel's INSERT of a ban names `created_at`, which `mm_bans` does not have, and raises
  before the UPDATE (`InsertRaises`): no ban of the web panel is ever written, which
  `docs/USAGE.md:383` offers.
* The no-show ban writes its five minutes over whatever ban is there (`Mark`), also over that of
  an abandoner (`docs/USAGE.md:248`). `EscalationNeverShortens` compares abandons with one another.
* No statement takes `is_banned` back when `ban_until` has passed, although
  `matchmaker/models.py:28` calls it "currently banned". `!queue` compares both; the leaderboard,
  the start page and the panel's tab of banned players look at the flag alone.
* The lobby lifts a ban by `is_active` (`Deactivate`), the panel looks at `expires_at`: a lifted
  ban stays among the active ones (`docs/USAGE.md:338`). `RefusedIsListed` is about the other
  direction.
* The UPDATE of `update_player_after_match` adds the change to the rating, and then once more to
  compute the tier (`NewTier`), where `docs/CONFIGURATION.md:168` derives it from the current
  rating. `TierNearElo` bounds the difference.

## 4. The proofs

`MatchmakingProofs` proves of the ready check, for any sets of players, ports and tokens, any number
of matches and rows, and **all** faults:

| Theorem | Statement |
|---|---|
| `ConsentInvariant` | `Spec => []ConsentInv` |
| `TypeCorrect` | `Spec => []TypeOK` |
| `ConsentCorrect` | `Spec => []ConsentToMatch` |
| `MatchedHasServerCorrect` | `Spec => []MatchedHasServer` |
| `ServerForTheReadyCorrect` | `Spec => ServerForTheReady` |

from `BoundsAssumption`, `AttemptsAssumption` and the other named assumptions of
`Database`.

Why `ConsentToMatch` needs more than itself: `set_matched` does not ask for `ready`; it trusts
that the ready check it is given is complete. The daemon found that out several transactions
earlier, before it read the match, started a container and recorded it. The invariant `Step3OK`
says that completeness survives: while the thread is in step 3, every match it has yet to visit,
and the one it works on, has no unanswered row. It survives because of what every other statement
does to the table: none adds an unanswered row of a match, except `set_ready_check`, which runs in
step 1 of the same thread. The first part of the module proves that statement by statement
(`Harmless`), with the unique key; one of its lemmas needs that a waiting row has no match
(`RowsOK`), because forcestart puts waiting rows into a ready check without clearing `match_id`.
`ContainersOK` carries the recorded container from `RecordContainer` to `ConfirmGroup`, and says
that a container never disappears from a row.

Of the pool it proves, for any sets of players, ports and tokens and any number of matches, about
the whole pipeline:

| Theorem | Statement |
|---|---|
| `LeaseInvariant` | `DockerFaultsOnly` entails `Spec => []LeaseInv` |
| `LeaseExclusiveCorrect`, `LeaseKeptCorrect`, `LeaseAccountedCorrect` | the same for the three invariants of the run `Pool` |
| `LeaseRefined` | the same for `Spec => ImplementsLease` |

The hypothesis `DockerFaultsOnly`, `Faults \subseteq {"docker"}`, is the restriction of `Pool`,
and section 3 says how each of the other faults breaks the promise in the code. The theorems also
need `PortsAssumption` (no port is one of the two strings by which the mapping says that a match
has none) and that a container is attempted at least once.

None of the three invariants is inductive. Step 3 releases the port of a match it could not start
and marks the match only in step 5, which releases the port again. It harms nobody, because
no step between the two claims a port: step 1 of the next tick is the first that does.
`Sweep` says this: a match that failed to start and still holds its lease exists only while the
thread is on its way through step 3, or step 5 has it on its list. `Hands` says that what the
daemon has claimed, or is about to release, is no match's; `Starts` relates the status of a match
to its container, so that a match that failed has none that runs; `Thread` is what the thread
knows of the match it works on. The proof has one lemma per conjunct (`LeasesKept`,
`AccountedKept`, `HandsKept`, `StartsKept`, `ThreadKept`, `SweepKept`), over the kinds of step
that `StepKinds` distinguishes, and takes `TypeOK` and `Step3OK` from the part about the ready check.

`LeaseRefined` goes step by step: `CreateMatch` is `Acquire`, `StartServer` is `Start`, a
removal that Docker carries out is `Stop`, an attempt that is counted is `Refuse`, `MarkCleaned`
is `Return`, and every other step leaves the variables of `PortLease` alone.

`TeamProofs` proves, for any queue, match size, window and increase, from `TeamsAssumption`:

| Theorem | Statement |
|---|---|
| `Inductive` | `Spec => []IInv` |
| `TypeCorrect` | `Spec => []TypeOK` |
| `WholeGroups` | `Spec => []GroupIsWhole` |
| `BalancedTeams` | `Spec => []Balanced` |
| `AcceptableGroups` | `Spec => []MutuallyAcceptable` |
| `TotalsCorrect` | `Spec => []Bookkeeping` |

The invariant adds what the loops take for granted: the count never exceeds `Required`
(`Fits`), every block picked was compared with the anchor, and the draft begins only with a full
group. `Balanced` is inductive by itself once the totals are numbers; its step is the lemma
`WeakerTeamGains`: what is given to the weaker team leaves a difference no larger than the
gift or than the difference before (`GainKeepsBalance` puts it into the shape of `Balanced`).
`MutuallyAcceptable` is the triangle inequality at the anchor (`PairsAreClose`). `Bookkeeping`,
the running totals as sums over sets, rests on `TotalsGrow`, a sum with one block more.

`Sums` supplies that and what `ResultsProofs` needs: `SumFunction` is a fold over the elements of
a set in an order nobody knows. The library's induction theorems cannot be instantiated here, so
the lemmas take a smallest counterexample (`NoMinimal`, from the well-foundedness of the strict
subsets): there is an additive function on the subsets (`AdditiveExists`), it is the only one
that descends as the fold does (`AdditiveUnique`), and so the fold is additive
(`SumIsAdditive`). `SumUpdate`, `SumAdd` and `HalvesCancel` follow.

`ResultsProofs` proves, for any finite sets of players and matches, any ratings, overrides and
number of disturbances, from `ResultsAssumption`:

| Theorem | Statement |
|---|---|
| `ResultsTypeCorrect` | `Spec => []TypeOK` |
| `EloIsSumCorrect` | `Spec => []EloIsSum` |
| `AbandonerLosesCorrect` | `Spec => []AbandonerLoses` |
| `ZeroSumCorrect` | `Spec => []ZeroSum` |
| `ClosedIsRatedCorrect` | `Spec => []ClosedIsRated` |
| `PunishedOnceCorrect` | `BothTeams` entails `Spec => []PunishedOnce` |

`Course` is where steps 4 and 5 are and which matches they hold; `Fresh`, which scoreboards are
still empty. `Course` also says that what is cancelled, or closed before its end, is withdrawn, and
that no match step 4 has in hand is closed unless the panel does it (`WithdrawnRow` is what the
panel leaves alone). `EloIsSum` is then inductive by itself, because one transaction writes the
rating and the scoreboard. `Defeats`, `Agreed` and `Doomed` say what the changes computed by
`ReadPlayers` will do before they are written: cost an abandoner no less than nothing, cancel, cost
somebody something. `Counted` and `FinedOnce` count: each match that is settled for a player
is one that he played, and one for which he was fined at most once; they are the reason for
`PunishedOnce` and `ClosedIsRated`, which speak of cardinalities. The formulas have lemmas of
their own: rounding to the even is symmetric (`RoundedSymmetric`), the two expectations add up
(`ExpectedSymmetric`), a defeat never gains (`DefeatCosts`). `BothTeams` says that
neither team is empty: a match has two.

`MatchServerProofs` proves, for rosters of any finite size, any `MinRounds` above 0 (in the code
it is 3) and any set of `Plans`, from `RosterAssumption` and `MinRoundsAssumption`:

| Theorem | Statement |
|---|---|
| `ServerTypeCorrect` | `Spec => []TypeOK` |
| `OnlyForwardCorrect` | `Spec => OnlyForward` |
| `CancelledInWarmupCorrect` | `Spec => CancelledInWarmup` |
| `RequestsAreGoodCorrect` | `Spec => []RequestsAreGood` |
| `OwnStatisticsCorrect` | `Late = FALSE` entails `Spec => []OwnStatistics` |
| `ImplementsGameServersCorrect` | `Late = FALSE` and `MinRounds > 1` entail `Spec => ImplementsGameServers` |

The two action properties need `Prologue`: before the match is live no round counts, and the menu
of the knife round is on its way only while that round is over. Without it a surrender could
end a match in its knife round, and the late menu take it back. `OwnStatistics` adds `Seats` (no two
players in one slot) and `Deeds` (whose deeds the counters of a slot may hold): with a
database that answers only in the live match, players who left before are recorded nowhere, and the
property fails, which is why `Late` is a constant.

`ImplementsGameServersCorrect` is what entitles `Matchmaking` to put `GameServers` in the place of
this plugin. The step that matters is the map that was voted for: it starts whatever the state is by
then, and `GameServers` lets a server begin again only before its match is over, with the status
written at the same time. The invariant is `Course`: a map is chosen only in warmup (`Maps`), and as
long as its start is pending the match is not over, has played at most the round that the restart of
the live match cuts short, and holds no timer handle at which `OnMapStart` could stop before it writes
(`Leaving`); and a match that is played is live in the row (`Shows`), so that the second
`StartLiveMatch` of a late menu changes nothing. With a surrender after a single round (`MinRounds = 1`)
`Leaving` would fail, and a finished match begin again. A lemma per action of `GameServers`
(`SeenWarmup`, `SeenLive`, `SeenTimeout`, `SeenEnd`, `SeenConnects`) recognises it by what it
changes, and `ServerSteps` goes through the handlers.

`BansProofs` proves, for any players, panels, instants, durations and bounds, from
`BansAssumption`:

| Theorem | Statement |
|---|---|
| `BansInvariant` | `Spec => []BansInv` |
| `BansTypeCorrect` | `Spec => []TypeOK` |
| `RefusedIsListedCorrect` | `Spec => []RefusedIsListed` |
| `BannedLeavesQueueCorrect` | `Spec => []BannedLeavesQueue` |
| `EscalationCorrect` | `Spec => EscalationNeverShortens` |

`Stages` says which statements an actor can be at, and for whom. `Shown` relates the tables: a
player outside `torn` who is refused has a row that lasts as long, or his ban is just being
lifted; and whoever is about to be marked has a row that lasts as long as the mark will.
`Counted` says that the level of the penalty under way is no lower than the one before: the decay
takes off one, and the offence itself adds one. The rest is that the table of durations grows
(`BanMinutesGrow`), and what an UPDATE leaves in the queue: the statuses stay statuses
(`UpdatedStatus`), a cancel that the key lets through leaves nobody queued (`CancelledLeaves`), and
only a `waiting` or a `ready_check` row becomes one of these again (`NobodyRequeued`).

`PartiesProofs` proves, for any number of players, parties, members per party, invitations and
statements under way, from `PartiesAssumption` (parties are numbered from 1):

| Theorem | Statement |
|---|---|
| `PartiesTyped` | `Spec => []TypeOK` |
| `LeadersAlone` | `Spec => []OneLeader` |
| `AdmissionByInvitation` | `Spec => []InvitedOnly` |
| `PartiesDissolved` | `Spec => []NoEmptyParty` |

The run has one party, and at most four statements wait in it; here neither is bounded. What a
table will look like is decided by statements that are still in the list, behind others and about
players who may be gone by then, so the invariant speaks of places in the list. A step is read as
two maps between the places before and after it (`Follows`): no handler reorders what waits, and
what it sends stands behind every High statement (`Fresh`). `Base` holds of every execution: the
types, that no statement is about a party still to be founded, and that the clients a callback
finds are on the server. `Regular` holds as long as nobody is confused, and has four parts:

* `Joining`: whoever has an accept under way is in no party and has only that one, and what
  removes him comes before what inserts him.
* `Membership`: who is in a party in the plugin's memory is a member once the list is done
  (`Stayer`), and a party that exists has such a member, or somebody looks whether it is empty
  behind all who leave (`LookedAt`).
* `Succession`: one hand-over of a party at a time; when it begins no client is the leader, and
  whoever held the party has left it for good (`Gone`), so that the heir is another. A leader in
  memory is the one the table has or will have (`Holder`).
* `Covered`: a ticket for every insertion under way and for every invitation that can still be
  used.

`OneLeader` needs all of the first three. That a transfer of the leadership meets no second leader
is because only a leader sends one and his flag goes with him; that it never names the one who
left is because his row is removed by a High statement in front of it; and that he has not come
back in between is `Joining`. Each part has a lemma that says which steps keep it (`JoiningStep`,
`MembershipStep`, `SuccessionStep`, `CoveredStep`), and each handler one that it is such a step.

`RankTiersProofs` proves, for all changes of at most 64, all overrides and all numbers of weeks, from
`RanksAssumption`:

| Theorem | Statement |
|---|---|
| `TiersNear` | `Spec => []TierNearElo` |
| `RankUpsReached` | `Spec => []AnnouncedIsReached` |
| `DecayStops` | `Spec => []DecayKeepsTier` |

It turns the search for the highest threshold below a rating into a comparison: a tier is reached
exactly when the rating is at its threshold (`TierReached`). Three thresholds in a row
span 100 points at least, so 64 points are worth two tiers at most. The run visits the ratings three
matches and two overrides lead to; the theorems are about every rating.

Only model-checked: the liveness properties `EndedIsCleaned`, `AcceptedMovesOn`, `ChoiceEnds`
and `PauseEnds`, which the prover cannot treat.

## 5. Not modelled, and the plan

1. `LobbyQueue`: the chain of queries behind `!queue`, the ready panel with its countdown, and the
   queue rows of a party: the leader queues all members, leaving cancels all of them and
   kicking one.
2. `MatchServer`: reports.

Not planned: the history of ratings, whose rows nothing reads back, and the panel's single
statements about maps, tokens, reports and administrators.

Left out for good: the public pages and the sign-in of the web panel, notifiers, RCON,
configuration, installer and scripts, which keep no state the pipeline reads.
