----------------------------- MODULE MatchServer -----------------------------
(***************************************************************************)
(* The match plugin (csgo_mm_match.sp) of one game server: warmup with its *)
(* map vote, the knife round and the choice of sides, the live match with  *)
(* timeouts and surrender votes, its end, and the changes of the map.      *)
(*                                                                         *)
(* The plugin is a set of handlers, for events of the engine, commands of  *)
(* players, timers and answers of the database; they run one at a time, in *)
(* any order.  A timer fires at any time after it was started, except      *)
(* where a guard says which of two delays is the longer one.               *)
(*                                                                         *)
(* The engine is external: its rounds, its pause and the sides the teams   *)
(* play on are what the hooks and server commands of the plugin rely on.   *)
(***************************************************************************)
EXTENDS Naturals, FiniteSets

CONSTANTS
  Team1, Team2,  \* mm_team1_steamids and mm_team2_steamids
  None,          \* no player, no winner
  MinRounds,     \* the rounds before a surrender: 3 in the code
  Plans,         \* bound: the sets of things that happen in one match
  Late           \* may the database answer after the match has begun?

ASSUME RosterAssumption ==
  /\ Team1 \cap Team2 = {}
  /\ IsFiniteSet(Team1) /\ IsFiniteSet(Team2)
  /\ None \notin Team1 \cup Team2
ASSUME MinRoundsAssumption == MinRounds \in Nat \ {0}
ASSUME PlansAssumption ==
  \A plan \in Plans :
    plan \subseteq {"offline",    \* the map starts before the database answers
                   "leave",      \* players leave, and may come back
                   "linger",     \* players come and go after the end
                   "score",      \* players score
                   "vote",       \* the map pool is not empty
                   "pause",      \* players ask for timeouts
                   "surrender"}  \* players call surrender votes
ASSUME LateAssumption == Late \in BOOLEAN

Teams == {1, 2}
Roster(t) == IF t = 1 THEN Team1 ELSE Team2
Players == Team1 \cup Team2

\* Client slots: as many as players on the whitelist.
Slots == 1 .. Cardinality(Players)

Sides == {"CT", "T"}
Opposite(s) == IF s = "CT" THEN "T" ELSE "CT"

VARIABLES
  plan,          \* what happens in this match
  state,         \* g_eMatchState
  allConnected,  \* g_bAllConnected
  pending,       \* the timers that run, and the map-vote query if it is out
  handles,       \* the timer handles that are not null
  voteDone,      \* g_bMapVoteDone
  knifeWin,      \* g_iKnifeWinCSTeam
  slot,          \* the client slot of each player, 0 when not in the game
  earned,        \* whose deeds the counters of each slot hold
  rounds,        \* g_iRoundsPlayed, up to MinRounds
  voting,        \* the teams with g_bSurrenderVote
  yes,           \* g_iSurrenderYes
  waiting,       \* the teams before their g_fSurrenderCooldown
  left,          \* the teams with g_iPausesLeft = 1
  requested,     \* the teams with g_bPauseRequested
  ready,         \* the teams with g_bUnpauseReady
  paused,        \* g_bPaused
  connection,    \* g_hDB # null
  db,            \* what the plugin has written of its match
  engine,        \* what the engine does: the round, a restart, a pause
  side1,         \* the side team 1 plays on
  won            \* the team that won, whatever the plugin wrote

life == <<state, allConnected, voteDone, knifeWin, rounds>>
clients == <<slot, earned>>
surrender == <<voting, yes, waiting>>
pauses == <<left, requested, ready, paused>>
timers == <<pending, handles>>
world == <<engine, side1, won>>
setting == <<plan, connection>>
vars == <<life, clients, surrender, pauses, timers, setting, db, world>>

MatchState == {"warmup", "knife", "live", "overtime", "finished"}
Playing == state \in {"live", "overtime"}

\* The expiry timer of a team's surrender vote.
Expiry(t) == IF t = 1 THEN "ff1" ELSE "ff2"

\* The timers whose handle the plugin keeps, in the order in which OnMapStart
\* cancels them.
Kept == <<"ff1", "ff2", "pause", "vote", "check", "warmup">>

\* The others; "query" is SELECT ... FROM mm_map_pool on its way.
Loose == {"startVote", "query", "changelevel", "menu", "auto", "countdown", "redirect"}

KeptSet == {Kept[i] : i \in DOMAIN Kept}

\* What a change of the map leaves: the timer without TIMER_FLAG_NO_MAPCHANGE,
\* and the query.
Surviving == {"query", "redirect"}

Winners == {"team1", "team2", "tie"}
Others(t) == IF t = 1 THEN "team2" ELSE "team1"

Written == [status : {"warmup", "live", "finished", "cancelled"},
            connected : SUBSET Players, abandoned : SUBSET Players,
            stats : [Players -> SUBSET Players], winner : Winners \cup {None}]

EngineState == [round : {"idle", "freeze", "play", "over"}, restart : BOOLEAN,
                hold : {"no", "asked", "held"}]

\* Every variable has the type its declaration says.
TypeOK ==
  /\ state \in MatchState
  /\ allConnected \in BOOLEAN /\ voteDone \in BOOLEAN
  /\ paused \in BOOLEAN /\ connection \in BOOLEAN
  /\ pending \subseteq KeptSet \cup Loose
  /\ handles \subseteq KeptSet
  /\ knifeWin \in Sides \cup {None}
  /\ slot \in [Players -> Slots \cup {0}]
  /\ earned \in [Slots -> SUBSET Players]
  /\ rounds \in 0 .. MinRounds
  /\ voting \subseteq Teams /\ waiting \subseteq Teams
  /\ yes \in [Teams -> Nat]
  /\ left \subseteq Teams /\ requested \subseteq Teams /\ ready \subseteq Teams
  /\ db \in Written
  /\ engine \in EngineState
  /\ side1 \in Sides
  /\ won \in Winners \cup {None}

-----------------------------------------------------------------------------
(* Helpers.                                                                *)

InGame == {p \in Players : slot[p] # 0}
SideOf(t) == IF t = 1 THEN side1 ELSE Opposite(side1)
OnSide(s) == {p \in InGame : \E t \in Teams : p \in Roster(t) /\ SideOf(t) = s}

\* A query the plugin fires; without a connection it is not sent.
Write(row) == db' = IF connection THEN row ELSE db

\* The set of timers that run, and of handles, after some are cancelled.
CancelTimers(names) ==
  /\ pending' = pending \ names
  /\ handles' = handles \ names

Fire(name) == pending' = pending \ {name} /\ handles' = handles \ {name}

StartLiveMatch ==
  /\ state' = "live"
  /\ engine' = [engine EXCEPT !.restart = TRUE]
  /\ Write([db EXCEPT !.status = "live"])

SaveAllPlayerStats(row) ==
  [row EXCEPT !.stats = [p \in Players |->
     IF p \in InGame THEN earned[slot[p]] ELSE @[p]]]

\* The end of the match: Event_MatchEnd and ExecuteSurrender.
Finish(winner, cancelled) ==
  /\ state' = "finished"
  /\ pending' = (pending \ cancelled) \cup {"countdown"}
  /\ handles' = handles \ cancelled
  /\ Write([SaveAllPlayerStats(db) EXCEPT !.status = "finished", !.winner = winner])
-----------------------------------------------------------------------------
(* Start of a map.                                                         *)

\* OnMapStart has run for the first time; the daemon has set the status.
Init ==
  /\ plan \in Plans
  /\ state = "warmup" /\ allConnected = FALSE /\ voteDone = FALSE
  /\ knifeWin = None /\ rounds = 0
  /\ slot = [p \in Players |-> 0] /\ earned = [s \in Slots |-> {}]
  /\ voting = {} /\ yes = [t \in Teams |-> 0] /\ waiting = {}
  /\ left = Teams /\ requested = {} /\ ready = {} /\ paused = FALSE
  /\ pending = {"check", "warmup", "startVote"} /\ handles = {"check", "warmup"}
  /\ connection = ("offline" \notin plan)
  /\ db = [status |-> "warmup", connected |-> {}, abandoned |-> {},
           stats |-> [p \in Players |-> {}], winner |-> None]
  /\ engine = [round |-> "idle", restart |-> FALSE, hold |-> "no"]
  /\ side1 = "CT" /\ won = None

\* DB_Connected.
DatabaseConnects ==
  /\ ~connection
  /\ Late \/ state = "warmup"
  /\ connection' = TRUE
  /\ db' = [db EXCEPT !.status = "warmup"]
  /\ UNCHANGED <<life, clients, surrender, pauses, timers, plan, world>>

(***************************************************************************)
(* The end of a map closes every timer with TIMER_FLAG_NO_MAPCHANGE, but   *)
(* the plugin's handles still have the values of the closed timers.        *)
(* OnMapStart passes them to KillTimer, which raises on a closed handle:   *)
(* OnMapStart ends there, and the handle is not set to null.  So what it   *)
(* does depends on the first handle, in its order, that is not null.       *)
(***************************************************************************)
Reaches(name) ==
  \E i \in DOMAIN Kept : Kept[i] = name /\ \A j \in 1 .. i - 1 : Kept[j] \notin handles

MapStarts ==
  /\ state' = "warmup" /\ allConnected' = FALSE /\ rounds' = 0 /\ knifeWin' = None
  /\ slot' = [p \in Players |-> 0] /\ earned' = [s \in Slots |-> {}]
  /\ voting' = {t \in voting : ~Reaches(Expiry(t))}
  /\ yes' = [t \in Teams |-> IF Reaches(Expiry(t)) THEN 0 ELSE yes[t]]
  /\ waiting' = {t \in waiting : ~Reaches(Expiry(t))}
  /\ IF Reaches("pause")
       THEN left' = Teams /\ requested' = {} /\ ready' = {} /\ paused' = FALSE
       ELSE UNCHANGED pauses
  /\ voteDone' = (voteDone /\ ~Reaches("vote"))
  /\ IF handles = {}
       THEN /\ pending' = (pending \cap Surviving) \cup {"check", "warmup", "startVote"}
            /\ handles' = {"check", "warmup"}
            /\ Write([db EXCEPT !.status = "warmup"])
       ELSE /\ pending' = pending \cap Surviving
            /\ UNCHANGED <<handles, db>>
  /\ engine' = [round |-> "idle", restart |-> FALSE, hold |-> "no"]
  /\ side1' = "CT"
  /\ UNCHANGED <<setting, won>>

-----------------------------------------------------------------------------
(* Players.                                                                *)

\* Event_PlayerConnectFull.  The engine gives a player the lowest free slot;
\* the counters of the slot keep what is in them.
PlayerConnects(p) ==
  /\ state = "finished" => "linger" \in plan
  /\ p \notin InGame
  /\ \E s \in Slots :
       /\ \A q \in InGame : slot[q] # s
       /\ \A n \in 1 .. s - 1 : \E q \in InGame : slot[q] = n
       /\ slot' = [slot EXCEPT ![p] = s]
  /\ Write([db EXCEPT !.connected = @ \cup {p}])
  /\ UNCHANGED <<life, earned, surrender, pauses, timers, setting, world>>

\* Faulty: overtime forgotten.
PlayerLeavesLiveOnly(p) ==
  /\ (IF state = "finished" THEN "linger" ELSE "leave") \in plan
  /\ p \in InGame
  /\ slot' = [slot EXCEPT ![p] = 0]
  /\ IF state = "live" THEN Write([db EXCEPT !.abandoned = @ \cup {p}]) ELSE UNCHANGED db
  /\ UNCHANGED <<life, earned, surrender, pauses, timers, setting, world>>

\* Faulty: a player who leaves is no longer connected.
PlayerLeavesDisconnects(p) ==
  /\ (IF state = "finished" THEN "linger" ELSE "leave") \in plan
  /\ p \in InGame
  /\ slot' = [slot EXCEPT ![p] = 0]
  /\ Write([db EXCEPT !.connected = @ \ {p}])
  /\ UNCHANGED <<life, earned, surrender, pauses, timers, setting, world>>

\* Event_PlayerDisconnect.
PlayerLeaves(p) ==
  /\ (IF state = "finished" THEN "linger" ELSE "leave") \in plan
  /\ p \in InGame
  /\ slot' = [slot EXCEPT ![p] = 0]
  /\ IF Playing THEN Write([db EXCEPT !.abandoned = @ \cup {p}]) ELSE UNCHANGED db
  /\ UNCHANGED <<life, earned, surrender, pauses, timers, setting, world>>

\* Event_PlayerDeath, Event_PlayerHurt, Event_PlayerMVP: kills of a knife round
\* only choose a captain, and those of warmup count for nothing.
PlayerScores(p) ==
  /\ "score" \in plan
  /\ p \in InGame
  /\ Playing
  /\ earned' = [earned EXCEPT ![slot[p]] = @ \cup {p}]
  /\ UNCHANGED <<life, slot, surrender, pauses, timers, setting, db, world>>

-----------------------------------------------------------------------------
(* Warmup.                                                                 *)

\* Faulty: only the state is set.
CheckAllConnectedStateOnly ==
  /\ "check" \in pending
  /\ state = "warmup" /\ ~allConnected
  /\ Players \subseteq InGame
  /\ state' = "knife"
  /\ CancelTimers({"check", "vote"})
  /\ engine' = [engine EXCEPT !.restart = TRUE]
  /\ UNCHANGED <<allConnected, voteDone, knifeWin, rounds, clients, surrender, pauses,
                 setting, db, side1, won>>

\* Timer_CheckAllConnected with everybody in, and StartKnifeRound; with
\* somebody missing the timer repeats.  It fires first 2 s after the query of
\* the map vote was sent.
CheckAllConnected ==
  /\ "check" \in pending
  /\ Late \/ "query" \notin pending
  /\ state = "warmup" /\ ~allConnected
  /\ Players \subseteq InGame
  /\ allConnected' = TRUE /\ state' = "knife"
  /\ CancelTimers({"check", "warmup", "vote"})
  /\ engine' = [engine EXCEPT !.restart = TRUE]
  /\ UNCHANGED <<voteDone, knifeWin, rounds, clients, surrender, pauses, setting,
                 db, side1, won>>

\* Timer_WarmupTimeout: nothing but the database learns of it.
WarmupTimeout ==
  /\ "warmup" \in pending
  /\ handles' = handles \ {"warmup"}
  /\ IF allConnected
       THEN pending' = pending \ {"warmup"} /\ UNCHANGED db
       ELSE /\ pending' = (pending \ {"warmup"}) \cup {"redirect"}
            /\ Write([db EXCEPT !.status = "cancelled"])
  /\ UNCHANGED <<life, clients, surrender, pauses, setting, world>>

\* Timer_StartMapVote.
StartMapVote ==
  /\ "startVote" \in pending
  /\ pending' = (pending \ {"startVote"}) \cup
       (IF voteDone \/ ~connection \/ state # "warmup" THEN {} ELSE {"query"})
  /\ UNCHANGED <<life, clients, surrender, pauses, handles, setting, db, world>>

\* CB_MapVoteList: the pool has maps, or it has none.
MapVoteList ==
  /\ "query" \in pending
  /\ \/ /\ voteDone' = TRUE
        /\ pending' = pending \ {"query"}
        /\ UNCHANGED handles
     \/ /\ "vote" \in plan
        /\ pending' = (pending \ {"query"}) \cup {"vote"}
        /\ handles' = handles \cup {"vote"}
        /\ UNCHANGED voteDone
  /\ UNCHANGED <<state, allConnected, knifeWin, rounds, clients, surrender, pauses,
                 setting, db, world>>

\* Timer_MapVoteExpiry: any map of the pool may have most of the votes of
\* Menu_MapVoteHandler, the one that is played included.
MapVoteExpiry ==
  /\ "vote" \in pending
  /\ handles' = handles \ {"vote"}
  /\ voteDone' = TRUE
  /\ \E other \in BOOLEAN :
       pending' = (pending \ {"vote"}) \cup
         (IF other /\ ~voteDone THEN {"changelevel"} ELSE {})
  /\ UNCHANGED <<state, allConnected, knifeWin, rounds, clients, surrender, pauses,
                 setting, db, world>>

\* Timer_DoChangelevel, whatever the state is by now.
DoChangelevel ==
  /\ "changelevel" \in pending
  /\ MapStarts
-----------------------------------------------------------------------------
(* The knife round.                                                        *)

\* Timer_ShowKnifeMenu, 2 s after the end of a knife round.
ShowKnifeMenu ==
  /\ "menu" \in pending
  /\ \/ /\ knifeWin = None
        /\ pending' = pending \ {"menu"}
        /\ UNCHANGED <<state, engine, db>>
     \/ /\ knifeWin # None /\ OnSide(knifeWin) # {}
        /\ pending' = (pending \ {"menu"}) \cup {"auto"}
        /\ UNCHANGED <<state, engine, db>>
     \/ /\ knifeWin # None /\ OnSide(knifeWin) = {}
        /\ pending' = pending \ {"menu"}
        /\ StartLiveMatch
  /\ UNCHANGED <<allConnected, voteDone, knifeWin, rounds, clients, surrender, pauses,
                 handles, setting, side1, won>>

\* Menu_KnifeWinnerSideChoice; the menu closes before Timer_KnifeAutoChoose.
KnifeWinnerChooses ==
  /\ "auto" \in pending
  /\ state = "knife"
  /\ OnSide(knifeWin) # {}
  /\ side1' \in {side1, Opposite(side1)}
  /\ StartLiveMatch
  /\ UNCHANGED <<allConnected, voteDone, knifeWin, rounds, clients, surrender, pauses,
                 timers, setting, won>>

\* Faulty: no look at the state.
KnifeAutoChooseAnyState ==
  /\ "auto" \in pending
  /\ pending' = pending \ {"auto"}
  /\ StartLiveMatch
  /\ UNCHANGED <<allConnected, voteDone, knifeWin, rounds, clients, surrender, pauses,
                 handles, setting, side1, won>>

\* Faulty: nothing is chosen for a captain who has left.
KnifeAutoChoosePresent ==
  /\ "auto" \in pending
  /\ pending' = pending \ {"auto"}
  /\ IF state = "knife" /\ OnSide(knifeWin) # {}
       THEN StartLiveMatch
       ELSE UNCHANGED <<state, engine, db>>
  /\ UNCHANGED <<allConnected, voteDone, knifeWin, rounds, clients, surrender, pauses,
                 handles, setting, side1, won>>

\* Timer_KnifeAutoChoose.
KnifeAutoChoose ==
  /\ "auto" \in pending
  /\ pending' = pending \ {"auto"}
  /\ IF state = "knife" THEN StartLiveMatch ELSE UNCHANGED <<state, engine, db>>
  /\ UNCHANGED <<allConnected, voteDone, knifeWin, rounds, clients, surrender, pauses,
                 handles, setting, side1, won>>

-----------------------------------------------------------------------------
(* Rounds.                                                                 *)

\* A pause the plugin asked for holds the game in the next freeze time.
Frozen == [round |-> "freeze", restart |-> FALSE,
           hold |-> IF engine.hold = "no" THEN "no" ELSE "held"]

\* External: mp_restartgame, a second or three after it was asked for; the 2 s
\* of the knife menu began before.
EngineRestarts ==
  /\ engine.restart
  /\ "menu" \notin pending
  /\ engine' = Frozen
  /\ UNCHANGED <<life, clients, surrender, pauses, timers, setting, db, side1, won>>

\* External: the next round, mp_round_restart_delay (5 s) after the last, with
\* the sides switched at half-time.
NewRound ==
  /\ engine.round = "over" /\ ~engine.restart
  /\ state # "finished"
  /\ "menu" \notin pending
  /\ engine' = Frozen
  /\ \/ UNCHANGED side1
     \/ Playing /\ side1' = Opposite(side1)
  /\ UNCHANGED <<life, clients, surrender, pauses, timers, setting, db, won>>

\* Faulty: a request that has been granted stays.
FreezeEndKeepsRequest ==
  /\ engine.round = "freeze" /\ engine.hold # "held"
  /\ Late \/ ~Playing \/ "changelevel" \notin pending
  /\ LET asking == {t \in requested \cap left : \A u \in requested \cap left : t <= u}
     IN  IF Playing /\ asking # {}
           THEN /\ left' = left \ asking
                /\ ready' = {} /\ paused' = TRUE
                /\ engine' = [engine EXCEPT !.round = "play", !.hold = "asked"]
                /\ pending' = pending \cup {"pause"}
                /\ handles' = handles \cup {"pause"}
           ELSE /\ engine' = [engine EXCEPT !.round = "play"]
                /\ UNCHANGED <<left, ready, paused, timers>>
  /\ UNCHANGED <<life, clients, surrender, requested, setting, db, side1, won>>

\* Event_FreezeEnd: the first team that asked for a timeout gets it.  The
\* first freeze time of a live match ends more than 5 s after the knife round
\* began, which is when the last changelevel of a vote was on its way.
FreezeEnd ==
  /\ engine.round = "freeze" /\ engine.hold # "held"
  /\ Late \/ ~Playing \/ "changelevel" \notin pending
  /\ LET asking == {t \in requested \cap left : \A u \in requested \cap left : t <= u}
     IN  IF Playing /\ asking # {}
           THEN /\ requested' = requested \ asking
                /\ left' = left \ asking
                /\ ready' = {} /\ paused' = TRUE
                /\ engine' = [engine EXCEPT !.round = "play", !.hold = "asked"]
                /\ pending' = pending \cup {"pause"}
                /\ handles' = handles \cup {"pause"}
           ELSE /\ engine' = [engine EXCEPT !.round = "play"]
                /\ UNCHANGED <<pauses, timers>>
  /\ UNCHANGED <<life, clients, surrender, setting, db, side1, won>>

\* Event_RoundEnd, with a winner or, in a draw, without one.  Overtime begins
\* with the score tied at mp_maxrounds, which is more than MinRounds.
RoundEnd ==
  /\ engine.round = "play"
  /\ engine' = [engine EXCEPT !.round = "over"]
  /\ \/ /\ state = "knife"
        /\ knifeWin' \in Sides \cup {None}
        /\ pending' = pending \cup {"menu"}
        /\ UNCHANGED <<state, rounds>>
     \/ /\ Playing
        /\ rounds' = IF rounds < MinRounds THEN rounds + 1 ELSE rounds
        /\ state' \in {state} \cup (IF rounds = MinRounds THEN {"overtime"} ELSE {})
        /\ UNCHANGED <<knifeWin, pending>>
  /\ UNCHANGED <<allConnected, voteDone, clients, surrender, pauses, handles,
                 setting, db, side1, won>>

\* Faulty: the side instead of the team.
RecordedSide(w) == IF w = "tie" THEN w ELSE side1

\* The plugin takes team 1 for the counter-terrorists (DB_QueryTeamSides).
Recorded(w) ==
  IF side1 = "CT" \/ w = "tie" THEN w ELSE IF w = "team1" THEN "team2" ELSE "team1"

\* Event_MatchEnd: the engine has seen a team win, or a draw.
MatchEnd ==
  /\ engine.round = "over" /\ ~engine.restart
  /\ Playing /\ rounds = MinRounds
  /\ \E winner \in Winners :
       /\ won' = winner
       /\ Finish(Recorded(winner), {"check", "warmup"})
  /\ UNCHANGED <<allConnected, voteDone, knifeWin, rounds, clients, surrender, pauses,
                 setting, engine, side1>>
-----------------------------------------------------------------------------
(* Commands of the players of team t, and their timers.                    *)

\* Cmd_Pause.
RequestPause(t) ==
  /\ "pause" \in plan
  /\ Roster(t) \cap InGame # {}
  /\ Playing
  /\ ~paused
  /\ t \in left /\ t \notin requested
  /\ requested' = requested \cup {t}
  /\ UNCHANGED <<life, clients, surrender, left, ready, paused, timers, setting, db, world>>

Resume ==
  /\ paused' = FALSE /\ ready' = {}
  /\ engine' = [engine EXCEPT !.hold = "no"]

\* Faulty: the timer is cancelled for the first team that is ready.
UnpauseCancelsEarly(t) ==
  /\ Roster(t) \cap InGame # {}
  /\ paused
  /\ CancelTimers({"pause"})
  /\ IF ready \cup {t} = Teams
       THEN Resume
       ELSE ready' = ready \cup {t} /\ UNCHANGED <<paused, engine>>
  /\ UNCHANGED <<life, clients, surrender, left, requested, setting, db, side1, won>>

\* Cmd_Unpause: the match resumes when both teams have said so.
Unpause(t) ==
  /\ Roster(t) \cap InGame # {}
  /\ paused
  /\ IF ready \cup {t} = Teams
       THEN Resume /\ CancelTimers({"pause"})
       ELSE ready' = ready \cup {t} /\ UNCHANGED <<paused, engine, timers>>
  /\ UNCHANGED <<life, clients, surrender, left, requested, setting, db, side1, won>>

\* Timer_AutoUnpause.
AutoUnpause ==
  /\ "pause" \in pending
  /\ Fire("pause")
  /\ IF paused THEN Resume ELSE UNCHANGED <<paused, ready, engine>>
  /\ UNCHANGED <<life, clients, surrender, left, requested, setting, db, side1, won>>

Needed(t) ==
  LET size == Cardinality(Roster(t)) IN IF size >= 5 THEN 4 ELSE size - 1

\* Cmd_Surrender: the first call opens the vote, every later one is a yes, the
\* caller's second included; enough of them end the match for the others.
Surrender(t) ==
  /\ "surrender" \in plan
  /\ Roster(t) \cap InGame # {}
  /\ Playing
  /\ rounds >= MinRounds
  /\ \/ /\ t \notin voting /\ t \notin waiting
        /\ voting' = voting \cup {t}
        /\ yes' = [yes EXCEPT ![t] = 1]
        /\ pending' = pending \cup {Expiry(t)}
        /\ handles' = handles \cup {Expiry(t)}
        /\ UNCHANGED <<state, db, won>>
     \/ /\ t \in voting
        /\ yes' = [yes EXCEPT ![t] = @ + 1]
        /\ IF yes[t] + 1 >= Needed(t)
             THEN /\ voting' = voting \ {t}
                  /\ won' = Others(t)
                  /\ Finish(Others(t), {"check", "warmup", Expiry(t)})
             ELSE UNCHANGED <<voting, timers, state, db, won>>
  /\ UNCHANGED <<allConnected, voteDone, knifeWin, rounds, clients, waiting, pauses,
                 setting, engine, side1>>

\* Timer_SurrenderExpiry.
SurrenderExpiry(t) ==
  /\ Expiry(t) \in pending
  /\ Fire(Expiry(t))
  /\ IF t \in voting
       THEN /\ voting' = voting \ {t}
            /\ yes' = [yes EXCEPT ![t] = 0]
            /\ waiting' = waiting \cup {t}
       ELSE UNCHANGED surrender
  /\ UNCHANGED <<life, clients, pauses, setting, db, world>>

\* GetGameTime() reaches g_fSurrenderCooldown.
CooldownEnds(t) ==
  /\ t \in waiting
  /\ waiting' = waiting \ {t}
  /\ UNCHANGED <<life, clients, voting, yes, pauses, timers, setting, db, world>>

\* The last Timer_CountdownAnnounce, and Timer_RedirectToLobby, which asks the
\* clients to leave: whether they do is up to them.
CountdownEnds ==
  /\ "countdown" \in pending
  /\ pending' = (pending \ {"countdown"}) \cup {"redirect"}
  /\ UNCHANGED <<life, clients, surrender, pauses, handles, setting, db, world>>

RedirectToLobby ==
  /\ "redirect" \in pending
  /\ pending' = pending \ {"redirect"}
  /\ UNCHANGED <<life, clients, surrender, pauses, handles, setting, db, world>>

Next ==
  \/ DatabaseConnects
  \/ \E p \in Players : PlayerConnects(p) \/ PlayerLeaves(p) \/ PlayerScores(p)
  \/ CheckAllConnected \/ WarmupTimeout
  \/ StartMapVote \/ MapVoteList \/ MapVoteExpiry \/ DoChangelevel
  \/ ShowKnifeMenu \/ KnifeWinnerChooses \/ KnifeAutoChoose
  \/ EngineRestarts \/ NewRound \/ FreezeEnd \/ RoundEnd \/ MatchEnd
  \/ \E t \in Teams : \/ RequestPause(t) \/ Unpause(t)
                      \/ Surrender(t) \/ SurrenderExpiry(t) \/ CooldownEnds(t)
  \/ AutoUnpause
  \/ CountdownEnds \/ RedirectToLobby

Spec == Init /\ [][Next]_vars

\* A timer that runs fires, unless it is cancelled first.
FairSpec == Spec /\ WF_vars(KnifeAutoChoose) /\ WF_vars(AutoUnpause)

-----------------------------------------------------------------------------
(* Properties.                                                             *)

Order == [warmup |-> 1, knife |-> 2, live |-> 3, overtime |-> 4, finished |-> 5]

\* The match goes on and never back, though Timer_ShowKnifeMenu and both ways
\* to choose a side call StartLiveMatch late; only a new map starts it again.
OnlyForward == [][Order[state] <= Order[state'] \/ MapStarts]_vars

\* "Prevents the warmup-timeout from cancelling an already-live match"
\* (g_bAllConnected): the plugin cancels its match only while it is in warmup.
CancelledInWarmup ==
  [][db.status # "cancelled" /\ db'.status = "cancelled" => state = "warmup"]_vars

\* What SaveAllPlayerStats saves for a player are his own deeds, or also those
\* of somebody who left the live match and is recorded as having abandoned it:
\* the counters of a slot outlive the player in it.
OwnStatistics == \A p \in Players : db.stats[p] \subseteq {p} \cup db.abandoned

\* A side is chosen: once the menu is shown the knife round is over, though
\* the captain may not answer, or leave.
ChoiceEnds == (state = "knife" /\ "auto" \in pending) ~> state # "knife"

\* A timeout ends, with !unpause or by itself, whoever else asks for one.
PauseEnds == paused ~> ~paused

\* A team that has asked for a timeout still has one to take: no handler spends
\* it on somebody else.
RequestsAreGood == requested \subseteq left

(***************************************************************************)
(* What the other modules know of a match server is what it does.  A       *)
(* plugin without a connection to the database does nothing they can see.  *)
(***************************************************************************)
Phase ==
  IF ~connection \/ state \in {"warmup", "knife"} THEN "warmup"
  ELSE IF Playing THEN "live" ELSE "over"

GameServer == INSTANCE GameServers
  WITH MaxRows <- 1, MaxMatches <- 1, Ports <- {}, Tokens <- {},
       MaxAttempts <- 1, Required <- Cardinality(Players), Faults <- {},
       queue <- {}, busyPorts <- {}, busyTokens <- {},
       client <- [p \in Players |-> "idle"],
       server <- <<Phase>>,
       matches <- <<[status |-> db.status, players |-> Players, port |-> None,
                     token |-> None, container |-> TRUE, connected |-> db.connected,
                     attempts |-> 0, cleaned |-> FALSE]>>

\* Every step of the plugin is one GameServers allows a server, or none.
ImplementsGameServers ==
  [][GameServer!ServerStep]_<<Phase, db.status, db.connected>>

\* What the comment on g_iTeam1CSTeam ("CS_TEAM_CT / CS_TEAM_T assignment for
\* team1 and team2") and that of Event_MatchEnd say, and the code does not do:
\* the winner it writes is the team that won.
RightWinner == db.winner # None => db.winner = won
=============================================================================
