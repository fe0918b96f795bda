-------------------------- MODULE MatchServerProofs --------------------------
(***************************************************************************)
(* Theorems about the match plugin, for rosters of any size and any number *)
(* of rounds before a surrender: TypeOK, OnlyForward, CancelledInWarmup,   *)
(* RequestsAreGood and, for a database that answers before the match       *)
(* begins (Late = FALSE), OwnStatistics and, if a surrender needs two      *)
(* rounds or more, ImplementsGameServers.                                  *)
(*                                                                         *)
(*   Prologue  what is still untouched before the match is live, and when  *)
(*             the knife menu is on its way.  A surrender needs a round    *)
(*             played (MinRounds > 0), so it cannot end the knife round;   *)
(*   Seats     no two players share a client slot;                         *)
(*   Deeds     whose deeds the counters of a slot may hold;                *)
(*   Course    a map that ends, and with it the match, ends before         *)
(*             anything is at stake, and what is played is live in the row.*)
(***************************************************************************)
EXTENDS MatchServer, FiniteSetTheorems, TLAPS

USE RosterAssumption, MinRoundsAssumption

\* The handles in the order of OnMapStart, as a set.
LEMMA KeptNames == KeptSet = {"ff1", "ff2", "pause", "vote", "check", "warmup"}
<1>1. DOMAIN Kept = 1..6
  BY DEF Kept
<1>2. /\ Kept[1] = "ff1" /\ Kept[2] = "ff2" /\ Kept[3] = "pause"
      /\ Kept[4] = "vote" /\ Kept[5] = "check" /\ Kept[6] = "warmup"
  BY DEF Kept
<1>3. \A i \in 1..6 : i \in {1, 2, 3, 4, 5, 6}
  OBVIOUS
<1> QED
  BY <1>1, <1>2, <1>3 DEF KeptSet

LEMMA TypeInit == Init => TypeOK
<1> SUFFICES ASSUME Init PROVE TypeOK
  OBVIOUS
<1>1. db \in Written
  BY DEF Init, Written, Winners
<1>2. connection \in BOOLEAN
  BY Zenon DEF Init
<1>3. pending \subseteq KeptSet \cup Loose /\ handles \subseteq KeptSet
  BY KeptNames DEF Init, Loose
<1>4. slot \in [Players -> Slots \cup {0}] /\ earned \in [Slots -> SUBSET Players]
      /\ yes \in [Teams -> Nat]
  BY DEF Init
<1>5. engine \in EngineState /\ side1 \in Sides /\ won \in Winners \cup {None}
      /\ knifeWin \in Sides \cup {None} /\ rounds \in 0 .. MinRounds
      /\ state \in MatchState
  BY DEF Init, EngineState, Sides, MatchState
<1>6. voting \subseteq Teams /\ waiting \subseteq Teams /\ left \subseteq Teams
      /\ requested \subseteq Teams /\ ready \subseteq Teams
      /\ allConnected \in BOOLEAN /\ voteDone \in BOOLEAN /\ paused \in BOOLEAN
  BY DEF Init
<1> QED
  BY <1>1, <1>2, <1>3, <1>4, <1>5, <1>6 DEF TypeOK

Timers == pending \subseteq KeptSet \cup Loose /\ handles \subseteq KeptSet

\* The rows the handlers write, whether there is a connection or not.
LEMMA StatusTypes ==
  ASSUME db \in Written, NEW s \in {"warmup", "live", "cancelled"},
         Write([db EXCEPT !.status = s])
  PROVE  db' \in Written
<1>1. [db EXCEPT !.status = s] \in Written
  BY DEF Written
<1> QED
  BY <1>1 DEF Write

\* What the handlers ask of the engine.
LEMMA EngineTypes ==
  ASSUME engine \in EngineState
  PROVE  /\ [engine EXCEPT !.restart = TRUE] \in EngineState
         /\ [engine EXCEPT !.hold = "no"] \in EngineState
         /\ Frozen \in EngineState
         /\ [round |-> "idle", restart |-> FALSE, hold |-> "no"] \in EngineState
BY DEF EngineState, Frozen

LEMMA LiveTypes ==
  ASSUME db \in Written, engine \in EngineState, StartLiveMatch
  PROVE  state' \in MatchState /\ db' \in Written /\ engine' \in EngineState
<1>1. Write([db EXCEPT !.status = "live"])
  BY DEF StartLiveMatch
<1>2. db' \in Written
  BY <1>1, StatusTypes
<1> QED
  BY <1>2, EngineTypes DEF StartLiveMatch, MatchState

LEMMA FinishTypes ==
  ASSUME TypeOK, NEW winner \in Winners, NEW cancelled, Finish(winner, cancelled)
  PROVE  state' \in MatchState /\ Timers' /\ db' \in Written
<1> DEFINE stats == [p \in Players |-> IF p \in InGame THEN earned[slot[p]] ELSE db.stats[p]]
           saved == [db EXCEPT !.stats = stats]
<1>1. db \in Written
  BY DEF TypeOK
<1>2. stats \in [Players -> SUBSET Players]
  BY DEF TypeOK, Written, InGame
<1>3. saved \in Written
  <2> HIDE DEF stats
  <2> QED BY <1>1, <1>2 DEF Written
<1>4. SaveAllPlayerStats(db) = saved
  BY DEF SaveAllPlayerStats
<1>5. [saved EXCEPT !.status = "finished", !.winner = winner] \in Written
  <2> HIDE DEF saved
  <2> QED BY <1>3 DEF Written
<1>6. db' \in Written
  <2>1. Write([saved EXCEPT !.status = "finished", !.winner = winner])
    BY <1>4 DEF Finish
  <2> HIDE DEF saved
  <2> QED BY <1>1, <1>5, <2>1 DEF Write
<1> QED
  BY <1>6 DEF Finish, Timers, TypeOK, MatchState, Loose

LEMMA TypeNext == TypeOK /\ [Next]_vars => TypeOK'
<1> SUFFICES ASSUME TypeOK, [Next]_vars PROVE TypeOK'
  OBVIOUS
<1> USE DEF TypeOK, Loose, MatchState, Sides, life, clients, surrender, pauses, timers,
            world, setting
<1>0. {"check", "warmup", "vote", "pause"} \subseteq KeptSet /\ \A t \in Teams : Expiry(t) \in KeptSet
  BY KeptNames DEF Expiry, Teams
<1>1. CASE DatabaseConnects
  BY <1>1 DEF DatabaseConnects, Written
<1>2. ASSUME NEW p \in Players, PlayerConnects(p)
      PROVE  TypeOK'
  <2>1. [db EXCEPT !.connected = @ \cup {p}] \in Written
    BY DEF Written
  <2>2. db' \in Written
    BY <1>2, <2>1 DEF PlayerConnects, Write
  <2> QED
    BY <1>2, <2>2 DEF PlayerConnects
<1>3. ASSUME NEW p \in Players, PlayerLeaves(p)
      PROVE  TypeOK'
  <2>1. [db EXCEPT !.abandoned = @ \cup {p}] \in Written
    BY DEF Written
  <2>2. db' \in Written
    BY <1>3, <2>1 DEF PlayerLeaves, Write
  <2> QED
    BY <1>3, <2>2 DEF PlayerLeaves
<1>4. ASSUME NEW p \in Players, PlayerScores(p)
      PROVE  TypeOK'
  BY <1>4 DEF PlayerScores, InGame
<1>5. CASE CheckAllConnected
  BY <1>5, EngineTypes DEF CheckAllConnected, CancelTimers
<1>6. CASE WarmupTimeout
  <2>1. db' \in Written
    BY <1>6, StatusTypes DEF WarmupTimeout
  <2> QED
    BY <1>6, <2>1 DEF WarmupTimeout
<1>7. CASE StartMapVote \/ MapVoteList \/ MapVoteExpiry
  <2>1. pending' \subseteq KeptSet \cup Loose /\ handles' \subseteq KeptSet
    BY <1>0, <1>7 DEF StartMapVote, MapVoteList, MapVoteExpiry
  <2>2. voteDone' \in BOOLEAN
    BY <1>7 DEF StartMapVote, MapVoteList, MapVoteExpiry
  <2> QED
    BY <1>7, <2>1, <2>2 DEF StartMapVote, MapVoteList, MapVoteExpiry
<1>8. CASE DoChangelevel
  <2>1. MapStarts
    BY <1>8 DEF DoChangelevel
  <2>2. db' \in Written
    BY <2>1, StatusTypes DEF MapStarts
  <2>3. pending' \subseteq KeptSet \cup Loose /\ handles' \subseteq KeptSet
    BY <1>0, <2>1 DEF MapStarts, Surviving
  <2>4. engine' \in EngineState
    BY <2>1 DEF MapStarts, EngineState
  <2>5. yes' \in [Teams -> Nat] /\ voting' \subseteq Teams /\ waiting' \subseteq Teams
    BY <2>1 DEF MapStarts
  <2>6. left' \subseteq Teams /\ requested' \subseteq Teams /\ ready' \subseteq Teams /\ paused' \in BOOLEAN
    BY <2>1 DEF MapStarts
  <2>7. voteDone' \in BOOLEAN
    BY <2>1, Zenon DEF MapStarts
  <2>8. slot' \in [Players -> Slots \cup {0}] /\ earned' \in [Slots -> SUBSET Players]
    BY <2>1 DEF MapStarts
  <2>9. /\ state' \in MatchState /\ allConnected' \in BOOLEAN /\ rounds' \in 0 .. MinRounds
        /\ knifeWin' \in Sides \cup {None} /\ side1' \in Sides
    <3>1. /\ state' = "warmup" /\ allConnected' = FALSE /\ rounds' = 0 /\ knifeWin' = None
          /\ side1' = "CT"
      BY <2>1 DEF MapStarts
    <3>2. 0 \in 0 .. MinRounds
      OBVIOUS
    <3> QED BY <3>1, <3>2
  <2>10. connection' \in BOOLEAN /\ won' \in Winners \cup {None}
    <3>1. connection' = connection /\ won' = won
      BY <2>1 DEF MapStarts
    <3> QED BY <3>1
  <2> QED
    BY <2>10, <2>2, <2>3, <2>4, <2>5, <2>6, <2>7, <2>8, <2>9
<1>9. CASE ShowKnifeMenu
  BY <1>9, LiveTypes DEF ShowKnifeMenu
<1>10. CASE KnifeWinnerChooses
  BY <1>10, LiveTypes DEF KnifeWinnerChooses, Opposite
<1>11. CASE KnifeAutoChoose
  BY <1>11, LiveTypes DEF KnifeAutoChoose
<1>12. CASE EngineRestarts \/ NewRound
  BY <1>12, EngineTypes DEF EngineRestarts, NewRound, Opposite
<1>13. CASE FreezeEnd
  <2>1. engine' \in EngineState
    BY <1>13 DEF FreezeEnd, EngineState
  <2>2. /\ left' \subseteq Teams /\ requested' \subseteq Teams /\ ready' \subseteq Teams
        /\ paused' \in BOOLEAN
    BY <1>13 DEF FreezeEnd
  <2>3. pending' \subseteq KeptSet \cup Loose /\ handles' \subseteq KeptSet
    BY <1>0, <1>13 DEF FreezeEnd
  <2> QED
    BY <1>13, <2>1, <2>2, <2>3 DEF FreezeEnd
<1>14. CASE RoundEnd
  BY <1>14 DEF RoundEnd, EngineState
<1>15. CASE MatchEnd
  <2>1. \A w \in Winners : Recorded(w) \in Winners
    BY DEF Recorded, Winners
  <2>2. state' \in MatchState /\ Timers' /\ db' \in Written
    BY <1>15, <2>1, FinishTypes DEF MatchEnd
  <2> QED
    BY <1>15, <2>2 DEF MatchEnd, Timers
<1>16. ASSUME NEW t \in Teams, RequestPause(t) \/ Unpause(t)
       PROVE  TypeOK'
  <2>1. CASE RequestPause(t)
    BY <2>1 DEF RequestPause
  <2>2. CASE Unpause(t)
    <3>1. engine' \in EngineState /\ paused' \in BOOLEAN /\ ready' \subseteq Teams
      BY <2>2, EngineTypes DEF Unpause, Resume
    <3>2. pending' \subseteq KeptSet \cup Loose /\ handles' \subseteq KeptSet
      BY <2>2 DEF Unpause, CancelTimers
    <3> QED
      BY <2>2, <3>1, <3>2 DEF Unpause
  <2> QED
    BY <1>16, <2>1, <2>2
<1>17. ASSUME NEW t \in Teams, Surrender(t)
       PROVE  TypeOK'
  <2>1. Others(t) \in Winners
    BY DEF Others, Winners
  <2>2. yes' \in [Teams -> Nat] /\ voting' \subseteq Teams /\ won' \in Winners \cup {None}
    BY <1>17, <2>1 DEF Surrender
  <2>3. state' \in MatchState /\ Timers' /\ db' \in Written
    <3>1. CASE t \notin voting
      BY <1>0, <1>17, <3>1 DEF Surrender, Timers
    <3>2. CASE t \in voting /\ yes[t] + 1 >= Needed(t)
      BY <1>17, <2>1, <3>2, FinishTypes DEF Surrender
    <3>3. CASE t \in voting /\ ~(yes[t] + 1 >= Needed(t))
      BY <1>17, <3>3 DEF Surrender, Timers
    <3> QED
      BY <3>1, <3>2, <3>3
  <2> QED
    BY <1>17, <2>2, <2>3 DEF Surrender, Timers
<1>18. ASSUME NEW t \in Teams, SurrenderExpiry(t) \/ CooldownEnds(t)
       PROVE  TypeOK'
  <2>1. CASE SurrenderExpiry(t)
    <3>1. pending' \subseteq KeptSet \cup Loose /\ handles' \subseteq KeptSet
      BY <2>1 DEF SurrenderExpiry, Fire
    <3>2. yes' \in [Teams -> Nat] /\ voting' \subseteq Teams /\ waiting' \subseteq Teams
      BY <2>1 DEF SurrenderExpiry
    <3> QED
      BY <2>1, <3>1, <3>2 DEF SurrenderExpiry
  <2>2. CASE CooldownEnds(t)
    BY <2>2 DEF CooldownEnds
  <2> QED
    BY <1>18, <2>1, <2>2
<1>19. CASE AutoUnpause
  BY <1>19 DEF AutoUnpause, Fire, Resume, EngineState
<1>20. CASE CountdownEnds \/ RedirectToLobby
  BY <1>20 DEF CountdownEnds, RedirectToLobby
<1>21. CASE UNCHANGED vars
  BY <1>21 DEF vars
<1> QED
  BY <1>1, <1>2, <1>3, <1>4, <1>5, <1>6, <1>7, <1>8, <1>9, <1>10, <1>11, <1>12, <1>13, <1>14,
     <1>15, <1>16, <1>17, <1>18, <1>19, <1>20, <1>21 DEF Next

-----------------------------------------------------------------------------
(* The course of a match *)

\* Before the match is live nothing is counted; the knife menu is only on its way
\* while the round it belongs to is over, and no other has been played since.
Prologue ==
  /\ state # "warmup" => allConnected
  /\ state \in {"warmup", "knife"} => rounds = 0 /\ \A s \in Slots : earned[s] = {}
  /\ "menu" \in pending => engine.round = "over" /\ rounds = 0 /\ state \in {"knife", "live"}

LEMMA PrologueInit == Init => Prologue
BY DEF Init, Prologue

\* The handlers that neither move the match on nor count anything.
Aside ==
  \/ DatabaseConnects \/ WarmupTimeout \/ StartMapVote \/ MapVoteList \/ MapVoteExpiry
  \/ AutoUnpause \/ CountdownEnds \/ RedirectToLobby \/ UNCHANGED vars
  \/ \E p \in Players : PlayerConnects(p) \/ PlayerLeaves(p)
  \/ \E t \in Teams : RequestPause(t) \/ Unpause(t) \/ SurrenderExpiry(t) \/ CooldownEnds(t)

LEMMA Kinds ==
  ASSUME [Next]_vars
  PROVE  \/ Aside \/ CheckAllConnected \/ DoChangelevel
         \/ ShowKnifeMenu \/ KnifeWinnerChooses \/ KnifeAutoChoose
         \/ EngineRestarts \/ NewRound \/ FreezeEnd \/ RoundEnd \/ MatchEnd
         \/ \E p \in Players : PlayerScores(p)
         \/ \E t \in Teams : Surrender(t)
BY DEF Next, Aside

LEMMA AsideSteps ==
  ASSUME TypeOK, Aside
  PROVE  /\ UNCHANGED <<state, allConnected, rounds, knifeWin, earned, side1, won>>
         /\ engine'.round = engine.round
         /\ "menu" \in pending' => "menu" \in pending
<1> USE DEF life, clients, surrender, pauses, timers, world, setting
<1>1. CASE DatabaseConnects \/ WarmupTimeout \/ StartMapVote \/ MapVoteList \/ MapVoteExpiry
  BY <1>1 DEF DatabaseConnects, WarmupTimeout, StartMapVote, MapVoteList, MapVoteExpiry
<1>2. CASE AutoUnpause \/ CountdownEnds \/ RedirectToLobby \/ UNCHANGED vars
  BY <1>2 DEF AutoUnpause, CountdownEnds, RedirectToLobby, Fire, Resume, vars, TypeOK, EngineState
<1>3. CASE \E p \in Players : PlayerConnects(p) \/ PlayerLeaves(p)
  BY <1>3 DEF PlayerConnects, PlayerLeaves
<1>4. ASSUME NEW t \in Teams, RequestPause(t) \/ Unpause(t) \/ SurrenderExpiry(t) \/ CooldownEnds(t)
      PROVE  /\ UNCHANGED <<state, allConnected, rounds, knifeWin, earned, side1, won>>
             /\ engine'.round = engine.round
             /\ "menu" \in pending' => "menu" \in pending
  BY <1>4 DEF RequestPause, Unpause, SurrenderExpiry, CooldownEnds, Fire, CancelTimers, Resume,
              TypeOK, EngineState
<1> QED
  BY <1>1, <1>2, <1>3, <1>4 DEF Aside

\* Where the choice of a side starts the match from.
LEMMA ChoiceSteps ==
  ASSUME Prologue, ShowKnifeMenu \/ KnifeWinnerChooses \/ KnifeAutoChoose
  PROVE  /\ UNCHANGED <<allConnected, rounds, earned, slot, connection, won>>
         /\ state' = state \/ (state \in {"knife", "live"} /\ state' = "live")
         /\ "menu" \in pending' => "menu" \in pending
<1> USE DEF life, clients, timers, setting
<1>1. CASE ShowKnifeMenu
  BY <1>1 DEF ShowKnifeMenu, StartLiveMatch, Prologue
<1>2. CASE KnifeWinnerChooses
  BY <1>2 DEF KnifeWinnerChooses, StartLiveMatch
<1>3. CASE KnifeAutoChoose
  BY <1>3 DEF KnifeAutoChoose, StartLiveMatch
<1> QED
  BY <1>1, <1>2, <1>3

LEMMA PrologueNext == TypeOK /\ Prologue /\ [Next]_vars => Prologue'
<1> SUFFICES ASSUME TypeOK, Prologue, [Next]_vars PROVE Prologue'
  OBVIOUS
<1> USE DEF life, clients, surrender, pauses, timers, world, setting
<1>1. CASE Aside
  BY <1>1, AsideSteps DEF Prologue
<1>2. CASE CheckAllConnected
  BY <1>2 DEF CheckAllConnected, CancelTimers, Prologue
<1>3. CASE DoChangelevel
  BY <1>3 DEF DoChangelevel, MapStarts, Surviving, Prologue
<1>4. CASE ShowKnifeMenu \/ KnifeWinnerChooses \/ KnifeAutoChoose
  <2>1. /\ UNCHANGED <<allConnected, rounds, earned>>
        /\ state' = state \/ (state \in {"knife", "live"} /\ state' = "live")
        /\ "menu" \in pending' => "menu" \in pending
    BY <1>4, ChoiceSteps
  <2>2. engine'.round = engine.round
    BY <1>4 DEF ShowKnifeMenu, KnifeWinnerChooses, KnifeAutoChoose, StartLiveMatch, TypeOK, EngineState
  <2> QED
    BY <2>1, <2>2 DEF Prologue
<1>5. CASE EngineRestarts \/ NewRound \/ FreezeEnd
  BY <1>5 DEF EngineRestarts, NewRound, FreezeEnd, Prologue
<1>6. CASE RoundEnd
  <2>1. engine.round = "play" /\ engine'.round = "over" /\ earned' = earned
        /\ allConnected' = allConnected
    BY <1>6 DEF RoundEnd, TypeOK, EngineState
  <2> QED
    BY <1>6, <2>1 DEF RoundEnd, Prologue, Playing
<1>7. CASE MatchEnd
  BY <1>7 DEF MatchEnd, Finish, Playing, Prologue
<1>8. ASSUME NEW p \in Players, PlayerScores(p)
      PROVE  Prologue'
  BY <1>8 DEF PlayerScores, Playing, Prologue
<1>9. ASSUME NEW t \in Teams, Surrender(t)
      PROVE  Prologue'
  <2>1. rounds > 0 /\ Playing /\ UNCHANGED <<allConnected, rounds, earned, engine>>
        /\ state' \in {state, "finished"}
        /\ Expiry(t) # "menu"
    BY <1>9 DEF Surrender, Finish, Expiry, TypeOK
  <2>2. "menu" \in pending' => "menu" \in pending
    BY <1>9, <2>1 DEF Surrender, Finish
  <2> QED
    BY <2>1, <2>2 DEF Prologue, Playing
<1> QED
  BY <1>1, <1>2, <1>3, <1>4, <1>5, <1>6, <1>7, <1>8, <1>9, Kinds

LEMMA PrologueAlways == Spec => [](TypeOK /\ Prologue)
<1>1. Init => TypeOK /\ Prologue
  BY TypeInit, PrologueInit
<1>2. (TypeOK /\ Prologue) /\ [Next]_vars => (TypeOK /\ Prologue)'
  BY TypeNext, PrologueNext
<1> QED
  BY <1>1, <1>2, PTL DEF Spec

\* Every variable of the plugin keeps its type.
THEOREM ServerTypeCorrect == Spec => []TypeOK
BY PrologueAlways, PTL

\* The place of each state in the course of the match.
LEMMA OrderOf ==
  /\ Order["warmup"] = 1 /\ Order["knife"] = 2 /\ Order["live"] = 3
  /\ Order["overtime"] = 4 /\ Order["finished"] = 5
BY DEF Order

\* Whatever timers are late, the match goes on and never back, unless a new map
\* starts.
THEOREM OnlyForwardCorrect == Spec => OnlyForward
<1>1. TypeOK /\ Prologue /\ [Next]_vars => [Order[state] <= Order[state'] \/ MapStarts]_vars
  <2> SUFFICES ASSUME TypeOK, Prologue, [Next]_vars, ~MapStarts
               PROVE  Order[state] <= Order[state']
    OBVIOUS
  <2> USE OrderOf
  <2>0. state \in {"warmup", "knife", "live", "overtime", "finished"}
    BY DEF TypeOK, MatchState
  <2>1. CASE state' = state
    BY <2>0, <2>1
  <2>2. CASE CheckAllConnected
    BY <2>2 DEF CheckAllConnected
  <2>3. CASE ShowKnifeMenu \/ KnifeWinnerChooses \/ KnifeAutoChoose
    <3>1. state' = state \/ (state \in {"knife", "live"} /\ state' = "live")
      BY <2>3, ChoiceSteps
    <3> QED BY <2>1, <3>1
  <2>4. CASE RoundEnd
    <3>1. state' = state \/ (Playing /\ state' = "overtime")
      BY <2>4 DEF RoundEnd
    <3> QED BY <2>1, <3>1 DEF Playing
  <2>5. CASE MatchEnd \/ \E t \in Teams : Surrender(t)
    <3>1. state' = state \/ (Playing /\ state' = "finished")
      BY <2>5 DEF MatchEnd, Surrender, Finish
    <3> QED BY <2>1, <3>1 DEF Playing
  <2>6. CASE Aside
    BY <2>1, <2>6, AsideSteps
  <2>7. CASE EngineRestarts \/ NewRound \/ FreezeEnd \/ \E p \in Players : PlayerScores(p)
    BY <2>1, <2>7 DEF EngineRestarts, NewRound, FreezeEnd, PlayerScores, life
  <2>8. ~DoChangelevel
    BY DEF DoChangelevel
  <2> QED
    BY <2>2, <2>3, <2>4, <2>5, <2>6, <2>7, <2>8, Kinds
<1> QED
  BY <1>1, PrologueAlways, PTL DEF Spec, OnlyForward

\* Timer_WarmupTimeout never cancels a match that has left warmup, though it is
\* not cancelled with the others when a map changes.
THEOREM CancelledInWarmupCorrect == Spec => CancelledInWarmup
<1>1. TypeOK /\ Prologue /\ [Next]_vars =>
        [db.status # "cancelled" /\ db'.status = "cancelled" => state = "warmup"]_vars
  <2> SUFFICES ASSUME TypeOK, Prologue, [Next]_vars, db.status # "cancelled",
                      db'.status = "cancelled"
               PROVE  state = "warmup"
    OBVIOUS
  <2> USE DEF life, clients, surrender, pauses, timers, world, setting
  <2>0. db \in Written
    BY DEF TypeOK
  <2>1. CASE WarmupTimeout
    BY <2>1 DEF WarmupTimeout, Prologue
  <2>2. db' # db
    OBVIOUS
  <2>3. CASE Aside /\ ~WarmupTimeout
    <3>1. CASE DatabaseConnects
      BY <2>0, <3>1 DEF DatabaseConnects, Written
    <3>2. CASE StartMapVote \/ MapVoteList \/ MapVoteExpiry \/ AutoUnpause \/ CountdownEnds
               \/ RedirectToLobby \/ UNCHANGED vars
      BY <2>2, <3>2 DEF StartMapVote, MapVoteList, MapVoteExpiry, AutoUnpause, CountdownEnds,
                        RedirectToLobby, vars
    <3>3. ASSUME NEW p \in Players, PlayerConnects(p) \/ PlayerLeaves(p)
          PROVE  db'.status = db.status
      BY <2>0, <3>3 DEF PlayerConnects, PlayerLeaves, Write, Written
    <3>4. ASSUME NEW t \in Teams,
                 RequestPause(t) \/ Unpause(t) \/ SurrenderExpiry(t) \/ CooldownEnds(t)
          PROVE  db' = db
      BY <3>4 DEF RequestPause, Unpause, SurrenderExpiry, CooldownEnds
    <3> QED
      BY <2>2, <2>3, <3>1, <3>2, <3>3, <3>4 DEF Aside
  <2>4. ~CheckAllConnected /\ ~EngineRestarts /\ ~NewRound /\ ~FreezeEnd /\ ~RoundEnd
        /\ \A p \in Players : ~PlayerScores(p)
    BY <2>2 DEF CheckAllConnected, EngineRestarts, NewRound, FreezeEnd, RoundEnd, PlayerScores
  <2>5. ASSUME NEW s \in {"warmup", "live"}, Write([db EXCEPT !.status = s])
        PROVE  FALSE
    BY <2>0, <2>5 DEF Write, Written
  <2>6. ~DoChangelevel
    BY <2>2, <2>5 DEF DoChangelevel, MapStarts
  <2>7. ~ShowKnifeMenu /\ ~KnifeWinnerChooses /\ ~KnifeAutoChoose
    BY <2>2, <2>5 DEF ShowKnifeMenu, KnifeWinnerChooses, KnifeAutoChoose, StartLiveMatch
  <2>8. ASSUME NEW w, NEW cancelled, Finish(w, cancelled)
        PROVE  FALSE
    <3>1. SaveAllPlayerStats(db) = [db EXCEPT !.stats = [p \in Players |->
            IF p \in InGame THEN earned[slot[p]] ELSE db.stats[p]]]
      BY DEF SaveAllPlayerStats
    <3>2. [SaveAllPlayerStats(db) EXCEPT !.status = "finished", !.winner = w].status = "finished"
      BY <2>0, <3>1 DEF Written
    <3> QED
      BY <2>2, <2>8, <3>2 DEF Finish, Write
  <2>9. ~MatchEnd /\ \A t \in Teams : ~Surrender(t)
    BY <2>2, <2>8 DEF MatchEnd, Surrender
  <2> QED
    BY <2>1, <2>3, <2>4, <2>6, <2>7, <2>9, Kinds
<1> QED
  BY <1>1, PrologueAlways, PTL DEF Spec, CancelledInWarmup

\* Event_FreezeEnd grants a timeout and takes it from the one that asked, and
\* nobody else's: a team that has asked still has one to take.
THEOREM RequestsAreGoodCorrect == Spec => []RequestsAreGood
<1>1. Init => RequestsAreGood
  BY DEF Init, RequestsAreGood
<1>2. RequestsAreGood /\ [Next]_vars => RequestsAreGood'
  <2> SUFFICES ASSUME RequestsAreGood, [Next]_vars
               PROVE  RequestsAreGood'
    OBVIOUS
  <2> USE DEF RequestsAreGood, pauses
  <2>1. CASE DoChangelevel
    BY <2>1 DEF DoChangelevel, MapStarts
  <2>2. CASE FreezeEnd
    BY <2>2 DEF FreezeEnd
  <2>3. CASE \E t \in Teams : RequestPause(t)
    BY <2>3 DEF RequestPause
  <2>4. UNCHANGED <<left, requested>> \/ DoChangelevel \/ FreezeEnd \/ \E t \in Teams : RequestPause(t)
    BY DEF Next, vars, DatabaseConnects, PlayerConnects, PlayerLeaves, PlayerScores,
           CheckAllConnected, WarmupTimeout, StartMapVote, MapVoteList, MapVoteExpiry,
           ShowKnifeMenu, KnifeWinnerChooses, KnifeAutoChoose, EngineRestarts, NewRound,
           RoundEnd, MatchEnd, Unpause, Surrender, SurrenderExpiry, CooldownEnds, AutoUnpause,
           CountdownEnds, RedirectToLobby
  <2> QED
    BY <2>1, <2>2, <2>3, <2>4
<1> QED
  BY <1>1, <1>2, PTL DEF Spec

-----------------------------------------------------------------------------
(* The statistics *)

\* No two players share a slot.
Seats == \A p, q \in InGame : slot[p] = slot[q] => p = q

\* The counters of a slot hold the deeds of who sits in it, and of those who have
\* left it and are recorded for that.
Deeds ==
  connection /\ state # "finished" =>
    \A s \in Slots : earned[s] \subseteq {p \in Players : slot[p] = s} \cup db.abandoned

Statistics == Seats /\ Deeds /\ OwnStatistics

LEMMA StatisticsInit == Init => Statistics
BY DEF Init, Statistics, Seats, Deeds, OwnStatistics, InGame

\* A step that moves no player and counts nothing, and whose row keeps what the
\* plugin has written of abandons and statistics.
LEMMA StatisticsStay ==
  ASSUME Statistics, UNCHANGED <<slot, earned>>,
         connection' = connection \/ \A s \in Slots : earned[s] = {},
         state' # "finished" => state # "finished",
         db'.abandoned = db.abandoned, db'.stats = db.stats
  PROVE  Statistics'
<1>1. InGame' = InGame
  BY DEF InGame
<1>2. Seats' /\ OwnStatistics'
  BY <1>1 DEF Statistics, Seats, OwnStatistics
<1>3. Deeds'
  BY DEF Statistics, Deeds
<1> QED
  BY <1>2, <1>3 DEF Statistics

\* What is saved at the end is what the counters hold.
LEMMA StatisticsSaved ==
  ASSUME TypeOK, Statistics, Playing, NEW w, NEW cancelled, Finish(w, cancelled),
         UNCHANGED <<slot, earned, connection>>
  PROVE  Statistics'
<1> DEFINE stats == [p \in Players |-> IF p \in InGame THEN earned[slot[p]] ELSE db.stats[p]]
           saved == [db EXCEPT !.stats = stats]
<1>1. db \in Written /\ state' = "finished" /\ InGame' = InGame
  BY DEF TypeOK, Finish, InGame
<1>2. Seats' /\ Deeds'
  BY <1>1 DEF Statistics, Seats, Deeds
<1>3. db' = IF connection THEN [saved EXCEPT !.status = "finished", !.winner = w] ELSE db
  BY DEF Finish, Write, SaveAllPlayerStats
<1>4. CASE ~connection
  BY <1>2, <1>3, <1>4 DEF Statistics, OwnStatistics
<1>5. CASE connection
  <2>1. saved.stats = stats /\ saved.abandoned = db.abandoned
        /\ DOMAIN saved = DOMAIN db
    BY <1>1 DEF Written
  <2>2. db'.stats = stats /\ db'.abandoned = db.abandoned
    <3> HIDE DEF stats
    <3> QED BY <1>1, <1>3, <1>5 DEF Written
  <2>3. ASSUME NEW p \in Players
        PROVE  stats[p] \subseteq {p} \cup db.abandoned
    <3>1. CASE p \in InGame
      <4>1. slot[p] \in Slots
        BY <3>1 DEF InGame, TypeOK
      <4>2. earned[slot[p]] \subseteq {q \in Players : slot[q] = slot[p]} \cup db.abandoned
        BY <1>5, <4>1 DEF Statistics, Deeds, Playing
      <4>3. {q \in Players : slot[q] = slot[p]} \subseteq {p}
        BY <3>1 DEF Statistics, Seats, InGame
      <4> QED
        BY <3>1, <4>2, <4>3
    <3>2. CASE p \notin InGame
      BY <3>2 DEF Statistics, OwnStatistics
    <3> QED
      BY <3>1, <3>2
  <2> HIDE DEF stats
  <2>4. OwnStatistics'
    BY <2>2, <2>3 DEF OwnStatistics
  <2> QED
    BY <1>2, <2>4 DEF Statistics
<1> QED
  BY <1>4, <1>5

LEMMA StatisticsNext ==
  ASSUME Late = FALSE, TypeOK, Prologue, Statistics, [Next]_vars
  PROVE  Statistics'
<1> USE DEF life, clients, surrender, pauses, timers, world, setting
<1>0. db \in Written
  BY DEF TypeOK
<1>1. ASSUME NEW p \in Players, PlayerConnects(p)
      PROVE  Statistics'
  <2>1. PICK s \in Slots : /\ \A q \in InGame : slot[q] # s
                           /\ slot' = [slot EXCEPT ![p] = s]
    BY <1>1 DEF PlayerConnects
  <2>2. /\ p \notin InGame /\ UNCHANGED <<state, earned, connection>>
        /\ db'.abandoned = db.abandoned /\ db'.stats = db.stats
    BY <1>0, <1>1 DEF PlayerConnects, Write, Written
  <2>3. /\ slot'[p] = s /\ \A q \in Players : q # p => slot'[q] = slot[q]
        /\ slot[p] = 0 /\ 0 \notin Slots
    BY <2>1, <2>2 DEF TypeOK, InGame, Slots
  <2>4. Seats'
    BY <2>1, <2>3 DEF Statistics, Seats, InGame
  <2>5. Deeds'
    BY <2>2, <2>3 DEF Statistics, Deeds
  <2> QED
    BY <2>2, <2>4, <2>5 DEF Statistics, OwnStatistics
<1>2. ASSUME NEW p \in Players, PlayerLeaves(p)
      PROVE  Statistics'
  <2>1. /\ p \in InGame /\ UNCHANGED <<state, earned, connection>>
        /\ slot' = [slot EXCEPT ![p] = 0] /\ db'.stats = db.stats
        /\ db.abandoned \subseteq db'.abandoned
        /\ Playing /\ connection => p \in db'.abandoned
    BY <1>0, <1>2 DEF PlayerLeaves, Write, Written
  <2>2. slot'[p] = 0 /\ (\A q \in Players : q # p => slot'[q] = slot[q]) /\ 0 \notin Slots
    BY <2>1 DEF TypeOK, InGame, Slots
  <2>3. Seats'
    BY <2>2 DEF Statistics, Seats, InGame
  <2>4. ~Playing /\ state # "finished" => \A s \in Slots : earned[s] = {}
    BY DEF Prologue, Playing, TypeOK, MatchState
  <2>5. Deeds'
    BY <2>1, <2>2, <2>4 DEF Statistics, Deeds
  <2> QED
    BY <2>1, <2>3, <2>5 DEF Statistics, OwnStatistics
<1>3. ASSUME NEW p \in Players, PlayerScores(p)
      PROVE  Statistics'
  <2>1. /\ p \in InGame /\ UNCHANGED <<state, slot, connection, db>>
        /\ earned' = [earned EXCEPT ![slot[p]] = @ \cup {p}]
    BY <1>3 DEF PlayerScores
  <2>2. slot[p] \in Slots
    BY <2>1 DEF InGame, TypeOK
  <2>3. /\ earned'[slot[p]] = earned[slot[p]] \cup {p}
        /\ \A s \in Slots : s # slot[p] => earned'[s] = earned[s]
    BY <2>1, <2>2 DEF TypeOK
  <2>4. Deeds'
    BY <2>1, <2>3 DEF Statistics, Deeds
  <2> QED
    BY <2>1, <2>4 DEF Statistics, Seats, OwnStatistics, InGame
<1>4. CASE DoChangelevel
  <2>1. /\ slot' = [p \in Players |-> 0] /\ earned' = [s \in Slots |-> {}]
        /\ db'.abandoned = db.abandoned /\ db'.stats = db.stats
    BY <1>0, <1>4 DEF DoChangelevel, MapStarts, Write, Written
  <2>2. Seats' /\ Deeds'
    BY <2>1 DEF Seats, Deeds, InGame
  <2> QED
    BY <2>1, <2>2 DEF Statistics, OwnStatistics
<1>5. ASSUME NEW t \in Teams, Surrender(t)
      PROVE  Statistics'
  <2>1. Playing /\ UNCHANGED <<slot, earned, connection>>
    BY <1>5 DEF Surrender
  <2>2. CASE t \in voting /\ yes[t] + 1 >= Needed(t)
    <3>1. Finish(Others(t), {"check", "warmup", Expiry(t)})
      BY <1>5, <2>2 DEF Surrender
    <3> QED BY <2>1, <3>1, StatisticsSaved
  <2>3. CASE ~(t \in voting /\ yes[t] + 1 >= Needed(t))
    <3>1. UNCHANGED <<state, db>>
      BY <1>5, <2>3 DEF Surrender
    <3> QED BY <2>1, <3>1, StatisticsStay
  <2> QED
    BY <2>2, <2>3
<1>6. CASE MatchEnd
  BY <1>6, StatisticsSaved DEF MatchEnd
<1>7. CASE DatabaseConnects
  <2>1. /\ UNCHANGED <<slot, earned, state>> /\ state = "warmup"
        /\ db'.abandoned = db.abandoned /\ db'.stats = db.stats
    BY <1>0, <1>7 DEF DatabaseConnects, Written
  <2> QED
    BY <2>1, StatisticsStay DEF Prologue
<1>8. CASE WarmupTimeout \/ ShowKnifeMenu \/ KnifeWinnerChooses \/ KnifeAutoChoose
  <2>1. UNCHANGED <<slot, earned, connection>> /\ (state' # "finished" => state # "finished")
    BY <1>8, ChoiceSteps DEF WarmupTimeout, Prologue
  <2>2. db'.abandoned = db.abandoned /\ db'.stats = db.stats
    <3>1. ASSUME NEW v \in {"cancelled", "live"}, Write([db EXCEPT !.status = v])
          PROVE  db'.abandoned = db.abandoned /\ db'.stats = db.stats
      BY <1>0, <3>1 DEF Write, Written
    <3> QED
      BY <1>8, <3>1 DEF WarmupTimeout, ShowKnifeMenu, KnifeWinnerChooses, KnifeAutoChoose,
                        StartLiveMatch
  <2> QED
    BY <2>1, <2>2, StatisticsStay
<1>9. CASE CheckAllConnected \/ StartMapVote \/ MapVoteList \/ MapVoteExpiry \/ EngineRestarts
           \/ NewRound \/ FreezeEnd \/ RoundEnd \/ AutoUnpause \/ CountdownEnds
           \/ RedirectToLobby \/ UNCHANGED vars
  <2>1. UNCHANGED <<slot, earned, connection, db>> /\ (state' # "finished" => state # "finished")
    BY <1>9 DEF CheckAllConnected, StartMapVote, MapVoteList, MapVoteExpiry, EngineRestarts,
                NewRound, FreezeEnd, RoundEnd, AutoUnpause, CountdownEnds, RedirectToLobby, vars,
                Playing
  <2> QED
    BY <2>1, StatisticsStay
<1>10. ASSUME NEW t \in Teams, RequestPause(t) \/ Unpause(t) \/ SurrenderExpiry(t) \/ CooldownEnds(t)
       PROVE  Statistics'
  <2>1. UNCHANGED <<slot, earned, connection, db, state>>
    BY <1>10 DEF RequestPause, Unpause, SurrenderExpiry, CooldownEnds
  <2> QED
    BY <2>1, StatisticsStay
<1> QED
  BY <1>1, <1>2, <1>3, <1>4, <1>5, <1>6, <1>7, <1>8, <1>9, <1>10 DEF Next

\* What is saved for a player are his own deeds, or also those of one who left
\* his slot and is recorded as having abandoned the match: provided the plugin
\* has its connection to the database before the match begins.
THEOREM OwnStatisticsCorrect ==
  ASSUME Late = FALSE
  PROVE  Spec => []OwnStatistics
<1>1. Init => Statistics
  BY StatisticsInit
<1>2. (TypeOK /\ Prologue) /\ Statistics /\ [Next]_vars => Statistics'
  BY StatisticsNext
<1>3. Statistics => OwnStatistics
  BY DEF Statistics
<1> QED
  BY <1>1, <1>2, <1>3, PrologueAlways, PTL DEF Spec

-----------------------------------------------------------------------------
(* What the other modules see *)

\* The row of the match in mm_matches, as the mapping of GameServers has it.
SeenRow(status, connected) ==
  [status |-> status, players |-> Players, port |-> None, token |-> None,
   container |-> TRUE, connected |-> connected, attempts |-> 0, cleaned |-> FALSE]

\* An UPDATE of one column of it.  The Boolean fields are hidden behind names,
\* because the SMT backend cannot compare records that have them as they stand.
LEMMA RowUpdated ==
  ASSUME NEW s, NEW c, NEW v
  PROVE  /\ [SeenRow(s, c) EXCEPT !.status = v] = SeenRow(v, c)
         /\ [SeenRow(s, c) EXCEPT !.connected = v] = SeenRow(s, v)
<1> DEFINE on == TRUE
           off == FALSE
           row(a, b) == [status |-> a, players |-> Players, port |-> None, token |-> None,
                         container |-> on, connected |-> b, attempts |-> 0, cleaned |-> off]
<1>1. \A a, b : SeenRow(a, b) = row(a, b)
  BY DEF SeenRow
<1>2. [row(s, c) EXCEPT !.status = v] = row(v, c)
  <2> HIDE DEF on, off
  <2> QED OBVIOUS
<1>3. [row(s, c) EXCEPT !.connected = v] = row(s, v)
  <2> HIDE DEF on, off
  <2> QED OBVIOUS
<1> HIDE DEF row, on, off
<1> QED
  BY <1>1, <1>2, <1>3

\* The same in a table of one row.
LEMMA OnlyRow ==
  ASSUME NEW r, NEW v
  PROVE  /\ <<r>>[1] = r
         /\ [<<r>> EXCEPT ![1] = v] = <<v>>
         /\ [<<r>> EXCEPT ![1].status = v] = <<[r EXCEPT !.status = v]>>
         /\ [<<r>> EXCEPT ![1].connected = v] = <<[r EXCEPT !.connected = v]>>
OBVIOUS

LEMMA SeenStatus ==
  ASSUME NEW s, db'.status = s, db'.connected = db.connected
  PROVE  GameServer!SetStatus(1, s)
<1>1. <<SeenRow(db'.status, db'.connected)>> =
        [<<SeenRow(db.status, db.connected)>> EXCEPT ![1].status = s]
  <2>1. [SeenRow(db.status, db.connected) EXCEPT !.status = s] = SeenRow(s, db.connected)
    BY RowUpdated
  <2>2. [<<SeenRow(db.status, db.connected)>> EXCEPT ![1].status = s] =
          <<[SeenRow(db.status, db.connected) EXCEPT !.status = s]>>
    BY OnlyRow
  <2> QED BY <2>1, <2>2
<1> QED
  BY <1>1 DEF GameServer!SetStatus, SeenRow, Players

LEMMA SeenOthers == UNCHANGED GameServer!serverOnly
BY DEF GameServer!serverOnly, Players

\* The actions of GameServers, recognised by what they change.
LEMMA SeenWarmup ==
  ASSUME Phase \in {"warmup", "live"}, Phase' = "warmup",
         db'.status = "warmup", db'.connected = db.connected
  PROVE  GameServer!ServerStep
<1>1. GameServer!SetStatus(1, "warmup")
  BY SeenStatus
<1>2. <<Phase'>> = [<<Phase>> EXCEPT ![1] = "warmup"] /\ <<Phase>>[1] = Phase
  BY OnlyRow
<1>3. GameServer!WritesWarmup(1)
  BY <1>1, <1>2, SeenOthers DEF GameServer!WritesWarmup
<1> QED
  BY <1>3 DEF GameServer!ServerStep, GameServer!Matches

LEMMA SeenLive ==
  ASSUME Phase = "warmup", Phase' = "live",
         db'.status = "live", db'.connected = db.connected
  PROVE  GameServer!ServerStep
<1>1. GameServer!SetStatus(1, "live")
  BY SeenStatus
<1>2. <<Phase'>> = [<<Phase>> EXCEPT ![1] = "live"] /\ <<Phase>>[1] = Phase
  BY OnlyRow
<1>3. GameServer!GoesLive(1)
  BY <1>1, <1>2, SeenOthers DEF GameServer!GoesLive
<1> QED
  BY <1>3 DEF GameServer!ServerStep, GameServer!Matches

LEMMA SeenTimeout ==
  ASSUME Phase = "warmup", Phase' = "warmup",
         db'.status = "cancelled", db'.connected = db.connected
  PROVE  GameServer!ServerStep
<1>1. GameServer!SetStatus(1, "cancelled")
  BY SeenStatus
<1>2. <<Phase'>> = <<Phase>> /\ <<Phase>>[1] = Phase
  OBVIOUS
<1>3. GameServer!WarmupTimesOut(1)
  BY <1>1, <1>2, SeenOthers DEF GameServer!WarmupTimesOut
<1> QED
  BY <1>3 DEF GameServer!ServerStep, GameServer!Matches

LEMMA SeenEnd ==
  ASSUME Phase = "live", Phase' = "over",
         db'.status = "finished", db'.connected = db.connected
  PROVE  GameServer!ServerStep
<1>1. GameServer!SetStatus(1, "finished")
  BY SeenStatus
<1>2. <<Phase'>> = [<<Phase>> EXCEPT ![1] = "over"] /\ <<Phase>>[1] = Phase
  BY OnlyRow
<1>3. GameServer!MatchEnds(1)
  BY <1>1, <1>2, SeenOthers DEF GameServer!MatchEnds
<1> QED
  BY <1>3 DEF GameServer!ServerStep, GameServer!Matches

LEMMA SeenConnects ==
  ASSUME NEW p \in Players, Phase' = Phase,
         db'.status = db.status, db'.connected = db.connected \cup {p}
  PROVE  GameServer!ServerStep
<1> DEFINE row == SeenRow(db.status, db.connected)
           all == db.connected \cup {p}
<1>1. <<SeenRow(db'.status, db'.connected)>> = [<<row>> EXCEPT ![1].connected = all]
  <2>1. db'.status = db.status /\ db'.connected = all
    OBVIOUS
  <2> HIDE DEF all
  <2>2. [row EXCEPT !.connected = all] = SeenRow(db.status, all)
    BY RowUpdated
  <2>3. [<<row>> EXCEPT ![1].connected = all] = <<[row EXCEPT !.connected = all]>>
    BY OnlyRow
  <2> QED
    BY <2>1, <2>2, <2>3
<1>2. <<row>>[1].connected = db.connected /\ <<row>>[1].players = Players
  BY DEF SeenRow
<1>3. GameServer!Runs(1) /\ <<Phase'>> = <<Phase>>
  BY DEF GameServer!Runs, Phase
<1>4. GameServer!PlayerConnects(1, p)
  BY <1>1, <1>2, <1>3, SeenOthers DEF GameServer!PlayerConnects, SeenRow, Players
<1> QED
  BY <1>4 DEF GameServer!ServerStep, GameServer!Matches

-----------------------------------------------------------------------------
(* What it takes for that: a map that ends, and with it the match, ends    *)
(* before anything is at stake                                             *)

\* A map is only chosen in warmup, and before the match is live the only handles
\* are those of the warmup.
Maps ==
  /\ {"query", "vote"} \cap pending # {} => state = "warmup"
  /\ state = "warmup" => handles \subseteq {"check", "warmup", "vote"}
  /\ state = "knife" => handles = {}

\* While the next map is on its way the match has not got beyond its first round,
\* which the restart of the live match cuts short.
Leaving ==
  "changelevel" \in pending =>
    /\ state # "finished"
    /\ Playing => /\ handles = {} /\ rounds \in {0, 1}
                  /\ engine.round \in {"play", "over"} => engine.restart
                  /\ engine.round = "play" => rounds = 0

\* What is played is live in the database.
Shows == connection /\ Playing => db.status = "live"

Course == Maps /\ Leaving /\ Shows

LEMMA CourseInit == Init => Course
BY DEF Init, Course, Maps, Leaving, Shows, Playing

LEMMA MapsNext ==
  ASSUME Late = FALSE, TypeOK, Prologue, Maps, Leaving, [Next]_vars
  PROVE  Maps'
<1> USE DEF life, clients, surrender, pauses, timers, world, setting, Maps
<1>1. CASE Aside
  <2>1. state' = state
    BY <1>1, AsideSteps
  <2>2. CASE StartMapVote \/ MapVoteList \/ MapVoteExpiry
    BY <2>1, <2>2 DEF StartMapVote, MapVoteList, MapVoteExpiry
  <2>3. CASE DatabaseConnects \/ WarmupTimeout \/ AutoUnpause \/ CountdownEnds \/ RedirectToLobby
             \/ UNCHANGED vars
    BY <2>1, <2>3 DEF DatabaseConnects, WarmupTimeout, AutoUnpause, CountdownEnds,
                      RedirectToLobby, Fire, vars
  <2>4. CASE \E p \in Players : PlayerConnects(p) \/ PlayerLeaves(p)
    BY <2>1, <2>4 DEF PlayerConnects, PlayerLeaves
  <2>5. CASE \E t \in Teams : RequestPause(t) \/ Unpause(t) \/ SurrenderExpiry(t) \/ CooldownEnds(t)
    BY <2>1, <2>5 DEF RequestPause, Unpause, SurrenderExpiry, CooldownEnds, Fire, CancelTimers
  <2> QED
    BY <1>1, <2>2, <2>3, <2>4, <2>5 DEF Aside
<1>2. CASE CheckAllConnected
  BY <1>2 DEF CheckAllConnected, CancelTimers
<1>3. CASE DoChangelevel
  <2>1. state' = "warmup" /\ handles' \in {handles, {"check", "warmup"}}
    BY <1>3 DEF DoChangelevel, MapStarts
  <2>2. handles \subseteq {"check", "warmup", "vote"}
    BY <1>3 DEF DoChangelevel, Leaving, Playing, TypeOK, MatchState
  <2> QED
    BY <2>1, <2>2
<1>4. CASE ShowKnifeMenu \/ KnifeWinnerChooses \/ KnifeAutoChoose
  <2>1. state' = state \/ (state \in {"knife", "live"} /\ state' = "live")
    BY <1>4, ChoiceSteps
  <2>2. handles' = handles /\ pending' \cap {"query", "vote"} = pending \cap {"query", "vote"}
    BY <1>4 DEF ShowKnifeMenu, KnifeWinnerChooses, KnifeAutoChoose
  <2> QED
    BY <2>1, <2>2
<1>5. CASE EngineRestarts \/ NewRound \/ \E p \in Players : PlayerScores(p)
  BY <1>5 DEF EngineRestarts, NewRound, PlayerScores
<1>6. CASE FreezeEnd \/ RoundEnd \/ MatchEnd
  BY <1>6 DEF FreezeEnd, RoundEnd, MatchEnd, Finish, Playing
<1>7. ASSUME NEW t \in Teams, Surrender(t)
      PROVE  Maps'
  BY <1>7 DEF Surrender, Finish, Playing, Expiry
<1> QED
  BY <1>1, <1>2, <1>3, <1>4, <1>5, <1>6, <1>7, Kinds

LEMMA LeavingNext ==
  ASSUME Late = FALSE, MinRounds > 1, TypeOK, Prologue, Maps, Leaving, [Next]_vars
  PROVE  Leaving'
<1> USE DEF life, clients, surrender, pauses, timers, world, setting
<1> SUFFICES ASSUME "changelevel" \in pending'
             PROVE  /\ state' # "finished"
                    /\ Playing' => /\ handles' = {} /\ rounds' \in {0, 1}
                                   /\ engine'.round \in {"play", "over"} => engine'.restart
                                   /\ engine'.round = "play" => rounds' = 0
  BY DEF Leaving
<1>0. engine \in EngineState
  BY DEF TypeOK
<1>1. CASE Aside
  <2>1. UNCHANGED <<state, rounds>> /\ engine'.round = engine.round
    BY <1>1, AsideSteps
  <2>2. CASE StartMapVote \/ MapVoteList \/ MapVoteExpiry
    BY <2>1, <2>2 DEF StartMapVote, MapVoteList, MapVoteExpiry, Maps, Leaving, Playing
  <2>3. CASE DatabaseConnects \/ WarmupTimeout \/ AutoUnpause \/ CountdownEnds \/ RedirectToLobby
             \/ UNCHANGED vars
    <3>1. /\ engine'.restart = engine.restart /\ handles' \subseteq handles
          /\ "changelevel" \in pending
      BY <1>0, <2>3 DEF DatabaseConnects, WarmupTimeout, AutoUnpause, CountdownEnds,
                        RedirectToLobby, Fire, Resume, vars, EngineState
    <3> QED BY <2>1, <3>1 DEF Leaving, Playing
  <2>4. CASE \E p \in Players : PlayerConnects(p) \/ PlayerLeaves(p)
    BY <2>1, <2>4 DEF PlayerConnects, PlayerLeaves, Leaving, Playing
  <2>5. CASE \E t \in Teams : RequestPause(t) \/ Unpause(t) \/ SurrenderExpiry(t) \/ CooldownEnds(t)
    <3>1. /\ engine'.restart = engine.restart /\ handles' \subseteq handles
          /\ "changelevel" \in pending
      BY <1>0, <2>5 DEF RequestPause, Unpause, SurrenderExpiry, CooldownEnds, Fire,
                        CancelTimers, Resume, EngineState
    <3> QED BY <2>1, <3>1 DEF Leaving, Playing
  <2> QED
    BY <1>1, <2>2, <2>3, <2>4, <2>5 DEF Aside
<1>2. CASE CheckAllConnected
  BY <1>2 DEF CheckAllConnected, Playing
<1>3. CASE DoChangelevel
  BY <1>3 DEF DoChangelevel, MapStarts, Playing
<1>4. CASE ShowKnifeMenu \/ KnifeWinnerChooses \/ KnifeAutoChoose
  <2>1. /\ rounds' = rounds
        /\ state' = state \/ (state \in {"knife", "live"} /\ state' = "live")
    BY <1>4, ChoiceSteps
  <2>2. "changelevel" \in pending /\ handles' = handles
    BY <1>4 DEF ShowKnifeMenu, KnifeWinnerChooses, KnifeAutoChoose
  <2>3. (state' = state /\ engine' = engine)
        \/ (engine'.restart /\ engine'.round = engine.round)
    BY <1>0, <1>4 DEF ShowKnifeMenu, KnifeWinnerChooses, KnifeAutoChoose, StartLiveMatch,
                      EngineState
  <2> QED
    BY <2>1, <2>2, <2>3 DEF Leaving, Maps, Prologue, Playing
<1>5. CASE EngineRestarts \/ NewRound
  BY <1>5 DEF EngineRestarts, NewRound, Frozen, Leaving, Playing
<1>6. CASE FreezeEnd
  <2>1. "changelevel" \in pending /\ state' = state
    BY <1>6 DEF FreezeEnd
  <2>2. ~Playing
    BY <1>6, <2>1 DEF FreezeEnd
  <2> QED BY <2>1, <2>2 DEF Leaving, Playing
<1>7. CASE RoundEnd
  <2>1. /\ "changelevel" \in pending /\ handles' = handles /\ engine.round = "play"
        /\ engine'.round = "over" /\ engine'.restart = engine.restart
    BY <1>0, <1>7 DEF RoundEnd, EngineState
  <2>2. CASE state = "knife"
    BY <1>7, <2>1, <2>2 DEF RoundEnd, Playing
  <2>3. CASE Playing
    <3>1. rounds = 0 /\ handles = {} /\ engine.restart
      BY <2>1, <2>3 DEF Leaving
    <3>2. rounds' = 1 /\ state' = state
      BY <1>7, <2>3, <3>1 DEF RoundEnd, Playing
    <3> QED BY <2>1, <2>3, <3>1, <3>2 DEF Leaving
  <2> QED
    BY <1>7, <2>2, <2>3 DEF RoundEnd
<1>8. CASE MatchEnd
  BY <1>8 DEF MatchEnd, Finish, Leaving
<1>9. CASE \E p \in Players : PlayerScores(p)
  BY <1>9 DEF PlayerScores, Leaving, Playing
<1>10. ASSUME NEW t \in Teams, Surrender(t)
       PROVE  FALSE
  <2>1. "changelevel" \in pending
    BY <1>10 DEF Surrender, Finish, Expiry
  <2>2. Playing /\ rounds >= MinRounds
    BY <1>10 DEF Surrender
  <2> QED BY <2>1, <2>2 DEF Leaving
<1> QED
  BY <1>1, <1>2, <1>3, <1>4, <1>5, <1>6, <1>7, <1>8, <1>9, <1>10, Kinds


\* A step of which neither the other modules nor the row see anything of the match.
Unseen == UNCHANGED <<Phase, db.status, db.connected>>

\* What a handler writes of the match, with a connection or without.
LEMMA Writes ==
  ASSUME db \in Written, NEW s, Write([db EXCEPT !.status = s])
  PROVE  /\ db'.connected = db.connected
         /\ db'.status = IF connection THEN s ELSE db.status
BY DEF Write, Written

LEMMA FinishWrites ==
  ASSUME db \in Written, NEW w, NEW cancelled, Finish(w, cancelled)
  PROVE  /\ state' = "finished" /\ db'.connected = db.connected
         /\ db'.status = IF connection THEN "finished" ELSE db.status
<1>1. SaveAllPlayerStats(db) = [db EXCEPT !.stats = [p \in Players |->
        IF p \in InGame THEN earned[slot[p]] ELSE db.stats[p]]]
  BY DEF SaveAllPlayerStats
<1>2. LET row == [SaveAllPlayerStats(db) EXCEPT !.status = "finished", !.winner = w]
      IN  row.status = "finished" /\ row.connected = db.connected
  BY <1>1 DEF Written
<1> QED
  BY <1>2 DEF Finish, Write

LEMMA ShowsNext ==
  ASSUME Late = FALSE, TypeOK, Prologue, Shows, [Next]_vars
  PROVE  Shows'
<1> USE DEF life, clients, surrender, pauses, timers, world, setting
<1>0. db \in Written
  BY DEF TypeOK
<1>1. CASE DatabaseConnects
  BY <1>1 DEF DatabaseConnects, Shows, Playing
<1>2. CASE WarmupTimeout
  BY <1>2 DEF WarmupTimeout, Shows, Prologue, Playing
<1>3. CASE \E p \in Players : PlayerConnects(p) \/ PlayerLeaves(p)
  <2>1. db'.status = db.status
    BY <1>0, <1>3 DEF PlayerConnects, PlayerLeaves, Write, Written
  <2> QED
    BY <1>3, <2>1 DEF PlayerConnects, PlayerLeaves, Shows, Playing
<1>4. CASE Aside /\ ~DatabaseConnects /\ ~WarmupTimeout
           /\ ~\E p \in Players : PlayerConnects(p) \/ PlayerLeaves(p)
  <2>1. state' = state
    BY <1>4, AsideSteps
  <2>2. UNCHANGED <<connection, db>>
    BY <1>4 DEF Aside, StartMapVote, MapVoteList, MapVoteExpiry, AutoUnpause, CountdownEnds,
                RedirectToLobby, RequestPause, Unpause, SurrenderExpiry, CooldownEnds, vars
  <2> QED
    BY <2>1, <2>2 DEF Shows, Playing
<1>5. CASE CheckAllConnected \/ DoChangelevel
  BY <1>5 DEF CheckAllConnected, DoChangelevel, MapStarts, Shows, Playing
<1>6. CASE ShowKnifeMenu \/ KnifeWinnerChooses \/ KnifeAutoChoose
  <2>1. connection' = connection
    BY <1>6, ChoiceSteps
  <2>2. UNCHANGED <<state, db>> \/ StartLiveMatch
    BY <1>6 DEF ShowKnifeMenu, KnifeWinnerChooses, KnifeAutoChoose
  <2> QED
    BY <1>0, <2>1, <2>2, Writes DEF StartLiveMatch, Shows, Playing
<1>7. CASE EngineRestarts \/ NewRound \/ FreezeEnd \/ \E p \in Players : PlayerScores(p)
  BY <1>7 DEF EngineRestarts, NewRound, FreezeEnd, PlayerScores, Shows, Playing
<1>8. CASE RoundEnd
  BY <1>8 DEF RoundEnd, Shows, Playing
<1>9. CASE MatchEnd \/ \E t \in Teams : Surrender(t)
  <2>1. state' = "finished" \/ UNCHANGED <<state, db>>
    BY <1>9 DEF MatchEnd, Surrender, Finish
  <2>2. connection' = connection
    BY <1>9 DEF MatchEnd, Surrender
  <2> QED
    BY <2>1, <2>2 DEF Shows, Playing
<1> QED
  BY <1>1, <1>2, <1>3, <1>4, <1>5, <1>6, <1>7, <1>8, <1>9, Kinds

\* Every step of the plugin is one of GameServers, or one it does not see.
LEMMA ServerSteps ==
  ASSUME Late = FALSE, TypeOK, Prologue, Course, [Next]_vars
  PROVE  GameServer!ServerStep \/ Unseen
<1> USE DEF life, clients, surrender, pauses, timers, world, setting
<1>0. db \in Written /\ state \in {"warmup", "knife", "live", "overtime", "finished"}
  BY DEF TypeOK, MatchState
<1>1. CASE DatabaseConnects
  <2>1. /\ Phase = "warmup" /\ Phase' = "warmup"
        /\ db'.status = "warmup" /\ db'.connected = db.connected
    BY <1>0, <1>1 DEF DatabaseConnects, Phase, Written
  <2> QED BY <2>1, SeenWarmup
<1>2. CASE WarmupTimeout
  <2>1. Phase' = Phase
    BY <1>2 DEF WarmupTimeout, Phase, Playing
  <2>2. CASE allConnected
    BY <1>2, <2>1, <2>2 DEF WarmupTimeout, Unseen
  <2>3. CASE ~allConnected
    <3>1. Phase = "warmup"
      BY <2>3 DEF Prologue, Phase
    <3>2. /\ db'.connected = db.connected
          /\ db'.status = IF connection THEN "cancelled" ELSE db.status
      BY <1>0, <1>2, <2>3, Writes DEF WarmupTimeout
    <3> QED BY <2>1, <3>1, <3>2, SeenTimeout DEF Unseen
  <2> QED BY <2>2, <2>3
<1>3. ASSUME NEW p \in Players, PlayerConnects(p)
      PROVE  GameServer!ServerStep \/ Unseen
  <2>1. Phase' = Phase
    BY <1>3 DEF PlayerConnects, Phase, Playing
  <2>2. db' = db \/ (db'.status = db.status /\ db'.connected = db.connected \cup {p})
    BY <1>0, <1>3 DEF PlayerConnects, Write, Written
  <2> QED BY <2>1, <2>2, SeenConnects DEF Unseen
<1>4. ASSUME NEW p \in Players, PlayerLeaves(p)
      PROVE  Unseen
  <2>1. Phase' = Phase
    BY <1>4 DEF PlayerLeaves, Phase, Playing
  <2>2. db'.status = db.status /\ db'.connected = db.connected
    BY <1>0, <1>4 DEF PlayerLeaves, Write, Written
  <2> QED BY <2>1, <2>2 DEF Unseen
<1>5. CASE Aside /\ ~DatabaseConnects /\ ~WarmupTimeout
           /\ ~\E p \in Players : PlayerConnects(p) \/ PlayerLeaves(p)
  <2>1. state' = state
    BY <1>5, AsideSteps
  <2>2. UNCHANGED <<connection, db>>
    BY <1>5 DEF Aside, StartMapVote, MapVoteList, MapVoteExpiry, AutoUnpause, CountdownEnds,
                RedirectToLobby, RequestPause, Unpause, SurrenderExpiry, CooldownEnds, vars
  <2> QED
    BY <2>1, <2>2 DEF Unseen, Phase, Playing
<1>6. CASE CheckAllConnected
  BY <1>6 DEF CheckAllConnected, Unseen, Phase, Playing
<1>7. CASE DoChangelevel
  <2>1. /\ "changelevel" \in pending /\ state' = "warmup" /\ connection' = connection
        /\ IF handles = {} THEN Write([db EXCEPT !.status = "warmup"]) ELSE db' = db
    BY <1>7 DEF DoChangelevel, MapStarts
  <2>2. Phase' = "warmup"
    BY <2>1 DEF Phase
  <2>3. Phase \in {"warmup", "live"} /\ (handles # {} => Phase = "warmup")
    BY <1>0, <2>1 DEF Course, Leaving, Phase, Playing
  <2>4. CASE handles # {} \/ ~connection
    BY <2>1, <2>2, <2>3, <2>4 DEF Unseen, Write, Phase
  <2>5. CASE handles = {} /\ connection
    BY <1>0, <2>1, <2>2, <2>3, <2>5, Writes, SeenWarmup
  <2> QED BY <2>4, <2>5
<1>8. CASE ShowKnifeMenu \/ KnifeWinnerChooses \/ KnifeAutoChoose
  <2>1. /\ connection' = connection
        /\ state' = state \/ (state \in {"knife", "live"} /\ state' = "live")
    BY <1>8, ChoiceSteps
  <2>2. UNCHANGED <<state, db>> \/ StartLiveMatch
    BY <1>8 DEF ShowKnifeMenu, KnifeWinnerChooses, KnifeAutoChoose
  <2>3. CASE UNCHANGED <<state, db>>
    BY <2>1, <2>3 DEF Unseen, Phase, Playing
  <2>4. CASE StartLiveMatch
    <3>1. /\ state' = "live" /\ db'.connected = db.connected
          /\ db'.status = IF connection THEN "live" ELSE db.status
      BY <1>0, <2>4, Writes DEF StartLiveMatch
    <3>2. CASE ~connection
      BY <2>1, <3>1, <3>2 DEF Unseen, Phase
    <3>3. CASE connection /\ state = "live"
      BY <2>1, <3>1, <3>3 DEF Unseen, Phase, Playing, Course, Shows
    <3>4. CASE connection /\ state = "knife"
      <4>1. Phase = "warmup" /\ Phase' = "live"
        BY <2>1, <3>1, <3>4 DEF Phase, Playing
      <4> QED BY <3>1, <3>4, <4>1, SeenLive
    <3> QED BY <2>1, <3>1, <3>2, <3>3, <3>4
  <2> QED BY <2>2, <2>3, <2>4
<1>9. CASE EngineRestarts \/ NewRound \/ FreezeEnd \/ \E p \in Players : PlayerScores(p)
  BY <1>9 DEF EngineRestarts, NewRound, FreezeEnd, PlayerScores, Unseen, Phase, Playing
<1>10. CASE RoundEnd
  <2>1. UNCHANGED <<connection, db>> /\ (state' = state \/ (Playing /\ state' = "overtime"))
    BY <1>10 DEF RoundEnd
  <2> QED BY <2>1 DEF Unseen, Phase, Playing
<1>11. ASSUME NEW w, NEW cancelled, Finish(w, cancelled), Playing, connection' = connection
       PROVE  GameServer!ServerStep \/ Unseen
  <2>1. /\ state' = "finished" /\ db'.connected = db.connected
        /\ db'.status = IF connection THEN "finished" ELSE db.status
    BY <1>0, <1>11, FinishWrites
  <2>2. CASE ~connection
    BY <1>11, <2>1, <2>2 DEF Unseen, Phase
  <2>3. CASE connection
    <3>1. Phase = "live" /\ Phase' = "over"
      BY <1>11, <2>1, <2>3 DEF Phase, Playing
    <3> QED BY <2>1, <2>3, <3>1, SeenEnd
  <2> QED BY <2>2, <2>3
<1>12. CASE MatchEnd
  BY <1>11, <1>12 DEF MatchEnd
<1>13. ASSUME NEW t \in Teams, Surrender(t)
       PROVE  GameServer!ServerStep \/ Unseen
  <2>1. Playing /\ connection' = connection
    BY <1>13 DEF Surrender
  <2>2. UNCHANGED <<state, db>> \/ Finish(Others(t), {"check", "warmup", Expiry(t)})
    BY <1>13 DEF Surrender
  <2>3. CASE UNCHANGED <<state, db>>
    BY <2>1, <2>3 DEF Unseen, Phase, Playing
  <2> QED BY <1>11, <2>1, <2>2, <2>3
<1> QED
  BY <1>1, <1>2, <1>3, <1>4, <1>5, <1>6, <1>7, <1>8, <1>9, <1>10, <1>12, <1>13, Kinds

\* The plugin does what GameServers lets a server do, and nothing else the other
\* modules could see: if it has its connection to the database before the match
\* begins, and a surrender needs more than one round, as it does in the code.
THEOREM ImplementsGameServersCorrect ==
  ASSUME Late = FALSE, MinRounds > 1
  PROVE  Spec => ImplementsGameServers
<1>1. Init => Course
  BY CourseInit
<1>2. (TypeOK /\ Prologue) /\ Course /\ [Next]_vars => Course'
  BY MapsNext, LeavingNext, ShowsNext DEF Course
<1>3. (TypeOK /\ Prologue) /\ Course /\ [Next]_vars =>
        [GameServer!ServerStep]_<<Phase, db.status, db.connected>>
  BY ServerSteps DEF Unseen
<1> QED
  BY <1>1, <1>2, <1>3, PrologueAlways, PTL DEF Spec, ImplementsGameServers
=============================================================================
