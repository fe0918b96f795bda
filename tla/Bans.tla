-------------------------------- MODULE Bans --------------------------------
(***************************************************************************)
(* Bans from matchmaking.  They are kept twice: in two columns of          *)
(* mm_players, is_banned and ban_until, by which !queue refuses a player,  *)
(* and as rows of mm_bans, which the panel shows.                          *)
(*                                                                         *)
(* The daemon (no-show, abandoned match), the lobby (sm_mm_ban,            *)
(* sm_mm_unban) and the web panel write both, each with its own sequence   *)
(* of statements and without a transaction: job is what an actor has still *)
(* to run, every statement is one action, and an error or a crash may end  *)
(* the sequence after any of them.                                         *)
(*                                                                         *)
(* Time is counted in minutes.  It passes while no sequence is under way:  *)
(* NOW() is the same in all statements of one.  Reasons and authors of     *)
(* bans are left out.                                                      *)
(*                                                                         *)
(* Of mm_queue, the statuses of a player's rows are kept: UNIQUE KEY       *)
(* (steam_id, status) allows one row of each, and an UPDATE that would     *)
(* make a second fails as a whole.                                         *)
(***************************************************************************)
EXTENDS Integers, FiniteSets

CONSTANTS
  Players,
  Panels,        \* requests the panel may serve at the same time
  Instants,      \* bound: the times at which anything happens
  Minutes,       \* the durations administrators give
  MaxOffences,   \* bound: the level at which nobody abandons any more
  MaxFaults,     \* bound: sequences or statements that fail
  MaxRows,       \* bound: rows of mm_bans, written or on their way
  MaxTogether,   \* bound: those, a player's rows of mm_queue, and faults together
  NoPlayer

ASSUME BansAssumption ==
  /\ NoPlayer \notin Players
  /\ "daemon" \notin Panels /\ "lobby" \notin Panels
  /\ Instants \subseteq Nat /\ 0 \in Instants
  /\ Minutes \subseteq Nat \ {0}      \* sm_mm_ban refuses less than a minute
  /\ MaxOffences \in Nat /\ MaxFaults \in Nat /\ MaxRows \in Nat /\ MaxTogether \in Nat

VARIABLES
  now,
  banned, until,           \* mm_players: is_banned, ban_until (0 is NULL)
  offences, lastAbandon,   \* mm_players: abandon_count, last_abandon_at
  rows,                    \* mm_bans
  job,                     \* the sequence of statements each actor is in
  asking,                  \* players whom !queue has found free to queue
  queue,                   \* mm_queue: the statuses of each player's rows
  faults,                  \* bound
  torn,      \* history: a sequence was cut short or overtaken so that the two
             \* tables may disagree about the player
  barred     \* history: sm_mm_ban found or left the player out of the queue

player == <<banned, until, offences, lastAbandon>>
lobby == <<asking, queue>>
vars == <<now, player, rows, job, lobby, faults, torn, barred>>

Actors == {"daemon", "lobby"} \cup Panels
Jobs == [at : {"idle", "insert", "mark", "penalise", "cancel", "deactivate",
               "clear", "expire", "unflag"},
         player : Players \cup {NoPlayer}, mins : Nat, level : Nat]
NoJob == [at |-> "idle", player |-> NoPlayer, mins |-> 0, level |-> 0]

NoShowBan == 5
BanMinutes == <<30, 120, 1440, 10080>>
AbandonBanMinutes(level) == IF level \in 1..4 THEN BanMinutes[level] ELSE 43200
DecayDays == 14
DaysSince(t) == (now - t) \div 1440

\* The condition of !queue, of the leader's !queue for each member, and of it only.
Refused(p) == banned[p] /\ until[p] > now

\* The panel's active bans: the expiry counts, is_active does not.  (bans()
\* itself asks for created_at and raises; the dashboard's count and the players'
\* page have the same condition.)
ActiveBans == {r \in rows : r.expires > now}
Listed(p) == \E r \in ActiveBans : r.player = p

QueueStatus == {"waiting", "ready_check", "matched", "expired", "cancelled"}
Queued == {"waiting", "ready_check"}

\* Whether the key lets those of a player's rows that have a status of from
\* have the status to.
KeyFree(q, from, to) == \A s \in q \cap from : q \cap from = {s} /\ to \notin q

\* UPDATE mm_queue SET status = to WHERE steam_id = ... AND status IN from.
Updated(q, from, to) ==
  IF q \cap from # {} /\ KeyFree(q, from, to) THEN (q \ from) \cup {to} ELSE q

\* A ban of p whose row has been written and whose UPDATE has not.
MarkPending(a, p) == job[a].player = p /\ job[a].at \in {"mark", "penalise"}
LiftPending(a, p) == job[a].player = p /\ job[a].at = "unflag"

-----------------------------------------------------------------------------
Init ==
  /\ now = 0
  /\ banned = [p \in Players |-> FALSE] /\ until = [p \in Players |-> 0]
  /\ offences = [p \in Players |-> 0] /\ lastAbandon = [p \in Players |-> 0]
  /\ rows = {}
  /\ job = [a \in Actors |-> NoJob]
  /\ asking = {} /\ queue = [p \in Players |-> {}]
  /\ faults = 0 /\ torn = {} /\ barred = {}

Pass(t) ==
  /\ t \in Instants /\ t > now
  /\ \A a \in Actors : job[a] = NoJob
  /\ now' = t
  /\ UNCHANGED <<player, rows, job, lobby, faults, torn, barred>>

-----------------------------------------------------------------------------
(* Requests: the checks before the first statement.                        *)

\* The bounds: rows of mm_bans that are there or are about to be inserted, and
\* whether there is room for another one, for a row of mm_queue or for a fault.
BanRows == Cardinality(rows) + Cardinality({a \in Actors : job[a].at = "insert"})
Room == \A p \in Players : BanRows + Cardinality(queue[p]) + faults < MaxTogether

Request(a, first, p, mins, level) ==
  /\ job[a] = NoJob
  /\ first = "insert" => BanRows < MaxRows /\ Room
  /\ job' = [job EXCEPT ![a] =
       [at |-> first, player |-> p, mins |-> mins, level |-> level]]
  /\ UNCHANGED <<now, player, rows, lobby, faults, torn, barred>>

\* Step 7 for a player who was absent when the warmup timed out.
NoShow(p) == Request("daemon", "insert", p, NoShowBan, 0)

\* _apply_abandon_penalty.  abandon_count was read with the match; only this
\* step writes it.
\* Faulty: two clean weeks forgive everything.
ForgivenAltogether(p) ==
  IF offences[p] > 0 /\ DaysSince(lastAbandon[p]) > DecayDays THEN 0 ELSE offences[p]

EffectiveCount(p) ==
  IF offences[p] > 0 /\ DaysSince(lastAbandon[p]) > DecayDays
    THEN offences[p] - 1 ELSE offences[p]

ApplyAbandonPenalty(p) ==
  /\ EffectiveCount(p) < MaxOffences
  /\ Request("daemon", "insert", p, AbandonBanMinutes(EffectiveCount(p) + 1),
             EffectiveCount(p) + 1)

Cmd_Ban(p, mins) == Request("lobby", "insert", p, mins, 0)
Cmd_Unban(p) == Request("lobby", "deactivate", p, 0, 0)
ban_player(a, p) == Request(a, "insert", p, 0, 0)
unban_player(a, p) == Request(a, "expire", p, 0, 0)

-----------------------------------------------------------------------------
(* Statements.                                                             *)

\* What an actor goes on with after the statement it is at.
Following(a) ==
  LET s == job[a].at IN
    IF s = "insert" THEN (IF job[a].level > 0 THEN "penalise" ELSE "mark")
    ELSE IF s = "mark" /\ a = "lobby" THEN "cancel"
    ELSE IF s = "deactivate" THEN "clear"
    ELSE IF s = "expire" THEN "unflag"
    ELSE "idle"

Goto(a, s) == job' = [job EXCEPT ![a] = IF s = "idle" THEN NoJob ELSE [@ EXCEPT !.at = s]]

\* Actor a runs the statement s for player p and goes on.
Runs(a, s, p) == p \in Players /\ job[a].at = s /\ job[a].player = p /\ Goto(a, Following(a))

\* INSERT INTO mm_bans.  There is no key its ON DUPLICATE KEY could meet.
Insert(a, p) ==
  /\ a \notin Panels /\ Runs(a, "insert", p)
  /\ rows' = rows \cup {[player |-> p, expires |-> now + job[a].mins, active |-> TRUE]}
  /\ UNCHANGED <<now, player, lobby, faults, torn, barred>>

\* The panel's INSERT names created_at, a column mm_bans does not have: it
\* raises, and the UPDATE behind it is not reached.
InsertRaises(a) ==
  /\ a \in Panels /\ job[a].at = "insert"
  /\ Goto(a, "idle")
  /\ UNCHANGED <<now, player, rows, lobby, faults, torn, barred>>

SetBan(p, t) ==
  /\ banned' = [banned EXCEPT ![p] = TRUE]
  /\ until' = [until EXCEPT ![p] = t]
  /\ barred' = barred \ {p}

Mark(a, p) ==
  /\ Runs(a, "mark", p)
  /\ SetBan(p, now + job[a].mins)
  /\ UNCHANGED <<now, offences, lastAbandon, rows, lobby, faults, torn>>

\* Faulty: the count is incremented once more by the statement.
PenaliseTwice(a, p) ==
  /\ Runs(a, "penalise", p)
  /\ SetBan(p, now + job[a].mins)
  /\ offences' = [offences EXCEPT ![p] = job[a].level + 1]
  /\ lastAbandon' = [lastAbandon EXCEPT ![p] = now]
  /\ UNCHANGED <<now, rows, lobby, faults, torn>>

Penalise(a, p) ==
  /\ Runs(a, "penalise", p)
  /\ SetBan(p, now + job[a].mins)
  /\ offences' = [offences EXCEPT ![p] = job[a].level]
  /\ lastAbandon' = [lastAbandon EXCEPT ![p] = now]
  /\ UNCHANGED <<now, rows, lobby, faults, torn>>

\* The ban holds from here on: p is not queued, and no !queue of his is under way.
Barred(p) == IF p \in asking \/ ~KeyFree(queue[p], Queued, "cancelled") THEN barred ELSE barred \cup {p}

\* Faulty: the statement names another status.
CancelMatchedOnly(a, p) ==
  /\ Runs(a, "cancel", p)
  /\ queue' = [queue EXCEPT ![p] = Updated(@, {"matched"}, "cancelled")]
  /\ barred' = Barred(p)
  /\ UNCHANGED <<now, player, rows, asking, faults, torn>>

\* The last statement of sm_mm_ban.  The key refuses it to whoever has a row
\* that is 'cancelled' already, or two rows it would cancel, and he stays in
\* the queue.
Cancel(a, p) ==
  /\ Runs(a, "cancel", p)
  /\ queue' = [queue EXCEPT ![p] = Updated(@, Queued, "cancelled")]
  /\ barred' = Barred(p)
  /\ UNCHANGED <<now, player, rows, asking, faults, torn>>

\* sm_mm_unban: is_active = 0, the expiry stays.
Deactivate(a, p) ==
  /\ Runs(a, "deactivate", p)
  /\ rows' = {IF r.player = p THEN [r EXCEPT !.active = FALSE] ELSE r : r \in rows}
  /\ UNCHANGED <<now, player, lobby, faults, torn, barred>>

\* The panel: expires_at = NOW() where it is still to come.
Expired(r, p) == IF r.player = p /\ r.expires > now THEN [r EXCEPT !.expires = now] ELSE r

\* Faulty: mm_players is forgotten.
ExpireOnly(a, p) ==
  /\ job[a].at = "expire" /\ job[a].player = p /\ Goto(a, "idle")
  /\ rows' = {Expired(r, p) : r \in rows}
  /\ torn' = IF \E b \in Actors : MarkPending(b, p) THEN torn \cup {p} ELSE torn
  /\ UNCHANGED <<now, player, lobby, faults, barred>>

Expire(a, p) ==
  /\ Runs(a, "expire", p)
  /\ rows' = {Expired(r, p) : r \in rows}
  /\ torn' = IF \E b \in Actors : MarkPending(b, p) THEN torn \cup {p} ELSE torn
  /\ UNCHANGED <<now, player, lobby, faults, barred>>

\* The flag is down: the tables agree, unless a ban is about to be marked.
Lift(p) ==
  /\ banned' = [banned EXCEPT ![p] = FALSE]
  /\ torn' = IF \E b \in Actors : MarkPending(b, p) THEN torn ELSE torn \ {p}
  /\ barred' = barred \ {p}

Clear(a, p) ==
  /\ Runs(a, "clear", p)
  /\ Lift(p)
  /\ until' = [until EXCEPT ![p] = 0]
  /\ UNCHANGED <<now, offences, lastAbandon, rows, lobby, faults>>

\* The panel leaves ban_until as it is.
Unflag(a, p) ==
  /\ Runs(a, "unflag", p)
  /\ Lift(p)
  /\ UNCHANGED <<now, until, offences, lastAbandon, rows, lobby, faults>>

Fault == faults < MaxFaults /\ Room /\ faults' = faults + 1

\* An exception, or the end of the process: the rest of the sequence is lost.
Stops(a) ==
  /\ job[a] # NoJob /\ Fault
  /\ Goto(a, "idle")
  /\ torn' = IF job[a].at = "unflag" THEN torn \cup {job[a].player} ELSE torn
  /\ UNCHANGED <<now, player, rows, lobby, barred>>

\* The lobby sends its statements together: one that fails stops none behind it.
Skips(a) ==
  /\ a = "lobby" /\ job[a] # NoJob /\ Fault
  /\ Goto(a, Following(a))
  /\ torn' = IF job[a].at = "insert" THEN torn \cup {job[a].player} ELSE torn
  /\ UNCHANGED <<now, player, rows, lobby, barred>>

-----------------------------------------------------------------------------
(* The queue, as far as a ban reaches it.                                  *)

\* DB_CheckBan.  The lobby guards !queue by a flag of the client, which a
\* reconnect resets, so the player may have rows, or a !queue under way.
CheckBan(p) ==
  /\ ~Refused(p)
  /\ asking' = asking \cup {p}
  /\ UNCHANGED <<now, player, rows, job, queue, faults, torn, barred>>

\* The INSERT IGNORE behind the queries; another !queue may still be under way.
JoinQueue(p) ==
  /\ p \in asking /\ asking' \in {asking, asking \ {p}}
  /\ Room
  /\ queue' = [queue EXCEPT ![p] = @ \cup {"waiting"}]
  /\ UNCHANGED <<now, player, rows, job, faults, torn, barred>>

\* The client has gone, or a query has failed.
QueueAborted(p) ==
  /\ asking' = asking \ {p}
  /\ UNCHANGED <<now, player, rows, job, queue, faults, torn, barred>>

Becomes(p, from, to) ==
  /\ queue' = [queue EXCEPT ![p] = Updated(@, from, to)]
  /\ UNCHANGED <<now, player, rows, job, asking, faults, torn, barred>>

LeaveQueue(p) == Becomes(p, Queued, "cancelled")     \* or disconnects
Decline(p) == Becomes(p, {"ready_check"}, "cancelled")
Timer_ExpireStaleQueue(p) == Becomes(p, {"waiting"}, "expired")
queue_kick(p) == \E s \in QueueStatus : Becomes(p, {s}, "cancelled")

SetReadyCheck(p) == Becomes(p, {"waiting"}, "ready_check")
SetMatched(p) == Becomes(p, {"ready_check"}, "matched")
Requeue(p) == Becomes(p, {"ready_check"}, "waiting")

\* Step 7, for the absent and for the present players of a warmup that timed
\* out.  It goes by status: the row may be one of an earlier match.
CancelMatched(p) == Becomes(p, {"matched"}, "cancelled")

RestoreMatched(p) ==
  /\ queue' = [queue EXCEPT ![p] = Updated(@, {"matched"}, "waiting")]
  /\ barred' = IF queue'[p] = queue[p] THEN barred ELSE barred \ {p}
  /\ UNCHANGED <<now, player, rows, job, asking, faults, torn>>

-----------------------------------------------------------------------------
Daemon == \E p \in Players :
  \/ NoShow(p) \/ ApplyAbandonPenalty(p)
  \/ SetReadyCheck(p) \/ SetMatched(p) \/ Requeue(p)
  \/ CancelMatched(p) \/ RestoreMatched(p)

Lobby == \E p \in Players :
  \/ Cmd_Unban(p) \/ \E mins \in Minutes : Cmd_Ban(p, mins)
  \/ CheckBan(p) \/ JoinQueue(p) \/ QueueAborted(p)
  \/ LeaveQueue(p) \/ Decline(p) \/ Timer_ExpireStaleQueue(p)

Panel ==
  \/ \E p \in Players : queue_kick(p)
  \/ \E a \in Panels :
       \/ InsertRaises(a)
       \/ \E p \in Players : ban_player(a, p) \/ unban_player(a, p)

Statements == \E a \in Actors :
  \/ Stops(a) \/ Skips(a)
  \/ \E p \in Players :
       \/ Insert(a, p) \/ Mark(a, p) \/ Penalise(a, p) \/ Cancel(a, p)
       \/ Deactivate(a, p) \/ Clear(a, p) \/ Expire(a, p) \/ Unflag(a, p)

Next == Daemon \/ Lobby \/ Panel \/ Statements \/ \E t \in Instants : Pass(t)

Spec == Init /\ [][Next]_vars

-----------------------------------------------------------------------------
(* Properties *)

TypeOK ==
  /\ now \in Instants
  /\ banned \in [Players -> BOOLEAN] /\ until \in [Players -> Nat]
  /\ offences \in [Players -> 0..MaxOffences] /\ lastAbandon \in [Players -> Instants]
  /\ rows \subseteq [player : Players, expires : Nat, active : BOOLEAN]
  /\ job \in [Actors -> Jobs]
  /\ asking \subseteq Players /\ queue \in [Players -> SUBSET QueueStatus]
  /\ faults \in 0..MaxFaults /\ torn \subseteq Players /\ barred \subseteq Players

\* USAGE.md: automatic bans "appear here and can be manually lifted".  Whoever
\* is refused at !queue is among the panel's active bans.  The exceptions are
\* torn: a row expired by an unban before the ban it belongs to was marked, an
\* INSERT of the lobby that failed, and an unban that stopped half-way.
RefusedIsListed ==
  \A p \in Players \ torn :
    Refused(p) /\ (\A a \in Actors : ~LiftPending(a, p)) => Listed(p)

\* Whoever abandons again is never free earlier than he would have been for the
\* time before, decay or not, and his count does not fall.
EscalationNeverShortens ==
  [][\A p \in Players :
       offences[p] > 0 /\ <<offences[p], lastAbandon[p]>>' # <<offences[p], lastAbandon[p]>> =>
       /\ offences'[p] >= offences[p]
       /\ until'[p] >= lastAbandon[p] + AbandonBanMinutes(offences[p])]_vars

\* A player whom sm_mm_ban bans is not queued while the ban holds.  The
\* exceptions are those the code makes: !queue had already found him free and
\* was still under way, the key refused to cancel his row, or step 7 sent a
\* 'matched' row of his back to the queue, which it does to banned players too.
BannedLeavesQueue ==
  \A p \in barred : Refused(p) => queue[p] \cap Queued = {} /\ p \notin asking

=============================================================================
