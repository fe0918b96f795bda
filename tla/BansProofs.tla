----------------------------- MODULE BansProofs -----------------------------
(***************************************************************************)
(* What is proved of module Bans, for any number of players, panels,       *)
(* instants, durations and faults.                                         *)
(*                                                                         *)
(* Stages says what a sequence of statements can be at, Shown relates the  *)
(* two tables, Counted the levels of an abandoner and the ban that is      *)
(* being written for him, and Barred is the invariant BannedLeavesQueue.   *)
(***************************************************************************)
EXTENDS Bans, TLAPS

Stages ==
  \A a \in Actors :
    /\ job[a].at = "idle" => job[a] = NoJob
    /\ job[a].at # "idle" => job[a].player \in Players
    /\ job[a].level \in 0..MaxOffences
    /\ job[a].level > 0 =>
         a = "daemon" /\ job[a].at \in {"insert", "penalise"}
                      /\ job[a].mins = AbandonBanMinutes(job[a].level)
    /\ job[a].at = "penalise" => job[a].level > 0
    /\ job[a].at \in {"expire", "unflag"} => a \in Panels

\* The row that shows a ban of p until t.
HasRow(p, t) == \E r \in rows : r.player = p /\ r.expires >= t

Shown ==
  \A p \in Players \ torn :
    /\ Refused(p) => HasRow(p, until[p]) \/ \E a \in Actors : LiftPending(a, p)
    /\ \A a \in Actors : MarkPending(a, p) => HasRow(p, now + job[a].mins)

Counted ==
  \A p \in Players :
    /\ lastAbandon[p] <= now
    /\ \A a \in Actors : job[a].level > 0 /\ job[a].player = p => job[a].level >= offences[p]

BansInv == TypeOK /\ Stages /\ Shown /\ Counted /\ BannedLeavesQueue

-----------------------------------------------------------------------------
(* The operators.                                                          *)

\* The table of _ABANDON_BAN_MINUTES gives minutes.
LEMMA BanMinutesType ==
  ASSUME NEW k \in Nat
  PROVE  AbandonBanMinutes(k) \in Nat
BY DEF AbandonBanMinutes, BanMinutes

\* ... and no fewer for a higher level.
LEMMA BanMinutesGrow ==
  ASSUME NEW k \in Nat \ {0}, NEW l \in Nat, k <= l
  PROVE  AbandonBanMinutes(k) <= AbandonBanMinutes(l)
<1>1. AbandonBanMinutes(1) = 30 /\ AbandonBanMinutes(2) = 120
      /\ AbandonBanMinutes(3) = 1440 /\ AbandonBanMinutes(4) = 10080
  BY DEF AbandonBanMinutes, BanMinutes
<1>2. \A n \in Nat : n > 4 => AbandonBanMinutes(n) = 43200
  BY DEF AbandonBanMinutes
<1>3. \A n \in Nat : n = 0 \/ n = 1 \/ n = 2 \/ n = 3 \/ n = 4 \/ n > 4
  OBVIOUS
<1> QED BY <1>1, <1>2, <1>3

\* A step of an actor changes his own sequence: it ends, or goes on to s.
LEMMA GotoStep ==
  ASSUME job \in [Actors -> Jobs], NEW a \in Actors,
         NEW s \in {"idle", "insert", "mark", "penalise", "cancel", "deactivate",
                    "clear", "expire", "unflag"},
         Goto(a, s)
  PROVE  /\ job' \in [Actors -> Jobs]
         /\ \A b \in Actors \ {a} : job'[b] = job[b]
         /\ s = "idle" => job'[a] = NoJob
         /\ s # "idle" => job'[a] = [at |-> s, player |-> job[a].player,
                                     mins |-> job[a].mins, level |-> job[a].level]
<1>1. job[a] \in Jobs
  OBVIOUS
<1>2. NoJob \in Jobs
  BY DEF NoJob, Jobs
<1>3. [job[a] EXCEPT !.at = s] \in Jobs
  BY <1>1 DEF Jobs
<1>4. [job[a] EXCEPT !.at = s] = [at |-> s, player |-> job[a].player,
                                  mins |-> job[a].mins, level |-> job[a].level]
  BY <1>1 DEF Jobs
<1> QED BY <1>2, <1>3, <1>4 DEF Goto

\* Following is a stage.
LEMMA FollowingStage ==
  ASSUME NEW a \in Actors
  PROVE  Following(a) \in {"idle", "mark", "penalise", "cancel", "clear", "unflag"}
BY DEF Following

\* What a statement finds, and leaves of the sequences.
LEMMA RunsStep ==
  ASSUME job \in [Actors -> Jobs], NEW a \in Actors, NEW s, NEW p, Runs(a, s, p)
  PROVE  /\ p \in Players /\ job[a].at = s /\ job[a].player = p
         /\ job' \in [Actors -> Jobs]
         /\ \A b \in Actors \ {a} : job'[b] = job[b]
         /\ Following(a) = "idle" => job'[a] = NoJob
         /\ Following(a) # "idle" =>
              job'[a] = [at |-> Following(a), player |-> p,
                         mins |-> job[a].mins, level |-> job[a].level]
<1>1. Goto(a, Following(a)) /\ p \in Players /\ job[a].at = s /\ job[a].player = p
  BY DEF Runs
<1> QED BY <1>1, GotoStep, FollowingStage

\* The stages after a statement, or after one that was skipped, are stages.
LEMMA StagesAfter ==
  ASSUME TypeOK, Stages, NEW a \in Actors, Goto(a, Following(a)), job[a].at # "idle"
  PROVE  Stages'
<1>1. job \in [Actors -> Jobs]
  BY DEF TypeOK
<1> USE <1>1
<1>2. /\ job' \in [Actors -> Jobs]
      /\ \A b \in Actors \ {a} : job'[b] = job[b]
      /\ Following(a) = "idle" => job'[a] = NoJob
      /\ Following(a) # "idle" =>
           job'[a] = [at |-> Following(a), player |-> job[a].player,
                      mins |-> job[a].mins, level |-> job[a].level]
  BY GotoStep, FollowingStage
<1>3. CASE Following(a) = "idle"
  BY <1>2, <1>3, BansAssumption DEF Stages, NoJob
<1>4. CASE Following(a) # "idle"
  <2>1. job[a].level > 0 => Following(a) \in {"idle", "penalise"}
    BY DEF Stages, Following
  <2>2. Following(a) = "penalise" => job[a].level > 0
    BY DEF Following
  <2>3. (\A b \in Actors \ {a} : job'[b] = job[b])
        /\ (Following(a) \in {"expire", "unflag"} => a \in Panels)
    BY <1>2, FollowingStage DEF Following, Stages
  <2>4. /\ job'[a].at = Following(a) /\ job'[a].player = job[a].player
        /\ job'[a].mins = job[a].mins /\ job'[a].level = job[a].level
    BY <1>2, <1>4
  <2> QED BY <2>1, <2>2, <2>3, <2>4, <1>4 DEF Stages
<1> QED BY <1>3, <1>4

\* ... and so are those after a sequence has ended early.
LEMMA StagesEnded ==
  ASSUME TypeOK, Stages, NEW a \in Actors, Goto(a, "idle")
  PROVE  Stages'
<1>1. job \in [Actors -> Jobs]
  BY DEF TypeOK
<1>2. (\A b \in Actors \ {a} : job'[b] = job[b]) /\ job'[a] = NoJob
  BY <1>1, GotoStep
<1> QED BY <1>2, BansAssumption DEF Stages, NoJob

-----------------------------------------------------------------------------
(* The actions by what they change.                                        *)

\* A request, whoever made it.
Requested(a, first, p, mins, level) ==
  /\ a \in Actors /\ p \in Players /\ mins \in Nat /\ level \in 0..MaxOffences
  /\ first \in {"insert", "deactivate", "expire"} /\ (first = "expire" => a \in Panels)
  /\ level > 0 => /\ a = "daemon" /\ first = "insert" /\ level = EffectiveCount(p) + 1
                  /\ mins = AbandonBanMinutes(level)
  /\ Request(a, first, p, mins, level)

\* A step of the queue.
Queueing(p) ==
  \/ CheckBan(p) \/ JoinQueue(p) \/ QueueAborted(p) \/ RestoreMatched(p)
  \/ \E from \in SUBSET QueueStatus, to \in QueueStatus :
       Becomes(p, from, to) /\ (from \subseteq Queued \/ to \notin Queued)

\* A sequence that ends early.
Ends(a) == Stops(a) \/ InsertRaises(a)

\* Every request is one of the five, with what its handler has computed.
LEMMA RequestsMade ==
  ASSUME TypeOK, NEW p \in Players
  PROVE  /\ NoShow(p) => Requested("daemon", "insert", p, NoShowBan, 0)
         /\ ApplyAbandonPenalty(p) =>
              Requested("daemon", "insert", p, AbandonBanMinutes(EffectiveCount(p) + 1),
                        EffectiveCount(p) + 1)
         /\ \A mins \in Minutes : Cmd_Ban(p, mins) => Requested("lobby", "insert", p, mins, 0)
         /\ Cmd_Unban(p) => Requested("lobby", "deactivate", p, 0, 0)
         /\ \A a \in Panels : ban_player(a, p) => Requested(a, "insert", p, 0, 0)
         /\ \A a \in Panels : unban_player(a, p) => Requested(a, "expire", p, 0, 0)
<1>1. offences[p] \in 0..MaxOffences
  BY DEF TypeOK
<1>2. EffectiveCount(p) \in Nat
  BY <1>1, BansAssumption DEF EffectiveCount
<1>3. NoShow(p) => Requested("daemon", "insert", p, NoShowBan, 0)
  BY BansAssumption DEF NoShow, NoShowBan, Requested, Actors
<1>4. ASSUME ApplyAbandonPenalty(p)
      PROVE  Requested("daemon", "insert", p, AbandonBanMinutes(EffectiveCount(p) + 1),
                       EffectiveCount(p) + 1)
  <2>1. EffectiveCount(p) + 1 \in 0..MaxOffences
    BY <1>2, <1>4, BansAssumption DEF ApplyAbandonPenalty
  <2>2. AbandonBanMinutes(EffectiveCount(p) + 1) \in Nat
    BY <1>2, BanMinutesType
  <2> QED BY <1>4, <2>1, <2>2 DEF ApplyAbandonPenalty, Requested, Actors
<1>5. \A mins \in Minutes : Cmd_Ban(p, mins) => Requested("lobby", "insert", p, mins, 0)
  BY BansAssumption DEF Cmd_Ban, Requested, Actors
<1>6. Cmd_Unban(p) => Requested("lobby", "deactivate", p, 0, 0)
  BY BansAssumption DEF Cmd_Unban, Requested, Actors
<1>7. \A a \in Panels : (ban_player(a, p) => Requested(a, "insert", p, 0, 0))
                     /\ (unban_player(a, p) => Requested(a, "expire", p, 0, 0))
  BY BansAssumption DEF ban_player, unban_player, Requested, Actors
<1> QED BY <1>3, <1>4, <1>5, <1>6, <1>7

\* An UPDATE of mm_queue leaves one row of each status, and queues nobody who
\* had no row that it names.
LEMMA UpdatedStatus ==
  ASSUME NEW q \in SUBSET QueueStatus, NEW from, NEW to \in QueueStatus
  PROVE  Updated(q, from, to) \in SUBSET QueueStatus
BY DEF Updated

\* The UPDATE of sm_mm_ban empties the queue of the player, unless the key
\* refuses it.
LEMMA CancelledLeaves ==
  ASSUME NEW q, KeyFree(q, Queued, "cancelled")
  PROVE  Updated(q, Queued, "cancelled") \cap Queued = {}
BY DEF Updated, Queued

\* Only the UPDATE of RestoreMatched queues a player who is not queued.
LEMMA NobodyRequeued ==
  ASSUME NEW q, q \cap Queued = {}, NEW from, NEW to, from \subseteq Queued \/ to \notin Queued
  PROVE  Updated(q, from, to) \cap Queued = {}
BY DEF Updated

\* Every other UPDATE is of one of the two kinds.
LEMMA UpdatesQueue ==
  ASSUME NEW p \in Players,
         \/ LeaveQueue(p) \/ Decline(p) \/ Timer_ExpireStaleQueue(p) \/ queue_kick(p)
         \/ SetReadyCheck(p) \/ SetMatched(p) \/ Requeue(p) \/ CancelMatched(p)
  PROVE  Queueing(p)
<1> USE DEF QueueStatus, Queued
<1>1. ASSUME NEW from \in SUBSET QueueStatus, NEW to \in QueueStatus, Becomes(p, from, to),
             from \subseteq Queued \/ to \notin Queued
      PROVE  Queueing(p)
  BY <1>1 DEF Queueing
<1>2. CASE LeaveQueue(p)
  BY <1>1, <1>2 DEF LeaveQueue
<1>3. CASE Decline(p)
  BY <1>1, <1>3 DEF Decline
<1>4. CASE Timer_ExpireStaleQueue(p)
  BY <1>1, <1>4 DEF Timer_ExpireStaleQueue
<1>5. CASE queue_kick(p)
  <2>1. PICK s \in QueueStatus : Becomes(p, {s}, "cancelled")
    BY <1>5 DEF queue_kick
  <2> QED BY <1>1, <2>1
<1>6. CASE SetReadyCheck(p)
  BY <1>1, <1>6 DEF SetReadyCheck
<1>7. CASE SetMatched(p)
  BY <1>1, <1>7 DEF SetMatched
<1>8. CASE Requeue(p)
  BY <1>1, <1>8 DEF Requeue
<1>9. CASE CancelMatched(p)
  BY <1>1, <1>9 DEF CancelMatched
<1> QED BY <1>2, <1>3, <1>4, <1>5, <1>6, <1>7, <1>8, <1>9

\* The cases of every proof about Next.
LEMMA NextCases ==
  ASSUME TypeOK, Next
  PROVE  \/ \E a \in Actors, p \in Players, mins \in Nat, level \in 0..MaxOffences,
              first \in {"insert", "deactivate", "expire"} : Requested(a, first, p, mins, level)
         \/ \E p \in Players : Queueing(p)
         \/ \E a \in Actors : Ends(a) \/ Skips(a)
         \/ \E a \in Actors, p \in Players :
              \/ Insert(a, p) \/ Mark(a, p) \/ Penalise(a, p) \/ Cancel(a, p)
              \/ Deactivate(a, p) \/ Clear(a, p) \/ Expire(a, p) \/ Unflag(a, p)
         \/ \E t \in Instants : Pass(t)
<1>1. ASSUME NEW p \in Players, NoShow(p) \/ ApplyAbandonPenalty(p) \/ Cmd_Unban(p)
                                \/ (\E mins \in Minutes : Cmd_Ban(p, mins))
                                \/ (\E a \in Panels : ban_player(a, p) \/ unban_player(a, p))
      PROVE  \E a \in Actors, q \in Players, mins \in Nat, level \in 0..MaxOffences,
                first \in {"insert", "deactivate", "expire"} : Requested(a, first, q, mins, level)
  <2>1. \E a, mins, level, first : Requested(a, first, p, mins, level)
    BY <1>1, RequestsMade
  <2> QED BY <2>1 DEF Requested
<1>2. Daemon => (\E p \in Players : Queueing(p) \/ NoShow(p) \/ ApplyAbandonPenalty(p))
  BY UpdatesQueue DEF Daemon, Queueing
<1>3. Lobby => (\E p \in Players : Queueing(p) \/ Cmd_Unban(p) \/ \E mins \in Minutes : Cmd_Ban(p, mins))
  BY UpdatesQueue DEF Lobby, Queueing
<1>4. Panel => (\E a \in Actors : Ends(a)) \/ (\E p \in Players : Queueing(p))
               \/ (\E p \in Players : \E a \in Panels : ban_player(a, p) \/ unban_player(a, p))
  BY UpdatesQueue DEF Panel, Ends, Actors
<1>5. Statements => (\E a \in Actors : Ends(a) \/ Skips(a))
        \/ \E a \in Actors, p \in Players :
              \/ Insert(a, p) \/ Mark(a, p) \/ Penalise(a, p) \/ Cancel(a, p)
              \/ Deactivate(a, p) \/ Clear(a, p) \/ Expire(a, p) \/ Unflag(a, p)
  BY DEF Statements, Ends
<1>6. CASE Daemon
  BY <1>6, <1>1, <1>2
<1>7. CASE Lobby
  BY <1>7, <1>1, <1>3
<1>8. CASE Panel
  BY <1>8, <1>1, <1>4
<1>9. CASE Statements
  BY <1>9, <1>5
<1> QED BY <1>6, <1>7, <1>8, <1>9 DEF Next

-----------------------------------------------------------------------------
(* The steps.                                                              *)

\* A request adds a sequence whose minutes and level fit the player's record.
LEMMA RequestKeeps ==
  ASSUME BansInv, NEW a, NEW first, NEW p, NEW mins, NEW level,
         Requested(a, first, p, mins, level)
  PROVE  BansInv'
<1> DEFINE new == [at |-> first, player |-> p, mins |-> mins, level |-> level]
<1>1. /\ a \in Actors /\ p \in Players /\ mins \in Nat /\ level \in 0..MaxOffences
      /\ first \in {"insert", "deactivate", "expire"} /\ new \in Jobs
  BY DEF Requested, Jobs
<1>2. job' = [job EXCEPT ![a] = new] /\ job[a] = NoJob
      /\ UNCHANGED <<now, player, rows, lobby, faults, torn, barred>>
  BY DEF Requested, Request
<1>3. job \in [Actors -> Jobs]
  BY DEF BansInv, TypeOK
<1>4. job'[a] = new /\ \A b \in Actors \ {a} : job'[b] = job[b]
  BY <1>1, <1>2, <1>3
<1>5. TypeOK'
  <2>1. job' \in [Actors -> Jobs]
    BY <1>1, <1>2, <1>3
  <2> QED BY <1>2, <2>1 DEF BansInv, TypeOK, player, lobby
<1>6. Stages'
  <2>1. level > 0 => a = "daemon" /\ first = "insert" /\ mins = AbandonBanMinutes(level)
    BY DEF Requested
  <2>2. first = "expire" => a \in Panels
    BY DEF Requested
  <2> QED BY <1>1, <1>4, <2>1, <2>2 DEF BansInv, Stages
<1>7. Shown'
  <2>1. \A b \in Actors, q \in Players : /\ MarkPending(b, q)' => MarkPending(b, q) /\ b # a
                                         /\ LiftPending(b, q) => LiftPending(b, q)'
    BY <1>1, <1>2, <1>4 DEF MarkPending, LiftPending, NoJob
  <2> QED BY <2>1, <1>2, <1>4 DEF BansInv, Shown, HasRow, Refused, player
<1>8. Counted'
  <2>1. level > 0 => level >= offences[p]
    <3>1. offences[p] \in Nat
      BY <1>1, BansAssumption DEF BansInv, TypeOK
    <3>2. EffectiveCount(p) \in Nat /\ EffectiveCount(p) + 1 >= offences[p]
      BY <3>1 DEF EffectiveCount
    <3> QED BY <3>1, <3>2, <1>1, BansAssumption DEF Requested
  <2> QED BY <2>1, <1>2, <1>4 DEF BansInv, Counted, player
<1>9. BannedLeavesQueue'
  BY <1>2 DEF BansInv, BannedLeavesQueue, Refused, player, lobby
<1> QED BY <1>5, <1>6, <1>7, <1>8, <1>9 DEF BansInv

\* Whoever is barred and refused does not get past the ban check.
LEMMA QueueKeeps ==
  ASSUME BansInv, NEW p \in Players, Queueing(p)
  PROVE  BansInv'
<1>1. UNCHANGED <<now, player, rows, job, faults, torn>> /\ barred' \subseteq barred
  BY DEF Queueing, CheckBan, JoinQueue, QueueAborted, RestoreMatched, Becomes
<1>2. queue \in [Players -> SUBSET QueueStatus] /\ asking \subseteq Players
  BY DEF BansInv, TypeOK
<1>3. /\ queue' \in [Players -> SUBSET QueueStatus] /\ asking' \subseteq Players
      /\ \A q \in Players \ {p} : queue'[q] = queue[q] /\ (q \in asking' => q \in asking)
  <2>1. CASE CheckBan(p) \/ QueueAborted(p)
    BY <2>1, <1>2 DEF CheckBan, QueueAborted
  <2>2. CASE JoinQueue(p)
    BY <2>2, <1>2 DEF JoinQueue, QueueStatus
  <2>3. CASE RestoreMatched(p)
    <3>1. Updated(queue[p], {"matched"}, "waiting") \in SUBSET QueueStatus
      BY <1>2, UpdatedStatus DEF QueueStatus
    <3> QED BY <2>3, <3>1, <1>2 DEF RestoreMatched
  <2>4. CASE \E from \in SUBSET QueueStatus, to \in QueueStatus : Becomes(p, from, to)
    <3>1. PICK from \in SUBSET QueueStatus, to \in QueueStatus : Becomes(p, from, to)
      BY <2>4
    <3>2. Updated(queue[p], from, to) \in SUBSET QueueStatus
      BY <1>2, UpdatedStatus
    <3> QED BY <3>1, <3>2, <1>2 DEF Becomes
  <2> QED BY <2>1, <2>2, <2>3, <2>4 DEF Queueing
<1>4. TypeOK'
  BY <1>1, <1>3 DEF BansInv, TypeOK, player
<1>5. Stages' /\ Shown' /\ Counted'
  BY <1>1 DEF BansInv, Stages, Shown, HasRow, MarkPending, LiftPending, Refused, Counted, player
<1>6. BannedLeavesQueue'
  <2>1. ASSUME p \in barred', Refused(p)
        PROVE  queue'[p] \cap Queued = {} /\ p \notin asking'
    <3>1. queue[p] \cap Queued = {} /\ p \notin asking
      BY <2>1, <1>1 DEF BansInv, BannedLeavesQueue
    <3>2. CASE CheckBan(p) \/ QueueAborted(p)
      BY <3>1, <3>2, <2>1 DEF CheckBan, QueueAborted
    <3>3. CASE JoinQueue(p)
      BY <3>1, <3>3 DEF JoinQueue
    <3>4. CASE RestoreMatched(p)
      BY <3>1, <3>4, <2>1 DEF RestoreMatched
    <3>5. CASE \E from \in SUBSET QueueStatus, to \in QueueStatus :
                 Becomes(p, from, to) /\ (from \subseteq Queued \/ to \notin Queued)
      BY <3>1, <3>5, <1>2, NobodyRequeued DEF Becomes
    <3> QED BY <3>2, <3>3, <3>4, <3>5 DEF Queueing
  <2>2. \A q \in Players : Refused(q)' <=> Refused(q)
    BY <1>1 DEF Refused, player
  <2>3. \A q \in barred' : Refused(q) => queue'[q] \cap Queued = {} /\ q \notin asking'
    BY <1>1, <1>3, <2>1 DEF BansInv, TypeOK, BannedLeavesQueue
  <2> QED BY <1>1, <2>2, <2>3 DEF BannedLeavesQueue, BansInv, TypeOK
<1> QED BY <1>4, <1>5, <1>6 DEF BansInv

\* A sequence that ends early owes nothing to whoever it lifted the ban of.
LEMMA EndsKeeps ==
  ASSUME BansInv, NEW a \in Actors, Ends(a)
  PROVE  BansInv'
<1>1. /\ Goto(a, "idle") /\ faults' \in 0..MaxFaults
      /\ UNCHANGED <<now, player, rows, lobby, barred>>
      /\ torn' = IF job[a].at = "unflag" THEN torn \cup {job[a].player} ELSE torn
  BY BansAssumption DEF Ends, Stops, InsertRaises, Fault, BansInv, TypeOK
<1>2. /\ job' \in [Actors -> Jobs] /\ job'[a] = NoJob
      /\ \A b \in Actors \ {a} : job'[b] = job[b]
  BY <1>1, GotoStep DEF BansInv, TypeOK
<1>3. job[a].at = "unflag" => job[a].player \in Players
  BY DEF BansInv, Stages
<1>4. TypeOK'
  BY <1>1, <1>2, <1>3 DEF BansInv, TypeOK, player, lobby
<1>5. Stages'
  BY <1>1, StagesEnded DEF BansInv
<1>6. Shown'
  <2>1. \A b \in Actors, q \in Players \ torn' :
          /\ MarkPending(b, q)' => MarkPending(b, q) /\ b # a
          /\ LiftPending(b, q) => LiftPending(b, q)'
    BY <1>1, <1>2 DEF MarkPending, LiftPending, NoJob
  <2>2. torn \subseteq torn'
    BY <1>1
  <2> QED BY <2>1, <2>2, <1>1, <1>2 DEF BansInv, Shown, HasRow, Refused, player
<1>7. Counted'
  BY <1>1, <1>2 DEF BansInv, Counted, NoJob, player
<1>8. BannedLeavesQueue'
  BY <1>1 DEF BansInv, BannedLeavesQueue, Refused, player, lobby
<1> QED BY <1>4, <1>5, <1>6, <1>7, <1>8 DEF BansInv

\* A statement of the lobby that fails: only the INSERT leaves a ban unshown.
LEMMA SkipsKeeps ==
  ASSUME BansInv, NEW a \in Actors, Skips(a)
  PROVE  BansInv'
<1>1. /\ Goto(a, Following(a)) /\ faults' \in 0..MaxFaults /\ a = "lobby" /\ job[a] # NoJob
      /\ UNCHANGED <<now, player, rows, lobby, barred>>
      /\ torn' = IF job[a].at = "insert" THEN torn \cup {job[a].player} ELSE torn
  BY BansAssumption DEF Skips, Fault, BansInv, TypeOK
<1>2. job[a].at # "idle" /\ job[a].player \in Players
  BY <1>1 DEF BansInv, Stages
<1>3. /\ job' \in [Actors -> Jobs]
      /\ \A b \in Actors \ {a} : job'[b] = job[b]
      /\ Following(a) = "idle" => job'[a] = NoJob
      /\ Following(a) # "idle" => job'[a] = [at |-> Following(a), player |-> job[a].player,
                                            mins |-> job[a].mins, level |-> job[a].level]
  BY <1>1, GotoStep, FollowingStage DEF BansInv, TypeOK
<1>4. TypeOK'
  BY <1>1, <1>2, <1>3 DEF BansInv, TypeOK, player, lobby
<1>5. Stages'
  BY <1>1, <1>2, StagesAfter DEF BansInv
<1>6. Shown'
  <2>1. job[a].at # "unflag"
    BY <1>1, BansAssumption DEF BansInv, Stages
  <2>2. \A q \in Players \ torn' : ~MarkPending(a, q)'
    <3>1. CASE job[a].at = "insert"
      BY <3>1, <1>1, <1>2, <1>3, FollowingStage DEF MarkPending, NoJob
    <3>2. CASE job[a].at # "insert"
      <4>1. Following(a) \notin {"mark", "penalise"}
        BY <3>2, <1>1 DEF Following
      <4> QED BY <4>1, <1>3 DEF MarkPending, NoJob
    <3> QED BY <3>1, <3>2
  <2> QED BY <2>1, <2>2, <1>1, <1>3 DEF BansInv, Shown, HasRow, Refused, MarkPending, LiftPending, player
<1>7. Counted'
  <2>1. \A b \in Actors : job'[b].level > 0
          => job'[b].level = job[b].level /\ job'[b].player = job[b].player
    <3> TAKE b \in Actors
    <3>1. CASE b # a
      BY <3>1, <1>3
    <3>2. CASE b = a /\ Following(a) = "idle"
      BY <3>2, <1>3 DEF NoJob
    <3>3. CASE b = a /\ Following(a) # "idle"
      BY <3>3, <1>3
    <3> QED BY <3>1, <3>2, <3>3
  <2> QED BY <2>1, <1>1 DEF BansInv, Counted, player
<1>8. BannedLeavesQueue'
  BY <1>1 DEF BansInv, BannedLeavesQueue, Refused, player, lobby
<1> QED BY <1>4, <1>5, <1>6, <1>7, <1>8 DEF BansInv

\* The row is there before the ban is marked.
LEMMA InsertKeeps ==
  ASSUME BansInv, NEW a \in Actors, NEW p \in Players, Insert(a, p)
  PROVE  BansInv'
<1>1. /\ p \in Players /\ job[a].at = "insert" /\ job[a].player = p
      /\ job' \in [Actors -> Jobs]
      /\ \A b \in Actors \ {a} : job'[b] = job[b]
      /\ Following(a) = "idle" => job'[a] = NoJob
      /\ Following(a) # "idle" => job'[a] = [at |-> Following(a), player |-> p,
                                            mins |-> job[a].mins, level |-> job[a].level]
  BY RunsStep DEF Insert, BansInv, TypeOK
<1>2. Stages'
  BY <1>1, StagesAfter DEF BansInv, Insert, Runs
<1>3. job[a] \in Jobs
  BY DEF BansInv, TypeOK
<1>4. /\ rows' = rows \cup {[player |-> p, expires |-> now + job[a].mins, active |-> TRUE]}
      /\ UNCHANGED <<now, player, lobby, faults, torn, barred>>
  BY DEF Insert
<1>5. TypeOK'
  <2>1. now + job[a].mins \in Nat
    BY <1>3, BansAssumption DEF BansInv, TypeOK, Jobs
  <2>2. rows' \subseteq [player : Players, expires : Nat, active : BOOLEAN]
    <3> DEFINE r == [player |-> p, expires |-> now + job[a].mins, active |-> TRUE]
    <3>1. r \in [player : Players, expires : Nat, active : BOOLEAN]
      BY <1>1, <2>1
    <3>2. rows' = rows \cup {r}
      BY <1>4
    <3> QED BY <3>1, <3>2 DEF BansInv, TypeOK
  <2> QED BY <1>1, <1>4, <2>2 DEF BansInv, TypeOK, player, lobby
<1>6. Shown'
  <2>1. HasRow(p, now + job[a].mins)'
    <3>1. now + job[a].mins >= now + job[a].mins
      BY <1>3, BansAssumption DEF BansInv, TypeOK, Jobs
    <3>2. now' + job'[a].mins = now + job[a].mins
      BY <1>1, <1>4 DEF Following
    <3> DEFINE r == [player |-> p, expires |-> now + job[a].mins, active |-> TRUE]
    <3>3. r \in rows' /\ r.player = p /\ r.expires = now + job[a].mins
      BY <1>4
    <3> QED BY <3>1, <3>2, <3>3 DEF HasRow
  <2>2. \A q, t : HasRow(q, t) => HasRow(q, t)'
    BY <1>4 DEF HasRow
  <2>3. \A b \in Actors, q \in Players : LiftPending(b, q) => LiftPending(b, q)'
    BY <1>1 DEF LiftPending
  <2>4. \A q \in Players : Refused(q)' <=> Refused(q)
    BY <1>4 DEF Refused, player
  <2>5. \A q \in Players \ torn' : Refused(q)' => HasRow(q, until[q])' \/ \E b \in Actors : LiftPending(b, q)'
    BY <2>2, <2>3, <2>4, <1>4 DEF BansInv, Shown, player
  <2>6. ASSUME NEW q \in Players \ torn', NEW b \in Actors, MarkPending(b, q)'
        PROVE  HasRow(q, now + job[b].mins)'
    <3>1. CASE b = a
      <4>1. q = p /\ job'[a].mins = job[a].mins /\ now' = now
        BY <3>1, <2>6, <1>1, <1>4 DEF MarkPending, Following
      <4> QED BY <3>1, <4>1, <2>1 DEF HasRow
    <3>2. CASE b # a
      <4>1. MarkPending(b, q) /\ job'[b] = job[b] /\ q \notin torn /\ now' = now
        BY <3>2, <2>6, <1>1, <1>4 DEF MarkPending
      <4>2. HasRow(q, now + job[b].mins)
        BY <4>1 DEF BansInv, Shown
      <4> QED BY <4>1, <4>2, <2>2 DEF HasRow
    <3> QED BY <3>1, <3>2
  <2> QED BY <2>5, <2>6 DEF Shown
<1>7. Counted'
  BY <1>1, <1>4 DEF BansInv, Counted, NoJob, player
<1>8. BannedLeavesQueue'
  BY <1>4 DEF BansInv, BannedLeavesQueue, Refused, player, lobby
<1> QED BY <1>2, <1>5, <1>6, <1>7, <1>8 DEF BansInv

\* The ban that is marked is the one whose row was written.
LEMMA MarkKeeps ==
  ASSUME BansInv, NEW a \in Actors, NEW p \in Players, Mark(a, p)
  PROVE  BansInv'
<1>1. /\ p \in Players /\ job[a].at = "mark" /\ job[a].player = p
      /\ job' \in [Actors -> Jobs]
      /\ \A b \in Actors \ {a} : job'[b] = job[b]
      /\ Following(a) = "idle" => job'[a] = NoJob
      /\ Following(a) # "idle" => job'[a] = [at |-> Following(a), player |-> p,
                                            mins |-> job[a].mins, level |-> job[a].level]
  BY RunsStep DEF Mark, BansInv, TypeOK
<1>2. Stages'
  BY <1>1, StagesAfter DEF BansInv, Mark, Runs
<1>3. job[a] \in Jobs
  BY DEF BansInv, TypeOK
<1>4. /\ SetBan(p, now + job[a].mins)
      /\ UNCHANGED <<now, offences, lastAbandon, rows, lobby, faults, torn>>
  BY DEF Mark
<1> DEFINE t == now + job[a].mins
<1>9. t \in Nat
  BY <1>3, BansAssumption DEF BansInv, TypeOK, Jobs
<1>5. TypeOK'
  BY <1>1, <1>4, <1>9 DEF SetBan, BansInv, TypeOK, lobby
<1>6. Shown'
  <2>1. \A q, u : HasRow(q, u)' <=> HasRow(q, u)
    BY <1>4 DEF HasRow
  <2>2. p \notin torn => HasRow(p, t)
    BY <1>1 DEF BansInv, Shown, MarkPending
  <2>3. until'[p] = t /\ \A q \in Players \ {p} : until'[q] = until[q] /\ banned'[q] = banned[q]
    BY <1>4 DEF SetBan, BansInv, TypeOK
  <2>4. \A q \in Players : Refused(q)' => q = p \/ Refused(q)
    BY <2>3, <1>4 DEF Refused
  <2>5. \A b \in Actors, q \in Players : (LiftPending(b, q) => LiftPending(b, q)')
                                       /\ (MarkPending(b, q)' => b # a /\ MarkPending(b, q))
    BY <1>1 DEF LiftPending, MarkPending, NoJob, Following
  <2>6. \A q \in Players \ torn' : Refused(q)' => HasRow(q, until'[q]) \/ \E b \in Actors : LiftPending(b, q)'
    BY <2>2, <2>3, <2>4, <2>5, <1>4 DEF BansInv, Shown
  <2>7. \A q \in Players \ torn' : \A b \in Actors : MarkPending(b, q)' => HasRow(q, now' + job'[b].mins)
    BY <2>5, <1>1, <1>4 DEF BansInv, Shown
  <2> QED BY <2>1, <2>6, <2>7 DEF Shown, HasRow
<1>7. Counted'
  BY <1>1, <1>4 DEF BansInv, Counted, NoJob
<1>8. BannedLeavesQueue'
  BY <1>4 DEF SetBan, BansInv, TypeOK, BannedLeavesQueue, Refused, lobby
<1> QED BY <1>2, <1>5, <1>6, <1>7, <1>8 DEF BansInv

\* ... and so it is for an abandoner, whose level rises or stays.
LEMMA PenaliseKeeps ==
  ASSUME BansInv, NEW a \in Actors, NEW p \in Players, Penalise(a, p)
  PROVE  BansInv'
<1>1. /\ p \in Players /\ job[a].at = "penalise" /\ job[a].player = p
      /\ job' \in [Actors -> Jobs]
      /\ \A b \in Actors \ {a} : job'[b] = job[b]
      /\ Following(a) = "idle" => job'[a] = NoJob
      /\ Following(a) # "idle" => job'[a] = [at |-> Following(a), player |-> p,
                                            mins |-> job[a].mins, level |-> job[a].level]
  BY RunsStep DEF Penalise, BansInv, TypeOK
<1>2. Stages'
  BY <1>1, StagesAfter DEF BansInv, Penalise, Runs
<1>3. job[a] \in Jobs
  BY DEF BansInv, TypeOK
<1>4. /\ SetBan(p, now + job[a].mins)
      /\ UNCHANGED <<now, rows, lobby, faults, torn>>
  BY DEF Penalise
<1> DEFINE t == now + job[a].mins
<1>9. t \in Nat
  BY <1>3, BansAssumption DEF BansInv, TypeOK, Jobs
<1>5. TypeOK'
  <2>1. /\ offences' = [offences EXCEPT ![p] = job[a].level]
        /\ lastAbandon' = [lastAbandon EXCEPT ![p] = now]
    BY DEF Penalise
  <2>2. job[a].level \in 0..MaxOffences
    BY DEF BansInv, Stages
  <2> QED BY <2>1, <2>2, <1>1, <1>4, <1>9 DEF SetBan, BansInv, TypeOK, lobby
<1>6. Shown'
  <2>1. \A q, u : HasRow(q, u)' <=> HasRow(q, u)
    BY <1>4 DEF HasRow
  <2>2. p \notin torn => HasRow(p, t)
    BY <1>1 DEF BansInv, Shown, MarkPending
  <2>3. until'[p] = t /\ \A q \in Players \ {p} : until'[q] = until[q] /\ banned'[q] = banned[q]
    BY <1>4 DEF SetBan, BansInv, TypeOK
  <2>4. \A q \in Players : Refused(q)' => q = p \/ Refused(q)
    BY <2>3, <1>4 DEF Refused
  <2>5. \A b \in Actors, q \in Players : (LiftPending(b, q) => LiftPending(b, q)')
                                       /\ (MarkPending(b, q)' => b # a /\ MarkPending(b, q))
    BY <1>1 DEF LiftPending, MarkPending, NoJob, Following
  <2>6. \A q \in Players \ torn' : Refused(q)' => HasRow(q, until'[q]) \/ \E b \in Actors : LiftPending(b, q)'
    BY <2>2, <2>3, <2>4, <2>5, <1>4 DEF BansInv, Shown
  <2>7. \A q \in Players \ torn' : \A b \in Actors : MarkPending(b, q)' => HasRow(q, now' + job'[b].mins)
    BY <2>5, <1>1, <1>4 DEF BansInv, Shown
  <2> QED BY <2>1, <2>6, <2>7 DEF Shown, HasRow
<1>7. Counted'
  <2>1. /\ offences' = [offences EXCEPT ![p] = job[a].level]
        /\ lastAbandon' = [lastAbandon EXCEPT ![p] = now]
    BY DEF Penalise
  <2>2. a = "daemon" /\ \A b \in Actors : job[b].level > 0 => b = "daemon"
    BY <1>1 DEF BansInv, Stages
  <2>3. job'[a] = NoJob
    BY <1>1 DEF Following
  <2>4. ASSUME NEW b \in Actors
        PROVE  ~(job'[b].level > 0)
    <3>1. CASE b = a
      BY <3>1, <2>3 DEF NoJob
    <3>2. CASE b # a
      BY <3>2, <2>2, <1>1
    <3> QED BY <3>1, <3>2
  <2>5. \A q \in Players : lastAbandon'[q] <= now'
    BY <2>1, <1>4, BansAssumption DEF BansInv, TypeOK, Counted
  <2> QED BY <2>4, <2>5 DEF Counted
<1>8. BannedLeavesQueue'
  BY <1>4 DEF SetBan, BansInv, TypeOK, BannedLeavesQueue, Refused, lobby
<1> QED BY <1>2, <1>5, <1>6, <1>7, <1>8 DEF BansInv

\* Whoever is barred is not queued: the key has let the UPDATE through.
LEMMA CancelKeeps ==
  ASSUME BansInv, NEW a \in Actors, NEW p \in Players, Cancel(a, p)
  PROVE  BansInv'
<1>1. /\ p \in Players /\ job[a].at = "cancel" /\ job[a].player = p
      /\ job' \in [Actors -> Jobs]
      /\ \A b \in Actors \ {a} : job'[b] = job[b]
      /\ Following(a) = "idle" => job'[a] = NoJob
      /\ Following(a) # "idle" => job'[a] = [at |-> Following(a), player |-> p,
                                            mins |-> job[a].mins, level |-> job[a].level]
  BY RunsStep DEF Cancel, BansInv, TypeOK
<1>2. Stages'
  BY <1>1, StagesAfter DEF BansInv, Cancel, Runs
<1>3. job[a] \in Jobs
  BY DEF BansInv, TypeOK
<1>4. /\ queue' = [queue EXCEPT ![p] = Updated(@, Queued, "cancelled")]
      /\ barred' = Barred(p)
      /\ UNCHANGED <<now, player, rows, asking, faults, torn>>
  BY DEF Cancel
<1>9. queue \in [Players -> SUBSET QueueStatus]
  BY DEF BansInv, TypeOK
<1>5. TypeOK'
  <2>1. Updated(queue[p], Queued, "cancelled") \in SUBSET QueueStatus
    BY <1>1, <1>9, UpdatedStatus DEF QueueStatus
  <2>2. barred' \subseteq Players
    BY <1>1, <1>4 DEF Barred, BansInv, TypeOK
  <2> QED BY <1>1, <1>4, <2>1, <2>2 DEF BansInv, TypeOK, player
<1>6. Shown'
  <2>1. \A b \in Actors, q \in Players : /\ MarkPending(b, q)' => MarkPending(b, q) /\ b # a
                                         /\ LiftPending(b, q) => LiftPending(b, q)'
    BY <1>1 DEF LiftPending, MarkPending, NoJob, Following
  <2>2. UNCHANGED <<now, banned, until, torn, rows>>
    BY <1>4 DEF player
  <2>3. \A b \in Actors \ {a} : job'[b] = job[b]
    BY <1>1
  <2> QED BY <2>1, <2>2, <2>3 DEF BansInv, Shown, HasRow, Refused
<1>7. Counted'
  BY <1>1, <1>4 DEF BansInv, Counted, NoJob, player
<1>8. BannedLeavesQueue'
  <2>1. queue'[p] = Updated(queue[p], Queued, "cancelled")
        /\ \A q \in Players \ {p} : queue'[q] = queue[q]
    BY <1>1, <1>4, <1>9
  <2>2. p \in barred' /\ Refused(p) => queue'[p] \cap Queued = {} /\ p \notin asking
    <3>1. CASE p \in asking \/ ~KeyFree(queue[p], Queued, "cancelled")
      <4>1. barred' = barred
        BY <3>1, <1>4 DEF Barred
      <4>2. p \in barred /\ Refused(p) => queue[p] \cap Queued = {} /\ p \notin asking
        BY DEF BansInv, BannedLeavesQueue
      <4> QED BY <4>1, <4>2, <2>1, NobodyRequeued
    <3>2. CASE p \notin asking /\ KeyFree(queue[p], Queued, "cancelled")
      BY <3>2, <2>1, CancelledLeaves
    <3> QED BY <3>1, <3>2
  <2>3. barred' \subseteq barred \cup {p} /\ barred \subseteq Players
    BY <1>4 DEF Barred, BansInv, TypeOK
  <2>4. \A q \in barred' : Refused(q) => queue'[q] \cap Queued = {} /\ q \notin asking
    BY <2>1, <2>2, <2>3 DEF BansInv, BannedLeavesQueue
  <2>5. \A q \in Players : Refused(q)' <=> Refused(q)
    BY <1>4 DEF Refused, player
  <2> QED BY <1>1, <1>4, <2>3, <2>4, <2>5 DEF BannedLeavesQueue
<1> QED BY <1>2, <1>5, <1>6, <1>7, <1>8 DEF BansInv

\* is_active is no part of what the panel shows.
LEMMA DeactivateKeeps ==
  ASSUME BansInv, NEW a \in Actors, NEW p \in Players, Deactivate(a, p)
  PROVE  BansInv'
<1>1. /\ p \in Players /\ job[a].at = "deactivate" /\ job[a].player = p
      /\ job' \in [Actors -> Jobs]
      /\ \A b \in Actors \ {a} : job'[b] = job[b]
      /\ Following(a) = "idle" => job'[a] = NoJob
      /\ Following(a) # "idle" => job'[a] = [at |-> Following(a), player |-> p,
                                            mins |-> job[a].mins, level |-> job[a].level]
  BY RunsStep DEF Deactivate, BansInv, TypeOK
<1>2. Stages'
  BY <1>1, StagesAfter DEF BansInv, Deactivate, Runs
<1>3. rows \subseteq [player : Players, expires : Nat, active : BOOLEAN]
  BY DEF BansInv, TypeOK
<1>4. /\ rows' = {IF r.player = p THEN [r EXCEPT !.active = FALSE] ELSE r : r \in rows}
      /\ UNCHANGED <<now, player, lobby, faults, torn, barred>>
  BY DEF Deactivate
<1>5. TypeOK'
  <2>1. rows' \subseteq [player : Players, expires : Nat, active : BOOLEAN]
    BY <1>3, <1>4
  <2> QED BY <1>1, <1>4, <2>1 DEF BansInv, TypeOK, player, lobby
<1>6. Shown'
  <2>1. \A b \in Actors, q \in Players : /\ MarkPending(b, q)' => MarkPending(b, q) /\ b # a
                                         /\ LiftPending(b, q) => LiftPending(b, q)'
    BY <1>1 DEF LiftPending, MarkPending, NoJob, Following
  <2>2. UNCHANGED <<now, banned, until, torn>>
    BY <1>4 DEF player
  <2>3. \A b \in Actors \ {a} : job'[b] = job[b]
    BY <1>1
  <2>4. \A r \in rows : \E n \in rows' : n.player = r.player /\ n.expires = r.expires
    <3>1. SUFFICES ASSUME NEW r \in rows
                   PROVE  \E n \in rows' : n.player = r.player /\ n.expires = r.expires
      OBVIOUS
    <3>2. CASE r.player = p
      <4> DEFINE n == [r EXCEPT !.active = FALSE]
      <4>1. n \in rows'
        BY <3>2, <1>4
      <4>2. n.player = r.player /\ n.expires = r.expires
        BY <1>3
      <4> QED BY <4>1, <4>2
    <3>3. CASE r.player # p
      BY <3>3, <1>4
    <3> QED BY <3>2, <3>3
  <2> QED BY <2>1, <2>2, <2>3, <2>4 DEF BansInv, Shown, HasRow, Refused
<1>7. Counted'
  BY <1>1, <1>4 DEF BansInv, Counted, NoJob, player
<1>8. BannedLeavesQueue'
  BY <1>4 DEF BansInv, BannedLeavesQueue, Refused, player, lobby
<1> QED BY <1>2, <1>5, <1>6, <1>7, <1>8 DEF BansInv

\* Whoever is unbanned is refused no more.
LEMMA ClearKeeps ==
  ASSUME BansInv, NEW a \in Actors, NEW p \in Players, Clear(a, p)
  PROVE  BansInv'
<1>1. /\ p \in Players /\ job[a].at = "clear" /\ job[a].player = p
      /\ job' \in [Actors -> Jobs]
      /\ \A b \in Actors \ {a} : job'[b] = job[b]
      /\ Following(a) = "idle" => job'[a] = NoJob
      /\ Following(a) # "idle" => job'[a] = [at |-> Following(a), player |-> p,
                                            mins |-> job[a].mins, level |-> job[a].level]
  BY RunsStep DEF Clear, BansInv, TypeOK
<1>2. Stages'
  BY <1>1, StagesAfter DEF BansInv, Clear, Runs
<1>3. /\ banned' = [banned EXCEPT ![p] = FALSE]
      /\ torn' = IF \E b \in Actors : MarkPending(b, p) THEN torn ELSE torn \ {p}
      /\ barred' = barred \ {p}
  BY DEF Clear, Lift
<1>4. UNCHANGED <<now, offences, lastAbandon, rows, lobby, faults>> /\ until' = [until EXCEPT ![p] = 0]
  BY DEF Clear
<1>5. TypeOK'
  BY <1>1, <1>3, <1>4 DEF BansInv, TypeOK, lobby
<1>6. Shown'
  <2>1. Following(a) = "idle" /\ \A b \in Actors : b # a => job'[b] = job[b]
    BY <1>1 DEF Following
  <2>2. \A q \in Players \ {p} : banned'[q] = banned[q] /\ until'[q] = until[q]
    BY <1>3, <1>4 DEF BansInv, TypeOK
  <2>3. \A q \in Players : Refused(q)' => q # p /\ Refused(q)
    BY <2>2, <1>3, <1>4 DEF Refused, BansInv, TypeOK
  <2>4. \A b \in Actors, q \in Players : /\ MarkPending(b, q)' => MarkPending(b, q) /\ b # a
                                         /\ LiftPending(b, q) /\ q # p => LiftPending(b, q)'
    BY <1>1, <2>1 DEF LiftPending, MarkPending, NoJob
  <2>5. \A q \in Players \ torn' : q = p /\ p \in torn => \A b \in Actors : ~MarkPending(b, q)
    BY <1>3
  <2>6. \A q \in Players \ torn' : q # p => q \notin torn
    BY <1>3
  <2> QED BY <2>1, <2>2, <2>3, <2>4, <2>5, <2>6, <1>4 DEF BansInv, Shown, HasRow
<1>7. Counted'
  BY <1>1, <1>4 DEF BansInv, Counted, NoJob
<1>8. BannedLeavesQueue'
  BY <1>3, <1>4 DEF BansInv, TypeOK, BannedLeavesQueue, Refused, lobby
<1> QED BY <1>2, <1>5, <1>6, <1>7, <1>8 DEF BansInv

\* The same for the panel, which waited for this statement.
LEMMA UnflagKeeps ==
  ASSUME BansInv, NEW a \in Actors, NEW p \in Players, Unflag(a, p)
  PROVE  BansInv'
<1>1. /\ p \in Players /\ job[a].at = "unflag" /\ job[a].player = p
      /\ job' \in [Actors -> Jobs]
      /\ \A b \in Actors \ {a} : job'[b] = job[b]
      /\ Following(a) = "idle" => job'[a] = NoJob
      /\ Following(a) # "idle" => job'[a] = [at |-> Following(a), player |-> p,
                                            mins |-> job[a].mins, level |-> job[a].level]
  BY RunsStep DEF Unflag, BansInv, TypeOK
<1>2. Stages'
  BY <1>1, StagesAfter DEF BansInv, Unflag, Runs
<1>3. /\ banned' = [banned EXCEPT ![p] = FALSE]
      /\ torn' = IF \E b \in Actors : MarkPending(b, p) THEN torn ELSE torn \ {p}
      /\ barred' = barred \ {p}
  BY DEF Unflag, Lift
<1>4. UNCHANGED <<now, until, offences, lastAbandon, rows, lobby, faults>> 
  BY DEF Unflag
<1>5. TypeOK'
  BY <1>1, <1>3, <1>4 DEF BansInv, TypeOK, lobby
<1>6. Shown'
  <2>1. Following(a) = "idle" /\ \A b \in Actors : b # a => job'[b] = job[b]
    BY <1>1 DEF Following
  <2>2. \A q \in Players \ {p} : banned'[q] = banned[q] /\ until'[q] = until[q]
    BY <1>3, <1>4 DEF BansInv, TypeOK
  <2>3. \A q \in Players : Refused(q)' => q # p /\ Refused(q)
    BY <2>2, <1>3, <1>4 DEF Refused, BansInv, TypeOK
  <2>4. \A b \in Actors, q \in Players : /\ MarkPending(b, q)' => MarkPending(b, q) /\ b # a
                                         /\ LiftPending(b, q) /\ q # p => LiftPending(b, q)'
    BY <1>1, <2>1 DEF LiftPending, MarkPending, NoJob
  <2>5. \A q \in Players \ torn' : q = p /\ p \in torn => \A b \in Actors : ~MarkPending(b, q)
    BY <1>3
  <2>6. \A q \in Players \ torn' : q # p => q \notin torn
    BY <1>3
  <2> QED BY <2>1, <2>2, <2>3, <2>4, <2>5, <2>6, <1>4 DEF BansInv, Shown, HasRow
<1>7. Counted'
  BY <1>1, <1>4 DEF BansInv, Counted, NoJob
<1>8. BannedLeavesQueue'
  BY <1>3, <1>4 DEF BansInv, TypeOK, BannedLeavesQueue, Refused, lobby
<1> QED BY <1>2, <1>5, <1>6, <1>7, <1>8 DEF BansInv

\* The rows expire; the UPDATE that follows is awaited, unless a ban is pending.
LEMMA ExpireKeeps ==
  ASSUME BansInv, NEW a \in Actors, NEW p \in Players, Expire(a, p)
  PROVE  BansInv'
<1>1. /\ p \in Players /\ job[a].at = "expire" /\ job[a].player = p
      /\ job' \in [Actors -> Jobs]
      /\ \A b \in Actors \ {a} : job'[b] = job[b]
      /\ Following(a) = "idle" => job'[a] = NoJob
      /\ Following(a) # "idle" => job'[a] = [at |-> Following(a), player |-> p,
                                            mins |-> job[a].mins, level |-> job[a].level]
  BY RunsStep DEF Expire, BansInv, TypeOK
<1>2. Stages'
  BY <1>1, StagesAfter DEF BansInv, Expire, Runs
<1>3. rows \subseteq [player : Players, expires : Nat, active : BOOLEAN] /\ now \in Nat
  BY BansAssumption DEF BansInv, TypeOK
<1>4. /\ rows' = {Expired(r, p) : r \in rows}
      /\ torn' = IF \E b \in Actors : MarkPending(b, p) THEN torn \cup {p} ELSE torn
      /\ UNCHANGED <<now, player, lobby, faults, barred>>
  BY DEF Expire
<1>5. TypeOK'
  <2>1. rows' \subseteq [player : Players, expires : Nat, active : BOOLEAN]
    BY <1>3, <1>4 DEF Expired
  <2> QED BY <1>1, <1>4, <2>1 DEF BansInv, TypeOK, player, lobby
<1>6. Shown'
  <2>1. LiftPending(a, p)'
    BY <1>1 DEF LiftPending, Following
  <2>2. \A b \in Actors, q \in Players : /\ MarkPending(b, q)' => MarkPending(b, q) /\ b # a
                                         /\ LiftPending(b, q) => LiftPending(b, q)'
    BY <1>1 DEF LiftPending, MarkPending, Following
  <2>3. UNCHANGED <<now, banned, until>> /\ torn \subseteq torn'
    BY <1>4 DEF player
  <2>4. \A b \in Actors \ {a} : job'[b] = job[b]
    BY <1>1
  <2>5. p \notin torn' => \A b \in Actors : ~MarkPending(b, p)
    BY <1>4
  <2>6. \A r \in rows : r.player # p => r \in rows'
    BY <1>4 DEF Expired
  <2> QED BY <2>1, <2>2, <2>3, <2>4, <2>5, <2>6 DEF BansInv, Shown, HasRow, Refused
<1>7. Counted'
  BY <1>1, <1>4 DEF BansInv, Counted, NoJob, player
<1>8. BannedLeavesQueue'
  BY <1>4 DEF BansInv, BannedLeavesQueue, Refused, player, lobby
<1> QED BY <1>2, <1>5, <1>6, <1>7, <1>8 DEF BansInv

\* Time passes while nothing is pending, and ends bans.
LEMMA PassKeeps ==
  ASSUME BansInv, NEW t \in Instants, Pass(t)
  PROVE  BansInv'
<1>1. /\ t > now /\ now' = t /\ \A a \in Actors : job[a] = NoJob
      /\ UNCHANGED <<player, rows, job, lobby, faults, torn, barred>>
  BY DEF Pass
<1>2. now \in Nat /\ t \in Nat /\ \A p \in Players : until[p] \in Nat /\ lastAbandon[p] \in Nat
  BY BansAssumption DEF BansInv, TypeOK
<1>3. \A p \in Players : Refused(p)' => Refused(p)
  BY <1>1, <1>2 DEF Refused, player
<1>4. \A a \in Actors, p \in Players : ~MarkPending(a, p) /\ ~LiftPending(a, p)
                                       /\ ~MarkPending(a, p)'
  BY <1>1 DEF MarkPending, LiftPending, NoJob
<1>5. TypeOK' /\ Stages'
  BY <1>1 DEF BansInv, TypeOK, Stages, player, lobby
<1>6. Shown'
  BY <1>1, <1>3, <1>4 DEF BansInv, Shown, HasRow, player
<1>7. Counted'
  BY <1>1, <1>2 DEF BansInv, Counted, player
<1>8. BannedLeavesQueue'
  <2>1. barred \subseteq Players /\ UNCHANGED <<queue, asking, barred>>
    BY <1>1 DEF BansInv, TypeOK, lobby
  <2>2. \A p \in barred : Refused(p) => queue[p] \cap Queued = {} /\ p \notin asking
    BY DEF BansInv, BannedLeavesQueue
  <2> QED BY <2>1, <2>2, <1>3 DEF BannedLeavesQueue
<1> QED BY <1>5, <1>6, <1>7, <1>8 DEF BansInv

-----------------------------------------------------------------------------
(* The theorems.                                                           *)

\* BansInv is inductive.
LEMMA BansStep ==
  ASSUME BansInv, [Next]_vars
  PROVE  BansInv'
<1>1. CASE UNCHANGED vars
  BY <1>1 DEF vars, player, lobby, BansInv, TypeOK, Stages, Shown, Counted, BannedLeavesQueue,
              HasRow, Refused, MarkPending, LiftPending
<1>2. CASE Next
  <2>1. TypeOK
    BY DEF BansInv
  <2>2. CASE \E a \in Actors, p \in Players, mins \in Nat, level \in 0..MaxOffences,
              first \in {"insert", "deactivate", "expire"} : Requested(a, first, p, mins, level)
    BY <2>2, RequestKeeps
  <2>3. CASE \E p \in Players : Queueing(p)
    BY <2>3, QueueKeeps
  <2>4. CASE \E a \in Actors : Ends(a) \/ Skips(a)
    BY <2>4, EndsKeeps, SkipsKeeps
  <2>5. CASE \E a \in Actors, p \in Players :
              \/ Insert(a, p) \/ Mark(a, p) \/ Penalise(a, p) \/ Cancel(a, p)
              \/ Deactivate(a, p) \/ Clear(a, p) \/ Expire(a, p) \/ Unflag(a, p)
    BY <2>5, InsertKeeps, MarkKeeps, PenaliseKeeps, CancelKeeps, DeactivateKeeps, ClearKeeps,
       ExpireKeeps, UnflagKeeps
  <2>6. CASE \E t \in Instants : Pass(t)
    BY <2>6, PassKeeps
  <2> QED BY <1>2, <2>1, <2>2, <2>3, <2>4, <2>5, <2>6, NextCases
<1> QED BY <1>1, <1>2

\* The inductive invariant holds in every instance of the module.
THEOREM BansInvariant == Spec => []BansInv
<1>1. Init => BansInv
  <2> SUFFICES ASSUME Init PROVE BansInv
    OBVIOUS
  <2> USE BansAssumption DEF Init
  <2>1. TypeOK
    BY DEF TypeOK, Jobs, NoJob
  <2>2. Stages
    BY DEF Stages, NoJob
  <2>3. Shown /\ Counted /\ BannedLeavesQueue
    BY DEF Shown, Counted, BannedLeavesQueue, Refused, MarkPending, NoJob
  <2> QED BY <2>1, <2>2, <2>3 DEF BansInv
<1>2. BansInv /\ [Next]_vars => BansInv'
  BY BansStep
<1> QED BY <1>1, <1>2, PTL DEF Spec

\* Every variable keeps its type.
THEOREM BansTypeCorrect == Spec => []TypeOK
<1>1. BansInv => TypeOK
  BY DEF BansInv
<1> QED BY <1>1, BansInvariant, PTL

\* Whoever is refused at !queue is among the panel's active bans, whatever the
\* order of the statements of the daemon, the lobby and the panels, except in
\* the windows that torn names.
THEOREM RefusedIsListedCorrect == Spec => []RefusedIsListed
<1>1. ASSUME BansInv PROVE RefusedIsListed
  <2>1. SUFFICES ASSUME NEW p \in Players \ torn, Refused(p),
                        \A a \in Actors : ~LiftPending(a, p)
                 PROVE  Listed(p)
    BY DEF RefusedIsListed
  <2>2. PICK r \in rows : r.player = p /\ r.expires >= until[p]
    BY <2>1, <1>1 DEF BansInv, Shown, HasRow
  <2>3. r.expires \in Nat /\ until[p] \in Nat /\ now \in Nat /\ until[p] > now
    BY <2>1, <1>1, BansAssumption DEF BansInv, TypeOK, Refused
  <2> QED BY <2>2, <2>3 DEF Listed, ActiveBans
<1> QED BY <1>1, BansInvariant, PTL

\* Whoever sm_mm_ban bans is not queued while the ban holds, except whom !queue
\* had let through, whose row the key kept, or whose row step 7 brought back.
THEOREM BannedLeavesQueueCorrect == Spec => []BannedLeavesQueue
<1>1. BansInv => BannedLeavesQueue
  BY DEF BansInv
<1> QED BY <1>1, BansInvariant, PTL

\* The ban of another abandon ends no earlier than that of the one before.
THEOREM EscalationCorrect == Spec => EscalationNeverShortens
<1> DEFINE Longer == \A p \in Players :
       offences[p] > 0 /\ <<offences[p], lastAbandon[p]>>' # <<offences[p], lastAbandon[p]>> =>
       /\ offences'[p] >= offences[p]
       /\ until'[p] >= lastAbandon[p] + AbandonBanMinutes(offences[p])
<1>1. ASSUME BansInv, [Next]_vars PROVE [Longer]_vars
  <2>1. CASE UNCHANGED <<offences, lastAbandon>>
    BY <2>1
  <2>2. CASE \E a \in Actors, p \in Players : Penalise(a, p)
    <3>1. PICK a \in Actors, p \in Players : Penalise(a, p)
      BY <2>2
    <3>2. job[a].at = "penalise" /\ job[a].player = p
      BY <3>1 DEF Penalise, Runs
    <3>3. /\ job[a].level \in Nat \ {0} /\ job[a].mins = AbandonBanMinutes(job[a].level)
          /\ job[a].level >= offences[p]
      BY <1>1, <3>2, BansAssumption DEF BansInv, Stages, Counted
    <3>4. /\ offences'[p] = job[a].level /\ until'[p] = now + job[a].mins
          /\ \A q \in Players \ {p} : offences'[q] = offences[q] /\ lastAbandon'[q] = lastAbandon[q]
      BY <1>1, <3>1 DEF Penalise, SetBan, BansInv, TypeOK
    <3>5. now \in Nat /\ offences[p] \in Nat /\ lastAbandon[p] \in Nat /\ lastAbandon[p] <= now
      <4>1. now \in Nat /\ offences[p] \in Nat /\ lastAbandon[p] \in Nat
        <5>1. TypeOK
          BY <1>1 DEF BansInv
        <5>2. now \in Nat /\ lastAbandon[p] \in Nat
          BY <5>1, BansAssumption DEF TypeOK
        <5>3. offences[p] \in 0..MaxOffences
          BY <5>1 DEF TypeOK
        <5> QED BY <5>2, <5>3, BansAssumption
      <4>2. lastAbandon[p] <= now
        BY <1>1 DEF BansInv, Counted
      <4> QED BY <4>1, <4>2
    <3>6. offences[p] > 0 => AbandonBanMinutes(offences[p]) <= AbandonBanMinutes(job[a].level)
      BY <3>3, <3>5, BanMinutesGrow
    <3>7. AbandonBanMinutes(offences[p]) \in Nat /\ AbandonBanMinutes(job[a].level) \in Nat
      BY <3>3, <3>5, BanMinutesType
    <3>8. offences[p] > 0 => offences'[p] >= offences[p]
                             /\ until'[p] >= lastAbandon[p] + AbandonBanMinutes(offences[p])
      BY <3>3, <3>4, <3>5, <3>6, <3>7
    <3> QED BY <3>4, <3>8
  <2>3. (\E a \in Actors, p \in Players : Penalise(a, p)) \/ UNCHANGED <<offences, lastAbandon>>
    <3>1. CASE UNCHANGED vars
      BY <3>1 DEF vars, player
    <3>2. CASE Next
      <4>1. ASSUME NEW a, NEW first, NEW p, NEW mins, NEW level, Requested(a, first, p, mins, level)
            PROVE  UNCHANGED <<offences, lastAbandon>>
        BY <4>1 DEF Requested, Request, player
      <4>2. ASSUME NEW p, Queueing(p)
            PROVE  UNCHANGED <<offences, lastAbandon>>
        BY <4>2 DEF Queueing, CheckBan, JoinQueue, QueueAborted, RestoreMatched, Becomes, player
      <4>3. ASSUME NEW a, NEW p, \/ Ends(a) \/ Skips(a) \/ Insert(a, p) \/ Mark(a, p)
                                 \/ Cancel(a, p) \/ Deactivate(a, p) \/ Clear(a, p)
                                 \/ Expire(a, p) \/ Unflag(a, p)
            PROVE  UNCHANGED <<offences, lastAbandon>>
        BY <4>3 DEF Ends, Stops, InsertRaises, Skips, Insert, Mark, Cancel, Deactivate, Clear,
                    Expire, Unflag, player
      <4>4. ASSUME NEW t, Pass(t)
            PROVE  UNCHANGED <<offences, lastAbandon>>
        BY <4>4 DEF Pass, player
      <4> QED BY <3>2, <1>1, <4>1, <4>2, <4>3, <4>4, NextCases DEF BansInv
    <3> QED BY <1>1, <3>1, <3>2
  <2> QED BY <2>1, <2>2, <2>3
<1>2. Spec => [][Longer]_vars
  BY <1>1, BansInvariant, PTL DEF Spec
<1> QED BY <1>2 DEF EscalationNeverShortens

=============================================================================
