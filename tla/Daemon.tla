------------------------------- MODULE Daemon -------------------------------
(***************************************************************************)
(* The matchmaking daemon: MatchmakingDaemon._loop_tick of matchmaker.py,  *)
(* one action per database transaction or Docker call, in the order of the *)
(* code.  pc is the point the single thread has reached; the other         *)
(* variables are what the thread holds in memory between two transactions  *)
(* and what a crash loses.  Step 4 of the tick (ELO) touches none of the   *)
(* tables of this model: it is the subject of MatchResults.                *)
(***************************************************************************)
EXTENDS Database

VARIABLES
  pc,       \* where the thread is
  group,    \* players the step works on
  absent,   \* step 7: the players of the match who never connected
  port,     \* step 1: the port claimed and not yet written into a match
  token,    \* step 1: the token claimed and not yet written into a match
  todo,     \* result rows (match ids) the step has yet to visit
  ended,    \* step 5: the result rows, kept for the second loop
  gone,     \* step 5: the matches whose container was destroyed
  cur       \* the match being worked on

locals == <<group, absent, port, token, todo, ended, gone, cur>>
daemonVars == <<pc, locals>>

PC == {"find", "claim_port", "claim_gslt", "unclaim_port", "create_match",
       "set_ready_check",                                          \* step 1
       "read_stale", "stale", "stale_cancel",                      \* step 2
       "read_ready", "ready", "create_server", "record", "set_matched",
       "err_status", "err_port", "err_gslt", "err_requeue", "err_cancel",
                                                                   \* step 3
       "read_ended", "destroy", "clean", "clean_mark", "clean_port", "clean_gslt",
                                                                   \* step 5
       "expire",                                                   \* step 6
       "read_warmups", "warmups", "warmup_cancel", "warmup_rows"}  \* step 7

DaemonTypeOK ==
  /\ pc \in PC
  /\ group \subseteq Players
  /\ absent \subseteq Players
  /\ port \in Ports \cup {None}
  /\ token \in Tokens \cup {None}
  /\ todo \subseteq Matches
  /\ ended \subseteq Matches
  /\ gone \subseteq Matches
  /\ cur \in Matches \cup {NoMatch}

DaemonInit ==
  /\ pc = "find"
  /\ group = {} /\ absent = {}
  /\ port = None /\ token = None
  /\ todo = {} /\ ended = {} /\ gone = {}
  /\ cur = NoMatch

Goto(l) == pc' = l

\* The locals go out of scope.
Forget ==
  /\ group' = {} /\ absent' = {}
  /\ port' = None /\ token' = None
  /\ todo' = {} /\ ended' = {} /\ gone' = {}
  /\ cur' = NoMatch

-----------------------------------------------------------------------------
(* Step 1, _step_find_and_ready_check.                                     *)

\* find_balanced_match: Required waiting players, or nobody.  Which players
\* fit together (ELO, parties, avoid lists) is left open here.
FindGroup ==
  /\ pc = "find"
  /\ \/ /\ \E m \in Matches : NextMatch(m)   \* bound: an id is left
        /\ group' \in {G \in SUBSET {r.player : r \in RowsIn(queue, "waiting")} :
                         Cardinality(G) = Required}
        /\ Goto("claim_port")
     \/ /\ group' = {}
        /\ Goto("read_stale")
  /\ UNCHANGED <<dbVars, server, client, absent, port, token, todo, ended, gone, cur>>

ClaimPort ==
  /\ pc = "claim_port"
  /\ \/ \E x \in Ports \ busyPorts :
          /\ busyPorts' = busyPorts \cup {x}
          /\ port' = x
          /\ Goto("claim_gslt")
          /\ UNCHANGED <<group, absent, token, todo, ended, gone, cur>>
     \/ /\ Ports \subseteq busyPorts
        /\ Goto("read_stale")
        /\ Forget
        /\ UNCHANGED busyPorts
  /\ UNCHANGED <<queue, matches, busyTokens, server, client>>

ClaimGslt ==
  /\ pc = "claim_gslt"
  /\ \/ \E x \in Tokens \ busyTokens :
          /\ busyTokens' = busyTokens \cup {x}
          /\ token' = x
          /\ Goto("create_match")
     \/ /\ Tokens \subseteq busyTokens
        /\ Goto("unclaim_port")
        /\ UNCHANGED <<busyTokens, token>>
  /\ UNCHANGED <<queue, matches, busyPorts, server, client,
                 group, absent, port, todo, ended, gone, cur>>

\* No token is free: release_port.
UnclaimPort ==
  /\ pc = "unclaim_port"
  /\ busyPorts' = busyPorts \ {port}
  /\ Goto("read_stale")
  /\ Forget
  /\ UNCHANGED <<queue, matches, busyTokens, server, client>>

\* Faulty: the arguments port and gslt in each other's place.
CreateMatchSwapped(m) ==
  /\ pc = "create_match"
  /\ NextMatch(m)
  /\ matches' = [matches EXCEPT ![m] =
                   [NoRow EXCEPT !.status = "creating", !.players = group,
                                 !.port = token, !.token = port]]
  /\ cur' = m
  /\ port' = None /\ token' = None
  /\ Goto("set_ready_check")
  /\ UNCHANGED <<queue, busyPorts, busyTokens, server, client,
                 group, absent, todo, ended, gone>>

CreateMatch(m) ==
  /\ pc = "create_match"
  /\ NextMatch(m)
  /\ matches' = [matches EXCEPT ![m] =
                   [NoRow EXCEPT !.status = "creating", !.players = group,
                                 !.port = port, !.token = token]]
  /\ cur' = m
  /\ port' = None /\ token' = None
  /\ Goto("set_ready_check")
  /\ UNCHANGED <<queue, busyPorts, busyTokens, server, client,
                 group, absent, todo, ended, gone>>

\* What set_ready_check returns is ignored.
AskGroup ==
  /\ pc = "set_ready_check"
  /\ queue' = SetReadyCheck(queue, group, cur)
  /\ Goto("read_stale")
  /\ Forget
  /\ UNCHANGED <<matches, busyPorts, busyTokens, server, client>>

-----------------------------------------------------------------------------
(* Step 2, _step_expire_stale_ready_checks, and cancel_match_queue.        *)

ReadStale ==
  /\ pc = "read_stale"
  /\ todo' \in SUBSET OpenChecks(queue)
  /\ Goto("stale")
  /\ UNCHANGED <<dbVars, server, client, group, absent, port, token, ended, gone, cur>>

\* cancel_match_queue, first statement.  If it fails the second does not run.
RequeueAccepted(m, ok, failed) ==
  /\ \/ /\ KeyFree(queue, AcceptedRows(queue, m), "waiting")
        /\ queue' = Requeue(queue, m)
        /\ Goto(ok) /\ cur' = m
     \/ /\ \/ ~KeyFree(queue, AcceptedRows(queue, m), "waiting")
           \/ "db" \in Faults
        /\ Goto(failed) /\ cur' = NoMatch
        /\ UNCHANGED queue
  /\ UNCHANGED <<matches, busyPorts, busyTokens, server, client,
                 group, absent, port, token, ended, gone>>

\* cancel_match_queue, second statement.
CancelRest(next) ==
  /\ queue' = CancelUnready(queue, cur)
  /\ Goto(next)
  /\ cur' = NoMatch
  /\ UNCHANGED <<matches, busyPorts, busyTokens, server, client,
                 group, absent, port, token, todo, ended, gone>>

ExpireCheck(m) ==
  /\ pc = "stale"
  /\ m \in todo
  /\ todo' = todo \ {m}
  /\ RequeueAccepted(m, "stale_cancel", "stale")

ExpireCheckRest ==
  /\ pc = "stale_cancel"
  /\ CancelRest("stale")

-----------------------------------------------------------------------------
(* Step 3, _step_create_servers and _create_server_for_match.              *)

ReadReady ==
  /\ pc = "read_ready"
  /\ todo' = FullyReady(queue)
  /\ Goto("ready")
  /\ UNCHANGED <<dbVars, server, client, group, absent, port, token, ended, gone, cur>>

\* Faulty: the early return asks for the status after the start.
ReadMatchWarmup(m) ==
  /\ pc = "ready"
  /\ m \in todo
  /\ todo' = todo \ {m}
  /\ IF matches[m].status = "warmup"
     THEN Goto("create_server") /\ cur' = m
     ELSE Goto("ready") /\ cur' = NoMatch
  /\ UNCHANGED <<dbVars, server, client, group, absent, port, token, ended, gone>>

\* The SELECT on mm_matches and the early return on its status.
ReadMatch(m) ==
  /\ pc = "ready"
  /\ m \in todo
  /\ todo' = todo \ {m}
  /\ IF matches[m].status = "creating"
     THEN Goto("create_server") /\ cur' = m
     ELSE Goto("ready") /\ cur' = NoMatch
  /\ UNCHANGED <<dbVars, server, client, group, absent, port, token, ended, gone>>

\* Faulty: the players are matched before the container is recorded.
StartServerUnrecorded ==
  /\ pc = "create_server"
  /\ server[cur] = "absent"
  /\ server' = [server EXCEPT ![cur] = "warmup"]
  /\ Goto("set_matched")
  /\ UNCHANGED <<dbVars, client, locals>>

\* The container starts...
StartServer ==
  /\ pc = "create_server"
  /\ server[cur] = "absent"
  /\ server' = [server EXCEPT ![cur] = "warmup"]
  /\ Goto("record")
  /\ UNCHANGED <<dbVars, client, locals>>

\* ...or Docker refuses: a container of that name exists, or an API error, after
\* which the container may have been created and not started.
StartFails ==
  /\ pc = "create_server"
  /\ \/ server[cur] # "absent" /\ UNCHANGED server
     \/ /\ server[cur] = "absent" /\ "docker" \in Faults
        /\ server' \in {server, [server EXCEPT ![cur] = "stopped"]}
  /\ Goto("err_status")
  /\ UNCHANGED <<dbVars, client, locals>>

\* update_match_container.
RecordContainer ==
  /\ pc = "record"
  /\ matches' = [matches EXCEPT ![cur] =
                   [@ EXCEPT !.container = TRUE, !.status = "warmup"]]
  /\ Goto("set_matched")
  /\ UNCHANGED <<queue, busyPorts, busyTokens, server, client, locals>>

\* What set_matched returns is ignored.
ConfirmGroup ==
  /\ pc = "set_matched"
  /\ queue' = SetMatched(queue, cur)
  /\ Goto("ready")
  /\ cur' = NoMatch
  /\ UNCHANGED <<matches, busyPorts, busyTokens, server, client,
                 group, absent, port, token, todo, ended, gone>>

MarkError ==
  /\ pc = "err_status"
  /\ SetStatus(cur, "error")
  /\ Goto("err_port")
  /\ UNCHANGED <<queue, busyPorts, busyTokens, server, client, locals>>

\* release_port frees the number, whichever match it is assigned to by now.
ErrorReleasesPort ==
  /\ pc = "err_port"
  /\ busyPorts' = busyPorts \ {matches[cur].port}
  /\ Goto("err_gslt")
  /\ UNCHANGED <<queue, matches, busyTokens, server, client, locals>>

ErrorReleasesGslt ==
  /\ pc = "err_gslt"
  /\ busyTokens' = busyTokens \ {matches[cur].token}
  /\ Goto("err_requeue")
  /\ UNCHANGED <<queue, matches, busyPorts, server, client, locals>>

ErrorRequeues ==
  /\ pc = "err_requeue"
  /\ RequeueAccepted(cur, "err_cancel", "ready")
  /\ UNCHANGED todo

ErrorCancelsRest ==
  /\ pc = "err_cancel"
  /\ CancelRest("ready")

-----------------------------------------------------------------------------
(* Step 5, _step_cleanup_servers.                                          *)

\* Faulty: the SELECT does not ask for cleaned_up = 0.
ReadEndedAgain ==
  /\ pc = "read_ended"
  /\ ended' = {m \in Matches : matches[m].status \in Ended}
  /\ todo' = ended'
  /\ Goto("destroy")
  /\ UNCHANGED <<dbVars, server, client, group, absent, port, token, gone, cur>>

ReadEnded ==
  /\ pc = "read_ended"
  /\ ended' = {m \in Matches : matches[m].status \in Ended /\ ~matches[m].cleaned}
  /\ todo' = ended'
  /\ Goto("destroy")
  /\ UNCHANGED <<dbVars, server, client, group, absent, port, token, gone, cur>>

\* Faulty: destroy_server returns True after the except clause too.
DestroyServerTrusting(m) ==
  /\ pc = "destroy"
  /\ m \in todo
  /\ todo' = todo \ {m}
  /\ server' \in IF "docker" \in Faults THEN {server, [server EXCEPT ![m] = "absent"]}
                                       ELSE {[server EXCEPT ![m] = "absent"]}
  /\ gone' = gone \cup {m}
  /\ UNCHANGED <<dbVars, client, pc, group, absent, port, token, ended, cur>>

\* cleanup_finished_servers: destroy_server for every row with a container.
\* A container that is not found counts as not destroyed; one that Docker
\* refuses to remove may have been stopped first.
DestroyServer(m) ==
  /\ pc = "destroy"
  /\ m \in todo
  /\ todo' = todo \ {m}
  /\ \/ /\ matches[m].container /\ server[m] # "absent"
        /\ server' = [server EXCEPT ![m] = "absent"]
        /\ gone' = gone \cup {m}
     \/ /\ ~matches[m].container \/ server[m] = "absent"
        /\ UNCHANGED <<server, gone>>
     \/ /\ matches[m].container /\ server[m] # "absent" /\ "docker" \in Faults
        /\ server' \in {server, [server EXCEPT ![m] = "stopped"]}
        /\ UNCHANGED gone
  /\ UNCHANGED <<dbVars, client, pc, group, absent, port, token, ended, cur>>

DestroyLoopEnds ==
  /\ pc = "destroy"
  /\ todo = {}
  /\ todo' = ended
  /\ ended' = {}
  /\ Goto("clean")
  /\ UNCHANGED <<dbVars, server, client, group, absent, port, token, gone, cur>>

\* The container is recorded and was not destroyed in this tick.
Refused(m) == matches[m].container /\ m \notin gone

\* new_attempts; beyond MaxAttempts its value makes no difference.
Attempts(m) == IF matches[m].attempts < MaxAttempts THEN matches[m].attempts + 1
                                                    ELSE MaxAttempts

\* Faulty: the UPDATE of cleanup_attempts is missing.
CleanMatchUncounted(m) ==
  /\ pc = "clean"
  /\ m \in todo
  /\ todo' = todo \ {m}
  /\ IF Refused(m) /\ Attempts(m) < MaxAttempts
     THEN Goto("clean") /\ cur' = NoMatch
     ELSE Goto("clean_mark") /\ cur' = m
  /\ UNCHANGED <<dbVars, server, client, group, absent, port, token, ended, gone>>

\* A container that is still there costs an attempt; the last one gives up.
CleanMatch(m) ==
  /\ pc = "clean"
  /\ m \in todo
  /\ todo' = todo \ {m}
  /\ \/ /\ Refused(m)
        /\ matches' = [matches EXCEPT ![m].attempts = Attempts(m)]
        /\ IF Attempts(m) >= MaxAttempts
           THEN Goto("clean_mark") /\ cur' = m
           ELSE Goto("clean") /\ cur' = NoMatch
     \/ /\ ~Refused(m)
        /\ Goto("clean_mark") /\ cur' = m
        /\ UNCHANGED matches
  /\ UNCHANGED <<queue, busyPorts, busyTokens, server, client,
                 group, absent, port, token, ended, gone>>

\* Faulty: a match given up is marked and its port and token are not released.
MarkCleanedOnly ==
  /\ pc = "clean_mark"
  /\ matches' = [matches EXCEPT ![cur].cleaned = TRUE]
  /\ Goto(IF Refused(cur) THEN "clean" ELSE "clean_port")
  /\ UNCHANGED <<queue, busyPorts, busyTokens, server, client, locals>>

\* Faulty: the UPDATE of cleaned_up finds no row.
MarkCleanedNowhere ==
  /\ pc = "clean_mark"
  /\ Goto("clean_port")
  /\ UNCHANGED <<dbVars, server, client, locals>>

\* mark_match_cleaned.
MarkCleaned ==
  /\ pc = "clean_mark"
  /\ matches' = [matches EXCEPT ![cur].cleaned = TRUE]
  /\ Goto("clean_port")
  /\ UNCHANGED <<queue, busyPorts, busyTokens, server, client, locals>>

CleanReleasesPort ==
  /\ pc = "clean_port"
  /\ busyPorts' = busyPorts \ {matches[cur].port}
  /\ Goto("clean_gslt")
  /\ UNCHANGED <<queue, matches, busyTokens, server, client, locals>>

CleanReleasesGslt ==
  /\ pc = "clean_gslt"
  /\ busyTokens' = busyTokens \ {matches[cur].token}
  /\ Goto("clean")
  /\ cur' = NoMatch
  /\ UNCHANGED <<queue, matches, busyPorts, server, client,
                 group, absent, port, token, todo, ended, gone>>

-----------------------------------------------------------------------------
(* Step 6, _step_expire_stale_queue_entries: the rows older than 15        *)
(* minutes, whichever these are.                                           *)

ExpireWaiting ==
  /\ pc = "expire"
  /\ \E S \in SUBSET RowsIn(queue, "waiting") :
       queue' = Close(queue, S, "expired")
  /\ Goto("read_warmups")
  /\ UNCHANGED <<matches, busyPorts, busyTokens, server, client, locals>>

-----------------------------------------------------------------------------
(* Step 7, _step_cancel_timed_out_warmups; its bans are in other tables.   *)

\* Of the matches in warmup, those that started WARMUP_TIMEOUT ago.
ReadWarmups ==
  /\ pc = "read_warmups"
  /\ todo' \in SUBSET {m \in Matches : matches[m].status = "warmup"}
  /\ Goto("warmups")
  /\ UNCHANGED <<dbVars, server, client, group, absent, port, token, ended, gone, cur>>

\* The SELECT on mm_match_players.
ReadConnected(m) ==
  /\ pc = "warmups"
  /\ m \in todo
  /\ todo' = todo \ {m}
  /\ cur' = m
  /\ group' = matches[m].players
  /\ absent' = matches[m].players \ matches[m].connected
  /\ Goto("warmup_cancel")
  /\ UNCHANGED <<dbVars, server, client, port, token, ended, gone>>

\* UPDATE ... WHERE id = ...: whatever the status is by now.
CancelWarmup ==
  /\ pc = "warmup_cancel"
  /\ SetStatus(cur, "cancelled")
  /\ Goto("warmup_rows")
  /\ UNCHANGED <<queue, busyPorts, busyTokens, server, client, locals>>

\* The absent players first, then the present ones.
MoveMatchedRow(p) ==
  /\ pc = "warmup_rows"
  /\ p \in group
  /\ p \in absent \/ absent = {}
  /\ \/ queue' = IF p \in absent THEN CancelMatched(queue, p)
                                ELSE RestoreMatched(queue, p)
     \/ "db" \in Faults /\ UNCHANGED queue
  /\ group' = group \ {p}
  /\ absent' = absent \ {p}
  /\ UNCHANGED <<matches, busyPorts, busyTokens, server, client,
                 pc, port, token, todo, ended, gone, cur>>

WarmupDone ==
  /\ pc = "warmup_rows"
  /\ group = {}
  /\ Goto("warmups")
  /\ cur' = NoMatch
  /\ UNCHANGED <<dbVars, server, client, group, absent, port, token, todo, ended, gone>>

-----------------------------------------------------------------------------
(* Leaving a loop whose rows are all visited, for the next step.           *)

NextStep(l) == CASE l = "stale"   -> "read_ready"
                 [] l = "ready"   -> "read_ended"
                 [] l = "clean"   -> "expire"
                 [] l = "warmups" -> "find"

LoopEnds ==
  /\ pc \in {"stale", "ready", "clean", "warmups"}
  /\ todo = {}
  /\ Goto(NextStep(pc))
  /\ Forget
  /\ UNCHANGED <<dbVars, server, client>>
-----------------------------------------------------------------------------
(* Faults of the daemon.                                                   *)

\* The process dies anywhere and is started again: only the tables survive.
Crash ==
  /\ "crash" \in Faults
  /\ pc' = "find"
  /\ Forget
  /\ UNCHANGED <<dbVars, server, client>>

\* The points where a statement may raise without an action of its own saying so.
Raises ==
  {"claim_port", "claim_gslt", "unclaim_port", "create_match", "set_ready_check",
   "read_stale", "stale_cancel", "read_ready", "ready", "record", "set_matched",
   "err_status", "err_port", "err_gslt", "err_cancel", "read_ended", "clean",
   "clean_mark", "clean_port", "clean_gslt", "expire", "read_warmups", "warmups",
   "warmup_cancel"}

\* Where the except clause around the statement takes the thread.
Handler(l) ==
  CASE l \in {"claim_port", "claim_gslt", "unclaim_port", "create_match",
              "set_ready_check"}                               -> "read_stale"
    [] l = "read_stale"                                        -> "read_ready"
    [] l = "stale_cancel"                                      -> "stale"
    [] l \in {"read_ready", "ready", "record", "err_status", "err_port",
              "err_gslt"}                                      -> "read_ended"
    [] l \in {"set_matched", "err_cancel"}                     -> "ready"
    [] l \in {"read_ended", "clean"}                           -> "expire"
    [] l \in {"clean_mark", "clean_port", "clean_gslt"}        -> "clean"
    [] l = "expire"                                            -> "read_warmups"
    [] OTHER                                                   -> "find"

\* Only the loops these points head go on with the rows they have left.
KeepsLoop == {"stale", "ready", "clean"}

StatementFails ==
  /\ "db" \in Faults
  /\ pc \in Raises
  /\ pc = "clean" => \E m \in todo : Refused(m)
  /\ Goto(Handler(pc))
  /\ IF Handler(pc) \in KeepsLoop
     THEN cur' = NoMatch /\ UNCHANGED <<group, absent, port, token, todo, ended, gone>>
     ELSE Forget
  /\ UNCHANGED <<dbVars, server, client>>

Tick ==
  \/ FindGroup \/ ClaimPort \/ ClaimGslt \/ UnclaimPort \/ AskGroup
  \/ ReadStale \/ ExpireCheckRest
  \/ ReadReady \/ StartServer \/ StartFails \/ RecordContainer \/ ConfirmGroup
  \/ MarkError \/ ErrorReleasesPort \/ ErrorReleasesGslt \/ ErrorRequeues
  \/ ErrorCancelsRest
  \/ ReadEnded \/ DestroyLoopEnds \/ MarkCleaned \/ CleanReleasesPort
  \/ CleanReleasesGslt
  \/ ExpireWaiting \/ ReadWarmups \/ CancelWarmup \/ WarmupDone
  \/ LoopEnds
  \/ \E m \in Matches :
       \/ CreateMatch(m) \/ ExpireCheck(m) \/ ReadMatch(m)
       \/ DestroyServer(m) \/ CleanMatch(m) \/ ReadConnected(m)
  \/ \E p \in Players : MoveMatchedRow(p)

DaemonStep == Tick \/ Crash \/ StatementFails
=============================================================================
