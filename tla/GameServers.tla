---------------------------- MODULE GameServers -----------------------------
(***************************************************************************)
(* What the match plugin (csgo_mm_match.sp) of a running game server       *)
(* writes into the database, and the match commands of the web panel.      *)
(* Both write mm_matches.status without looking at it first, or looking    *)
(* only at part of it, while the daemon works on the same row.             *)
(*                                                                         *)
(* The first part is what the other modules need to know of the plugin;    *)
(* MatchServer models all of it, and is shown to do no more than this.     *)
(***************************************************************************)
EXTENDS Database

serverOnly == <<queue, busyPorts, busyTokens, client>>

\* DB_Connected and OnMapStart: DB_SetMatchStatus(MATCH_STATUS_WARMUP).  The
\* map the players voted for may start when the match is live already.
WritesWarmup(m) ==
  /\ server[m] \in {"warmup", "live"}
  /\ server' = [server EXCEPT ![m] = "warmup"]
  /\ SetStatus(m, "warmup")
  /\ UNCHANGED serverOnly

\* Event_PlayerConnectFull; nothing sets connected back to 0.
PlayerConnects(m, p) ==
  /\ Runs(m)
  /\ p \in matches[m].players
  /\ matches' = [matches EXCEPT ![m].connected = @ \cup {p}]
  /\ UNCHANGED <<serverOnly, server>>

\* StartKnifeRound once everybody is in, then StartLiveMatch.  The column
\* connected need not say so: it misses who came before the plugin had its
\* connection to the database.
GoesLive(m) ==
  /\ server[m] = "warmup"
  /\ server' = [server EXCEPT ![m] = "live"]
  /\ SetStatus(m, "live")
  /\ UNCHANGED serverOnly

\* Timer_WarmupTimeout: the plugin stays in warmup and its timers go on.
WarmupTimesOut(m) ==
  /\ server[m] = "warmup"
  /\ SetStatus(m, "cancelled")
  /\ UNCHANGED <<serverOnly, server>>

\* Event_MatchEnd or a surrender.
MatchEnds(m) ==
  /\ server[m] = "live"
  /\ server' = [server EXCEPT ![m] = "over"]
  /\ SetStatus(m, "finished")
  /\ UNCHANGED serverOnly

-----------------------------------------------------------------------------
\* match_cancel and server_cancel of the web panel: the first takes every
\* status but finished and cancelled, which includes those of the second.
WebCancel(m) ==
  /\ "admin" \in Faults
  /\ matches[m].status \notin {"none", "finished", "cancelled"}
  /\ SetStatus(m, "cancelled")
  /\ UNCHANGED <<serverOnly, server>>

\* match_cleanup of the web panel, whatever the status: force-marks the match
\* and frees its port and token, in three transactions of one request.
WebCleanup(m) ==
  /\ "admin" \in Faults
  /\ matches[m].status # "none"
  /\ matches' = [matches EXCEPT ![m].cleaned = TRUE]
  /\ busyPorts' = busyPorts \ {matches[m].port}
  /\ busyTokens' = busyTokens \ {matches[m].token}
  /\ UNCHANGED <<queue, server, client>>

ServerStep ==
  \E m \in Matches :
    \/ WritesWarmup(m) \/ GoesLive(m) \/ WarmupTimesOut(m) \/ MatchEnds(m)
    \/ \E p \in Players : PlayerConnects(m, p)
    \/ WebCancel(m) \/ WebCleanup(m)
=============================================================================
