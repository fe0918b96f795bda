------------------------------- MODULE Lobby --------------------------------
(***************************************************************************)
(* What the lobby queue plugin (csgo_mm_queue.sp) does to the queue for a  *)
(* player who is in no party, and the queue statements of the lobby admin  *)
(* plugin.  client[p] stands for the flags of the player's slot: "idle" is *)
(* ~g_bQueued, "asked" is g_bQueued with g_bReadyCheck.                    *)
(***************************************************************************)
EXTENDS Database

lobbyOnly == <<matches, busyPorts, busyTokens, server>>

SetClient(p, s) == client' = [client EXCEPT ![p] = s]

NextId(p, i) ==
  /\ \A r \in RowsOf(queue, p) : r.id < i
  /\ i = 1 \/ \E r \in RowsOf(queue, p) : r.id = i - 1

\* !queue: INSERT IGNORE.  With a waiting row in the table nothing is
\* inserted and g_bQueued is not set.
Join(p) ==
  /\ client[p] = "idle"
  /\ \A r \in RowsOf(queue, p) : r.status # "waiting"
  /\ \E i \in 1 .. MaxRows :
       /\ NextId(p, i)
       /\ queue' = queue \cup {[player |-> p, id |-> i, status |-> "waiting",
                               match |-> NoMatch, ready |-> FALSE]}
  /\ SetClient(p, "queued")
  /\ UNCHANGED lobbyOnly

Queued(p) == {r \in RowsOf(queue, p) : r.status \in {"waiting", "ready_check"}}

\* !leave, disconnecting and the anti-AFK timer.  The flags are reset even
\* when the UPDATE fails.
Leave(p) ==
  /\ client[p] # "idle"
  /\ queue' = Close(queue, Queued(p), "cancelled")
  /\ SetClient(p, "idle")
  /\ UNCHANGED lobbyOnly

AskedRows(p) == {r \in RowsOf(queue, p) : r.status = "ready_check"}

\* ReadyCheck_Accept clears g_bReadyCheck, so the next poll asks again.
Accept(p) ==
  /\ client[p] = "asked"
  /\ queue' = (queue \ AskedRows(p)) \cup {[r EXCEPT !.ready = TRUE] : r \in AskedRows(p)}
  /\ SetClient(p, "queued")
  /\ UNCHANGED lobbyOnly

\* ReadyCheck_Decline: the button, a closed panel or the countdown.
Decline(p) ==
  /\ client[p] = "asked"
  /\ queue' = Close(queue, AskedRows(p), "cancelled")
  /\ SetClient(p, "idle")
  /\ UNCHANGED lobbyOnly

-----------------------------------------------------------------------------
(* Timer_PollMatchAssignment, for a client with g_bQueued.                 *)

\* ORDER BY id DESC LIMIT 1 over the active rows.
Newest(r) ==
  /\ r.status \in Active
  /\ \A o \in RowsOf(queue, r.player) : o.status \in Active => o.id <= r.id

PollAsks(p) ==
  /\ client[p] = "queued"
  /\ \E r \in RowsOf(queue, p) : Newest(r) /\ r.status = "ready_check"
  /\ SetClient(p, "asked")
  /\ UNCHANGED <<queue, lobbyOnly>>

\* The player is sent to the server of the match and the flags are reset.
PollRedirects(p) ==
  /\ client[p] # "idle"
  /\ \E r \in RowsOf(queue, p) :
       /\ Newest(r) /\ r.status = "matched"
       /\ r.match # NoMatch
       /\ matches[r.match].status \in {"creating", "warmup", "live"}
  /\ SetClient(p, "idle")
  /\ UNCHANGED <<queue, lobbyOnly>>

PollFindsNothing(p) ==
  /\ client[p] # "idle"
  /\ \A r \in RowsOf(queue, p) : r.status \notin Active
  /\ SetClient(p, "idle")
  /\ UNCHANGED <<queue, lobbyOnly>>

\* Timer_ExpireStaleQueue: the daemon's step 6 at a time of the plugin's own.
ExpireStaleQueue(S) ==
  /\ S # {}
  /\ queue' = Close(queue, S, "expired")
  /\ UNCHANGED <<lobbyOnly, client>>

-----------------------------------------------------------------------------
(* Administrators: csgo_mm_admin.sp and the web panel.                     *)

\* sm_mm_forcestart: LIMIT 10 of the waiting rows; match_id stays NULL.
ForceStart ==
  /\ "admin" \in Faults
  /\ \E S \in SUBSET RowsIn(queue, "waiting") :
       /\ Cardinality(RowsIn(queue, "waiting")) >= 2
       /\ Cardinality(S) <= Required
       /\ \/ Cardinality(S) = Required
          \/ S = RowsIn(queue, "waiting")
       /\ queue' = Update(queue, S, "ready_check",
                          {[r EXCEPT !.status = "ready_check"] : r \in S})
  /\ UNCHANGED <<lobbyOnly, client>>

\* sm_mm_cancelqueue.
CancelQueue ==
  /\ "admin" \in Faults
  /\ RowsIn(queue, "waiting") # {}
  /\ queue' = Close(queue, RowsIn(queue, "waiting"), "cancelled")
  /\ UNCHANGED <<lobbyOnly, client>>

\* queue_kick of the web panel: by row id, whatever the status.
QueueKick(r) ==
  /\ "admin" \in Faults
  /\ r \in queue
  /\ r.status # "cancelled"
  /\ queue' = Close(queue, {r}, "cancelled")
  /\ UNCHANGED <<lobbyOnly, client>>

LobbyStep ==
  \/ \E p \in Players :
       \/ Join(p) \/ Leave(p) \/ Accept(p) \/ Decline(p)
       \/ PollAsks(p) \/ PollRedirects(p) \/ PollFindsNothing(p)
  \/ \E S \in SUBSET RowsIn(queue, "waiting") : ExpireStaleQueue(S)
  \/ ForceStart \/ CancelQueue
  \/ \E r \in queue : QueueKick(r)
=============================================================================
