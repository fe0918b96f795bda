-------------------------- MODULE MatchmakingProofs -------------------------
(***************************************************************************)
(* Theorems about Matchmaking: of the ready check, for every instance and  *)
(* under all its faults, and of the pool of ports and tokens, for every    *)
(* instance whose only faults are those of Docker.  The three parts build  *)
(* on one another: the statements of QueueTable, the ready check, the      *)
(* pool.                                                                   *)
(***************************************************************************)
EXTENDS Matchmaking, TLAPS

(***************************************************************************)
(* Lemmas about the statements of QueueTable: each keeps the table typed,  *)
(* and none but SetReadyCheck puts into a ready check of a match a row     *)
(* that still has to answer.                                               *)
(***************************************************************************)

\* A waiting row is bound to no match; a matched row has accepted.
RowsOK(q) ==
  /\ \A r \in RowsIn(q, "waiting") : r.match = NoMatch
  /\ \A r \in RowsIn(q, "matched") : r.ready

\* The rows a ready check of a match waits for.
Unanswered(q) == {r \in RowsIn(q, "ready_check") : ~r.ready /\ r.match # NoMatch}

\* What every statement but SetReadyCheck and SetMatched does to a table with
\* RowsOK: it leaves it in order, asks nobody and matches nobody.
Harmless(q, t) ==
  /\ t \subseteq Row
  /\ RowsOK(t)
  /\ Unanswered(t) \subseteq Unanswered(q)
  /\ RowsIn(t, "matched") \subseteq RowsIn(q, "matched")

-----------------------------------------------------------------------------
\* An UPDATE is harmless when its new rows are.
LEMMA UpdateHarmless ==
  ASSUME NEW q \in SUBSET Row, RowsOK(q), NEW S \in SUBSET q, NEW s,
         NEW T \in SUBSET Row, RowsOK(T), Unanswered(T) = {}, RowsIn(T, "matched") = {}
  PROVE  Harmless(q, Update(q, S, s, T))
BY DEF Harmless, Update, RowsOK, Unanswered, RowsIn

\* Ending rows is harmless: cancel, decline, expiry and kick.
LEMMA CloseHarmless ==
  ASSUME NEW q \in SUBSET Row, RowsOK(q), NEW S \in SUBSET q,
         NEW s \in {"expired", "cancelled"}
  PROVE  Harmless(q, Close(q, S, s))
<1> DEFINE T == {Closed(r, s) : r \in S}
<1>1. \A r \in Row : /\ Closed(r, s) \in Row
                     /\ Closed(r, s).status = s
  BY DEF Closed, Row, QueueStatus, NoMatch
<1>2. T \in SUBSET Row /\ \A t \in T : t.status = s
  BY <1>1
<1>3. RowsOK(T) /\ Unanswered(T) = {} /\ RowsIn(T, "matched") = {}
  BY <1>2 DEF RowsOK, Unanswered, RowsIn
<1> QED
  BY <1>2, <1>3, UpdateHarmless DEF Close

\* The accepted rows of a check that breaks up go back to the queue.
LEMMA RequeueHarmless ==
  ASSUME NEW q \in SUBSET Row, RowsOK(q), NEW m
  PROVE  Harmless(q, Requeue(q, m))
<1> DEFINE S == AcceptedRows(q, m)
           T == {Requeued(r) : r \in S}
<1>1. \A r \in Row : /\ Requeued(r) \in Row
                     /\ Requeued(r).status = "waiting"
                     /\ Requeued(r).match = NoMatch
  BY DEF Requeued, Row, QueueStatus, NoMatch
<1>2. S \in SUBSET q
  BY DEF AcceptedRows, CheckRows, RowsIn
<1>3. T \in SUBSET Row /\ \A t \in T : t.status = "waiting" /\ t.match = NoMatch
  BY <1>1, <1>2
<1>4. RowsOK(T) /\ Unanswered(T) = {} /\ RowsIn(T, "matched") = {}
  BY <1>3 DEF RowsOK, Unanswered, RowsIn
<1> QED
  BY <1>2, <1>3, <1>4, UpdateHarmless DEF Requeue

\* The rows that did not accept are cancelled.
LEMMA CancelUnreadyHarmless ==
  ASSUME NEW q \in SUBSET Row, RowsOK(q), NEW m
  PROVE  Harmless(q, CancelUnready(q, m))
<1>1. UnreadyRows(q, m) \in SUBSET q
  BY DEF UnreadyRows, CheckRows, RowsIn
<1> QED
  BY <1>1, CloseHarmless DEF CancelUnready

\* Confirming a check in which nobody is unready.
LEMMA SetMatchedOK ==
  ASSUME NEW q \in SUBSET Row, RowsOK(q), NEW m, UnreadyRows(q, m) = {},
         NEW t, t = SetMatched(q, m)
  PROVE  /\ t \in SUBSET Row /\ RowsOK(t)
         /\ Unanswered(t) \subseteq Unanswered(q)
         /\ \A r \in RowsIn(t, "matched") : r \in RowsIn(q, "matched") \/ r.match = m
<1> DEFINE S == CheckRows(q, m)
           T == {Confirmed(r) : r \in S}
<1>1. \A r \in Row : /\ Confirmed(r) \in Row
                     /\ Confirmed(r).status = "matched"
                     /\ Confirmed(r).ready = r.ready
                     /\ Confirmed(r).match = r.match
  BY DEF Confirmed, Row, QueueStatus
<1>2. S \in SUBSET q /\ \A r \in S : r.ready /\ r.match = m
  BY DEF UnreadyRows, CheckRows, RowsIn
<1>3. T \in SUBSET Row /\ \A u \in T : u.status = "matched" /\ u.ready /\ u.match = m
  BY <1>1, <1>2
<1>4. t = q \/ t = (q \ S) \cup T
  BY DEF SetMatched, Update
<1> QED
  BY <1>2, <1>3, <1>4 DEF RowsOK, Unanswered, RowsIn

\* Warmup timeout: a present player's row goes back to the queue.
LEMMA RestoreMatchedHarmless ==
  ASSUME NEW q \in SUBSET Row, RowsOK(q), NEW p
  PROVE  Harmless(q, RestoreMatched(q, p))
<1> DEFINE S == MatchedRowsOf(q, p)
           T == {Restored(r) : r \in S}
<1>1. \A r \in Row : /\ Restored(r) \in Row
                     /\ Restored(r).status = "waiting"
                     /\ Restored(r).match = NoMatch
  BY DEF Restored, Row, QueueStatus, NoMatch
<1>2. S \in SUBSET q
  BY DEF MatchedRowsOf, RowsOf
<1>3. T \in SUBSET Row /\ \A t \in T : t.status = "waiting" /\ t.match = NoMatch
  BY <1>1, <1>2
<1>4. RowsOK(T) /\ Unanswered(T) = {} /\ RowsIn(T, "matched") = {}
  BY <1>3 DEF RowsOK, Unanswered, RowsIn
<1> QED
  BY <1>2, <1>3, <1>4, UpdateHarmless DEF RestoreMatched

\* Warmup timeout: an absent player's row is cancelled.
LEMMA CancelMatchedHarmless ==
  ASSUME NEW q \in SUBSET Row, RowsOK(q), NEW p
  PROVE  Harmless(q, CancelMatched(q, p))
<1>1. MatchedRowsOf(q, p) \in SUBSET q
  BY DEF MatchedRowsOf, RowsOf
<1> QED
  BY <1>1, CloseHarmless DEF CancelMatched

\* Asking a group keeps the table typed and its rows in order.
LEMMA SetReadyCheckOK ==
  ASSUME NEW q \in SUBSET Row, RowsOK(q), NEW G, NEW m \in Matches \cup {NoMatch},
         NEW t, t = SetReadyCheck(q, G, m)
  PROVE  /\ t \in SUBSET Row /\ RowsOK(t)
         /\ RowsIn(t, "matched") \subseteq RowsIn(q, "matched")
<1> DEFINE S == StillWaiting(q, G)
           T == {Asked(r, m) : r \in S}
<1>1. \A r \in Row : /\ Asked(r, m) \in Row
                     /\ Asked(r, m).status = "ready_check"
  BY DEF Asked, Row, QueueStatus
<1>2. S \in SUBSET q
  BY DEF StillWaiting, RowsIn
<1>3. T \in SUBSET Row /\ \A r \in T : r.status = "ready_check"
  BY <1>1, <1>2
<1>4. t = q \/ t = (q \ S) \cup T
  BY DEF SetReadyCheck, Update
<1> QED
  BY <1>2, <1>3, <1>4 DEF RowsOK, RowsIn

\* What a SELECT of step 3 found complete stays complete.
LEMMA StaysReady ==
  ASSUME NEW q, NEW t, Unanswered(t) \subseteq Unanswered(q), NEW m \in Matches,
         UnreadyRows(q, m) = {}
  PROVE  UnreadyRows(t, m) = {}
<1>1. m # NoMatch
  BY BoundsAssumption DEF Matches, NoMatch
<1> QED
  BY <1>1 DEF Unanswered, UnreadyRows, CheckRows, RowsIn

-----------------------------------------------------------------------------
(***************************************************************************)
(* For every instance of Matchmaking and under all its faults: the tables  *)
(* stay typed, whoever is matched has accepted and has a server, and a     *)
(* server starts only for a ready check nobody still has to answer.        *)
(*                                                                         *)
(* TypeOK is not inductive: a type of the queue is kept by SetMatched      *)
(* only because the rows it finds are ready, and these are ready because   *)
(* the daemon's SELECT found them so and nobody can undo an answer before  *)
(* the UPDATE runs.  ConsentInv says that of each point of step 3.         *)
(***************************************************************************)

Starting == {"create_server", "record", "set_matched"}

Erring == {"err_status", "err_port", "err_gslt", "err_requeue", "err_cancel"}

Step3 == {"ready"} \cup Starting \cup Erring

Complete(m) == UnreadyRows(queue, m) = {}

\* The matches step 3 has yet to visit, and the one it works on, are complete.
Step3OK ==
  /\ pc \in Step3 => \A m \in todo : Complete(m)
  /\ pc \in Starting => cur \in Matches /\ Complete(cur)

\* Only a match that exists has a container, and set_matched comes after it.
ContainersOK ==
  /\ \A m \in Matches : matches[m].container => matches[m].status # "none"
  /\ pc = "set_matched" => matches[cur].container
  /\ \A r \in RowsIn(queue, "matched") :
       r.match \in Matches /\ matches[r.match].container

ConsentInv == TypeOK /\ RowsOK(queue) /\ Step3OK /\ ContainersOK

-----------------------------------------------------------------------------
(* What a step does to the queue.                                          *)

\* No statement of the lobby or of an administrator asks or matches anybody.
LEMMA LobbyHarmless ==
  ASSUME TypeOK, RowsOK(queue), LobbyStep
  PROVE  Harmless(queue, queue')
<1> queue \in SUBSET Row
  BY DEF TypeOK, DatabaseTypeOK
<1>1. ASSUME NEW p \in Players, Join(p) PROVE Harmless(queue, queue')
  <2>1. PICK i \in 1 .. MaxRows :
          queue' = queue \cup {[player |-> p, id |-> i, status |-> "waiting",
                                match |-> NoMatch, ready |-> FALSE]}
    BY <1>1 DEF Join
  <2> DEFINE r == [player |-> p, id |-> i, status |-> "waiting",
                   match |-> NoMatch, ready |-> FALSE]
  <2>2. r \in Row /\ r.status = "waiting" /\ r.match = NoMatch
    BY DEF Row, QueueStatus
  <2>3. queue' = queue \cup {r}
    BY <2>1
  <2> HIDE DEF r
  <2> QED
    BY <2>2, <2>3 DEF Harmless, RowsOK, Unanswered, RowsIn
<1>2. ASSUME NEW p \in Players, Leave(p) PROVE Harmless(queue, queue')
  BY <1>2, CloseHarmless DEF Leave, Queued, RowsOf
<1>3. ASSUME NEW p \in Players, Accept(p) PROVE Harmless(queue, queue')
  <2> DEFINE T == {[r EXCEPT !.ready = TRUE] : r \in AskedRows(p)}
  <2>1. \A r \in Row : /\ [r EXCEPT !.ready = TRUE] \in Row
                       /\ [r EXCEPT !.ready = TRUE].ready
                       /\ [r EXCEPT !.ready = TRUE].status = r.status
    BY DEF Row
  <2>2. AskedRows(p) \in SUBSET queue /\ \A r \in AskedRows(p) : r.status = "ready_check"
    BY DEF AskedRows, RowsOf
  <2>3. T \in SUBSET Row /\ \A t \in T : t.ready /\ t.status = "ready_check"
    BY <2>1, <2>2
  <2>4. queue' = (queue \ AskedRows(p)) \cup T
    BY <1>3 DEF Accept
  <2> QED
    BY <2>2, <2>3, <2>4 DEF Harmless, RowsOK, Unanswered, RowsIn
<1>4. ASSUME NEW p \in Players, Decline(p) PROVE Harmless(queue, queue')
  BY <1>4, CloseHarmless DEF Decline, AskedRows, RowsOf
<1>5. ASSUME UNCHANGED queue PROVE Harmless(queue, queue')
  BY <1>5 DEF Harmless
<1>6. ASSUME NEW S \in SUBSET RowsIn(queue, "waiting"), ExpireStaleQueue(S)
      PROVE  Harmless(queue, queue')
  BY <1>6, CloseHarmless DEF ExpireStaleQueue, RowsIn
<1>7. ASSUME ForceStart PROVE Harmless(queue, queue')
  <2>1. PICK S \in SUBSET RowsIn(queue, "waiting") :
          queue' = Update(queue, S, "ready_check",
                          {[r EXCEPT !.status = "ready_check"] : r \in S})
    BY <1>7 DEF ForceStart
  <2> DEFINE T == {[r EXCEPT !.status = "ready_check"] : r \in S}
  <2>2. \A r \in Row : /\ [r EXCEPT !.status = "ready_check"] \in Row
                       /\ [r EXCEPT !.status = "ready_check"].status = "ready_check"
                       /\ [r EXCEPT !.status = "ready_check"].match = r.match
    BY DEF Row, QueueStatus
  <2>3. S \in SUBSET queue /\ S \in SUBSET Row /\ \A r \in S : r.match = NoMatch
    BY DEF RowsIn, RowsOK
  <2>4. T \in SUBSET Row /\ \A t \in T : t.status = "ready_check" /\ t.match = NoMatch
    BY <2>2, <2>3
  <2>5. RowsOK(T) /\ Unanswered(T) = {} /\ RowsIn(T, "matched") = {}
    BY <2>4 DEF RowsOK, Unanswered, RowsIn
  <2> QED
    BY <2>1, <2>3, <2>4, <2>5, UpdateHarmless
<1>8. ASSUME CancelQueue PROVE Harmless(queue, queue')
  BY <1>8, CloseHarmless DEF CancelQueue, RowsIn
<1>9. ASSUME NEW r \in queue, QueueKick(r) PROVE Harmless(queue, queue')
  BY <1>9, CloseHarmless DEF QueueKick
<1> QED
  BY <1>1, <1>2, <1>3, <1>4, <1>5, <1>6, <1>7, <1>8, <1>9
  DEF LobbyStep, PollAsks, PollRedirects, PollFindsNothing

\* The daemon asks in one statement and matches in one other.
LEMMA DaemonHarmless ==
  ASSUME TypeOK, RowsOK(queue), DaemonStep
  PROVE  AskGroup \/ ConfirmGroup \/ Harmless(queue, queue')
<1> queue \in SUBSET Row
  BY DEF TypeOK, DatabaseTypeOK
<1>1. ASSUME NEW m, NEW ok, NEW failed, RequeueAccepted(m, ok, failed)
      PROVE  Harmless(queue, queue')
  <2>1. Harmless(queue, queue)
    BY DEF Harmless
  <2> QED
    BY <1>1, <2>1, RequeueHarmless DEF RequeueAccepted
<1>2. ASSUME NEW next, CancelRest(next) PROVE Harmless(queue, queue')
  BY <1>2, CancelUnreadyHarmless DEF CancelRest
<1>3. ASSUME ExpireWaiting PROVE Harmless(queue, queue')
  BY <1>3, CloseHarmless DEF ExpireWaiting, RowsIn
<1>4. ASSUME NEW p \in Players, MoveMatchedRow(p) PROVE Harmless(queue, queue')
  <2>1. Harmless(queue, queue)
    BY DEF Harmless
  <2> QED
    BY <1>4, <2>1, RestoreMatchedHarmless, CancelMatchedHarmless DEF MoveMatchedRow
<1>5. ASSUME UNCHANGED queue PROVE Harmless(queue, queue')
  BY <1>5 DEF Harmless
<1>6. CASE Crash \/ StatementFails
  BY <1>5, <1>6 DEF Crash, StatementFails, dbVars
<1>7. CASE \/ FindGroup \/ ClaimPort \/ ClaimGslt \/ UnclaimPort
           \/ ReadStale \/ ReadReady \/ StartServer \/ StartFails \/ RecordContainer
           \/ MarkError \/ ErrorReleasesPort \/ ErrorReleasesGslt
  BY <1>5, <1>7 DEF FindGroup, ClaimPort, ClaimGslt, UnclaimPort, ReadStale, ReadReady,
    StartServer, StartFails, RecordContainer, MarkError, ErrorReleasesPort,
    ErrorReleasesGslt, dbVars
<1>8. CASE \/ ReadEnded \/ DestroyLoopEnds \/ MarkCleaned \/ CleanReleasesPort
           \/ CleanReleasesGslt \/ ReadWarmups \/ CancelWarmup \/ WarmupDone \/ LoopEnds
  BY <1>5, <1>8 DEF ReadEnded, DestroyLoopEnds, MarkCleaned, CleanReleasesPort,
    CleanReleasesGslt, ReadWarmups, CancelWarmup, WarmupDone, LoopEnds, dbVars
<1>9. ASSUME NEW m \in Matches,
             \/ CreateMatch(m) \/ ReadMatch(m) \/ DestroyServer(m)
             \/ CleanMatch(m) \/ ReadConnected(m)
      PROVE  Harmless(queue, queue')
  BY <1>5, <1>9 DEF CreateMatch, ReadMatch, DestroyServer, CleanMatch, ReadConnected, dbVars
<1>10. ASSUME NEW m \in Matches, ExpireCheck(m) PROVE Harmless(queue, queue')
  BY <1>1, <1>10 DEF ExpireCheck
<1>11. CASE ExpireCheckRest \/ ErrorRequeues \/ ErrorCancelsRest
  BY <1>1, <1>2, <1>11 DEF ExpireCheckRest, ErrorRequeues, ErrorCancelsRest
<1> QED
  BY <1>3, <1>4, <1>6, <1>7, <1>8, <1>9, <1>10, <1>11 DEF DaemonStep, Tick

\* A game server and the web panel's match commands leave the queue alone.
LEMMA ServerHarmless ==
  ASSUME TypeOK, RowsOK(queue), ServerStep
  PROVE  Harmless(queue, queue')
BY DEF TypeOK, DatabaseTypeOK, Harmless, ServerStep, WritesWarmup, GoesLive,
  WarmupTimesOut, MatchEnds, PlayerConnects, WebCancel, WebCleanup, serverOnly

\* A step keeps the queue in order; only AskGroup asks, only ConfirmGroup matches.
LEMMA QueueStep ==
  ASSUME ConsentInv, Next
  PROVE  /\ queue' \in SUBSET Row /\ RowsOK(queue')
         /\ AskGroup \/ Unanswered(queue') \subseteq Unanswered(queue)
         /\ \A r \in RowsIn(queue', "matched") :
              r \in RowsIn(queue, "matched") \/ (ConfirmGroup /\ r.match = cur)
<1> queue \in SUBSET Row /\ cur \in Matches \cup {NoMatch} /\ RowsOK(queue) /\ TypeOK
  BY DEF ConsentInv, TypeOK, DatabaseTypeOK, DaemonTypeOK
<1>1. CASE AskGroup
  <2>1. queue' = SetReadyCheck(queue, group, cur)
    BY <1>1 DEF AskGroup
  <2> QED
    BY <1>1, <2>1, SetReadyCheckOK
<1>2. CASE ConfirmGroup
  <2>1. queue' = SetMatched(queue, cur) /\ UnreadyRows(queue, cur) = {}
    BY <1>2 DEF ConfirmGroup, ConsentInv, Step3OK, Starting, Complete
  <2> QED
    BY <1>2, <2>1, SetMatchedOK
<1>3. AskGroup \/ ConfirmGroup \/ Harmless(queue, queue')
  BY DaemonHarmless, LobbyHarmless, ServerHarmless DEF Next
<1> QED
  BY <1>1, <1>2, <1>3 DEF Harmless

-----------------------------------------------------------------------------
(* What a step does to the other variables.                                *)

\* A row written into mm_matches.
LEMMA RowWritten ==
  ASSUME matches \in [Matches -> MatchRow], NEW m, NEW r \in MatchRow
  PROVE  [matches EXCEPT ![m] = r] \in [Matches -> MatchRow]
OBVIOUS

\* UPDATE mm_matches SET status = x WHERE id = m.
LEMMA StatusWritten ==
  ASSUME matches \in [Matches -> MatchRow], NEW m, NEW x \in MatchStatus
  PROVE  [matches EXCEPT ![m].status = x] \in [Matches -> MatchRow]
<1> DEFINE r == [matches[m] EXCEPT !.status = x]
<1>1. CASE m \in Matches
  <2>1. r \in MatchRow
    BY <1>1 DEF MatchRow
  <2>2. [matches EXCEPT ![m].status = x] = [matches EXCEPT ![m] = r]
    OBVIOUS
  <2> QED
    BY <2>1, <2>2, RowWritten
<1>2. CASE m \notin Matches
  BY <1>2
<1> QED
  BY <1>1, <1>2

\* UPDATE mm_matches SET cleaned_up = 1 WHERE id = m.
LEMMA CleanedWritten ==
  ASSUME matches \in [Matches -> MatchRow], NEW m
  PROVE  [matches EXCEPT ![m].cleaned = TRUE] \in [Matches -> MatchRow]
<1> DEFINE r == [matches[m] EXCEPT !.cleaned = TRUE]
<1>1. CASE m \in Matches
  <2>1. r \in MatchRow
    BY <1>1 DEF MatchRow
  <2>2. [matches EXCEPT ![m].cleaned = TRUE] = [matches EXCEPT ![m] = r]
    OBVIOUS
  <2> QED
    BY <2>1, <2>2, RowWritten
<1>2. CASE m \notin Matches
  BY <1>2
<1> QED
  BY <1>1, <1>2

\* The tables other than the queue stay typed.
LEMMA TablesTyped ==
  ASSUME TypeOK, Next
  PROVE  /\ matches' \in [Matches -> MatchRow]
         /\ busyPorts' \subseteq Ports /\ busyTokens' \subseteq Tokens
         /\ server' \in [Matches -> ServerPhase]
         /\ client' \in [Players -> ClientState]
<1> USE DEF TypeOK, DatabaseTypeOK
<1>1. CASE LobbyStep
  BY <1>1 DEF LobbyStep, Join, Leave, Accept, Decline, PollAsks, PollRedirects,
    PollFindsNothing, ExpireStaleQueue, ForceStart, CancelQueue, QueueKick, lobbyOnly,
    SetClient, ClientState
<1>2. CASE ServerStep
  <2>1. PICK m \in Matches :
          \/ WritesWarmup(m) \/ GoesLive(m) \/ WarmupTimesOut(m) \/ MatchEnds(m)
          \/ \E p \in Players : PlayerConnects(m, p)
          \/ WebCancel(m) \/ WebCleanup(m)
    BY <1>2 DEF ServerStep
  <2>2. ASSUME NEW p \in Players, PlayerConnects(m, p)
        PROVE  matches' \in [Matches -> MatchRow]
    <3> DEFINE r == [matches[m] EXCEPT !.connected = @ \cup {p}]
    <3>1. r \in MatchRow
      BY <2>2 DEF PlayerConnects, MatchRow
    <3>2. matches' = [matches EXCEPT ![m] = r]
      BY <2>2 DEF PlayerConnects
    <3> QED
      BY <3>1, <3>2, RowWritten
  <2>3. CASE WarmupTimesOut(m) \/ WebCancel(m)
    <3>1. PICK x \in MatchStatus : SetStatus(m, x)
      BY <2>3 DEF WarmupTimesOut, WebCancel, MatchStatus
    <3> QED
      BY <2>3, <3>1, StatusWritten DEF WarmupTimesOut, WebCancel, SetStatus, serverOnly
  <2>4. CASE WritesWarmup(m) \/ GoesLive(m) \/ MatchEnds(m)
    <3>1. PICK x \in MatchStatus : SetStatus(m, x)
      BY <2>4 DEF WritesWarmup, GoesLive, MatchEnds, MatchStatus
    <3>2. server' \in [Matches -> ServerPhase]
      BY <2>4 DEF WritesWarmup, GoesLive, MatchEnds, ServerPhase
    <3> QED
      BY <2>4, <3>1, <3>2, StatusWritten DEF WritesWarmup, GoesLive, MatchEnds,
        SetStatus, serverOnly
  <2>5. CASE WebCleanup(m)
    BY <2>5, CleanedWritten DEF WebCleanup
  <2> QED
    BY <2>1, <2>2, <2>3, <2>4, <2>5 DEF PlayerConnects, serverOnly
<1>3. CASE DaemonStep
  <2> USE DEF DaemonTypeOK
  <2>1. CASE Crash \/ StatementFails
    BY <2>1 DEF Crash, StatementFails, dbVars
  <2>2. CASE \/ FindGroup \/ ClaimPort \/ ClaimGslt \/ UnclaimPort \/ AskGroup
             \/ ReadStale \/ ExpireCheckRest \/ ReadReady \/ ConfirmGroup
             \/ ErrorReleasesPort \/ ErrorReleasesGslt \/ ErrorRequeues
             \/ ErrorCancelsRest
    BY <2>2 DEF FindGroup, ClaimPort, ClaimGslt, UnclaimPort, AskGroup, ReadStale,
      ExpireCheckRest, ReadReady, ConfirmGroup, ErrorReleasesPort, ErrorReleasesGslt,
      ErrorRequeues, ErrorCancelsRest, RequeueAccepted, CancelRest, dbVars
  <2>3. CASE \/ ReadEnded \/ DestroyLoopEnds \/ CleanReleasesPort \/ CleanReleasesGslt
             \/ ExpireWaiting \/ ReadWarmups \/ WarmupDone \/ LoopEnds
    BY <2>3 DEF ReadEnded, DestroyLoopEnds, CleanReleasesPort, CleanReleasesGslt,
      ExpireWaiting, ReadWarmups, WarmupDone, LoopEnds, dbVars
  <2>4. CASE StartServer \/ StartFails
    BY <2>4 DEF StartServer, StartFails, dbVars, ServerPhase
  <2>5. CASE MarkError \/ CancelWarmup
    <3>1. PICK x \in MatchStatus : SetStatus(cur, x)
      BY <2>5 DEF MarkError, CancelWarmup, MatchStatus
    <3> QED
      BY <2>5, <3>1, StatusWritten DEF MarkError, CancelWarmup, SetStatus
  <2>6. CASE MarkCleaned
    BY <2>6, CleanedWritten DEF MarkCleaned
  <2>7. CASE RecordContainer
    <3> DEFINE r == [matches[cur] EXCEPT !.container = TRUE, !.status = "warmup"]
    <3>1. CASE cur \in Matches
      <4>1. r \in MatchRow
        BY <3>1 DEF MatchRow, MatchStatus
      <4>2. matches' = [matches EXCEPT ![cur] = r]
        BY <2>7 DEF RecordContainer
      <4> QED
        BY <2>7, <4>1, <4>2, RowWritten DEF RecordContainer
    <3>2. CASE cur \notin Matches
      BY <2>7, <3>2 DEF RecordContainer
    <3> QED
      BY <3>1, <3>2
  <2>8. ASSUME NEW m \in Matches, CreateMatch(m)
        PROVE  matches' \in [Matches -> MatchRow]
    <3> DEFINE r == [NoRow EXCEPT !.status = "creating", !.players = group,
                                  !.port = port, !.token = token]
    <3>1. NoRow \in MatchRow
      BY AttemptsAssumption DEF NoRow, MatchRow, MatchStatus
    <3>2. r \in MatchRow
      BY <3>1 DEF MatchRow, MatchStatus
    <3>3. matches' = [matches EXCEPT ![m] = r]
      BY <2>8 DEF CreateMatch
    <3> QED
      BY <3>2, <3>3, RowWritten
  <2>9. ASSUME NEW m \in Matches, CleanMatch(m)
        PROVE  matches' \in [Matches -> MatchRow]
    <3> DEFINE r == [matches[m] EXCEPT !.attempts = Attempts(m)]
    <3>1. Attempts(m) \in 0 .. MaxAttempts
      BY AttemptsAssumption DEF Attempts, MatchRow
    <3>2. r \in MatchRow
      BY <3>1 DEF MatchRow
    <3>3. matches' = [matches EXCEPT ![m] = r] \/ UNCHANGED matches
      BY <2>9 DEF CleanMatch
    <3> QED
      BY <3>2, <3>3, RowWritten
  <2>10. ASSUME NEW m \in Matches, CreateMatch(m) \/ CleanMatch(m)
        PROVE  UNCHANGED <<busyPorts, busyTokens, server, client>>
    BY <2>10 DEF CreateMatch, CleanMatch
  <2>11. ASSUME NEW m \in Matches,
               ExpireCheck(m) \/ ReadMatch(m) \/ ReadConnected(m)
        PROVE  UNCHANGED <<matches, busyPorts, busyTokens, server, client>>
    BY <2>11 DEF ExpireCheck, RequeueAccepted, ReadMatch, ReadConnected, dbVars
  <2>12. ASSUME NEW m \in Matches, DestroyServer(m)
         PROVE  /\ server' \in [Matches -> ServerPhase]
                /\ UNCHANGED <<matches, busyPorts, busyTokens, client>>
    BY <2>12 DEF DestroyServer, dbVars, ServerPhase
  <2>13. ASSUME NEW p \in Players, MoveMatchedRow(p)
         PROVE  UNCHANGED <<matches, busyPorts, busyTokens, server, client>>
    BY <2>13 DEF MoveMatchedRow
  <2> QED
    BY <1>3, <2>1, <2>2, <2>3, <2>4, <2>5, <2>6, <2>7, <2>8, <2>9, <2>10, <2>11, <2>12,
      <2>13 DEF DaemonStep, Tick
<1> QED
  BY <1>1, <1>2, <1>3 DEF Next

\* The daemon's locals stay typed.
LEMMA LocalsTyped ==
  ASSUME TypeOK, Next
  PROVE  DaemonTypeOK'
<1> USE DEF TypeOK, DaemonTypeOK, Goto
<1>1. CASE UNCHANGED daemonVars
  BY <1>1 DEF daemonVars, locals
<1>2. CASE Crash
  BY <1>2 DEF Crash, Forget, PC
<1>3. CASE StatementFails
  <2>1. Handler(pc) \in PC
    BY <1>3 DEF StatementFails, Raises, Handler, PC
  <2> QED
    BY <1>3, <2>1 DEF StatementFails, Forget
<1>4. CASE FindGroup
  <2>1. group' \subseteq Players
    BY <1>4 DEF FindGroup, DatabaseTypeOK, RowsIn, Row
  <2> QED
    BY <1>4, <2>1 DEF FindGroup, PC
<1>5. CASE ClaimPort \/ ClaimGslt \/ UnclaimPort \/ AskGroup
  BY <1>5 DEF ClaimPort, ClaimGslt, UnclaimPort, AskGroup, Forget, PC
<1>6. ASSUME NEW m \in Matches, CreateMatch(m) \/ ReadMatch(m)
      PROVE  DaemonTypeOK'
  BY <1>6 DEF CreateMatch, ReadMatch, PC
<1>7. CASE ReadStale \/ ReadReady
  <2>1. OpenChecks(queue) \subseteq Matches /\ FullyReady(queue) \subseteq Matches
    BY DEF OpenChecks, FullyReady, DatabaseTypeOK, RowsIn, Row
  <2> QED
    BY <1>7, <2>1 DEF ReadStale, ReadReady, PC
<1>8. ASSUME NEW m \in Matches, ExpireCheck(m) PROVE DaemonTypeOK'
  BY <1>8 DEF ExpireCheck, RequeueAccepted, PC
<1>9. CASE ExpireCheckRest \/ ErrorRequeues \/ ErrorCancelsRest
  BY <1>9 DEF ExpireCheckRest, ErrorRequeues, ErrorCancelsRest, RequeueAccepted, CancelRest, PC
<1>10. CASE StartServer \/ StartFails \/ RecordContainer \/ ConfirmGroup \/ MarkError
            \/ ErrorReleasesPort \/ ErrorReleasesGslt
  BY <1>10 DEF StartServer, StartFails, RecordContainer, ConfirmGroup, MarkError,
    ErrorReleasesPort, ErrorReleasesGslt, locals, PC
<1>11. CASE ReadEnded \/ DestroyLoopEnds \/ MarkCleaned \/ CleanReleasesPort
            \/ CleanReleasesGslt
  BY <1>11 DEF ReadEnded, DestroyLoopEnds, MarkCleaned, CleanReleasesPort,
    CleanReleasesGslt, locals, PC
<1>12. ASSUME NEW m \in Matches, DestroyServer(m) \/ CleanMatch(m) \/ ReadConnected(m)
       PROVE  DaemonTypeOK'
  <2>1. matches[m].players \subseteq Players
    BY DEF DatabaseTypeOK, MatchRow
  <2> QED
    BY <1>12, <2>1 DEF DestroyServer, CleanMatch, ReadConnected, PC
<1>13. CASE ExpireWaiting \/ ReadWarmups \/ CancelWarmup \/ WarmupDone \/ LoopEnds
  BY <1>13 DEF ExpireWaiting, ReadWarmups, CancelWarmup, WarmupDone, LoopEnds, NextStep,
    Forget, locals, PC
<1>14. ASSUME NEW p \in Players, MoveMatchedRow(p) PROVE DaemonTypeOK'
  BY <1>14 DEF MoveMatchedRow, PC
<1> QED
  BY <1>1, <1>2, <1>3, <1>4, <1>5, <1>6, <1>7, <1>8, <1>9, <1>10, <1>11, <1>12, <1>13,
    <1>14 DEF Next, DaemonStep, Tick

\* How the thread enters step 3 and moves in it: the rows it visits are those
\* the SELECT of fully ready checks found.
LEMMA Step3Control ==
  ASSUME TypeOK, Next, pc' \in Step3
  PROVE  /\ ~AskGroup
         /\ \/ pc = "read_ready" /\ todo' = FullyReady(queue) /\ UNCHANGED queue
            \/ pc \in Step3 /\ todo' \subseteq todo
         /\ pc' \in Starting =>
              \/ pc \in Starting /\ cur' = cur
              \/ pc = "ready" /\ cur' \in todo /\ UNCHANGED queue
         /\ pc' = "set_matched" => pc = "set_matched" \/ RecordContainer
<1> USE DEF Step3, Starting, Erring, Goto
<1>1. CASE UNCHANGED daemonVars
  BY <1>1 DEF daemonVars, locals, AskGroup
<1>2. CASE Crash
  BY <1>2 DEF Crash
<1>3. CASE StatementFails
  <2>1. pc \in {"set_matched", "err_cancel", "ready"} \/ pc' \notin Step3
    BY <1>3 DEF StatementFails, Raises, Handler
  <2>2. Handler(pc) = "ready"
    BY <1>3, <2>1 DEF StatementFails, Raises, Handler
  <2> QED
    BY <1>3, <2>1, <2>2 DEF StatementFails, KeepsLoop, AskGroup, dbVars
<1>4. CASE FindGroup \/ ClaimPort \/ ClaimGslt \/ UnclaimPort \/ AskGroup
           \/ ReadStale \/ ExpireCheckRest
  BY <1>4 DEF FindGroup, ClaimPort, ClaimGslt, UnclaimPort, AskGroup, ReadStale,
    ExpireCheckRest, CancelRest
<1>5. CASE ReadReady
  BY <1>5 DEF ReadReady, AskGroup, dbVars
<1>6. CASE \E m \in Matches : ReadMatch(m)
  BY <1>6 DEF ReadMatch, AskGroup, dbVars
<1>7. CASE StartServer \/ StartFails \/ RecordContainer \/ ConfirmGroup
  BY <1>7 DEF StartServer, StartFails, RecordContainer, ConfirmGroup, AskGroup, locals
<1>8. CASE \/ MarkError \/ ErrorReleasesPort \/ ErrorReleasesGslt
           \/ ErrorRequeues \/ ErrorCancelsRest
  BY <1>8 DEF MarkError, ErrorReleasesPort, ErrorReleasesGslt, ErrorRequeues,
    ErrorCancelsRest, RequeueAccepted, CancelRest, AskGroup, locals
<1>9. CASE \/ ReadEnded \/ DestroyLoopEnds \/ MarkCleaned \/ CleanReleasesPort
           \/ CleanReleasesGslt \/ ExpireWaiting \/ ReadWarmups \/ CancelWarmup
           \/ WarmupDone
  BY <1>9 DEF ReadEnded, DestroyLoopEnds, MarkCleaned, CleanReleasesPort,
    CleanReleasesGslt, ExpireWaiting, ReadWarmups, CancelWarmup, WarmupDone, locals
<1>10. CASE LoopEnds
  BY <1>10 DEF LoopEnds, NextStep
<1>11. CASE \E m \in Matches : \/ CreateMatch(m) \/ ExpireCheck(m) \/ DestroyServer(m)
                               \/ CleanMatch(m) \/ ReadConnected(m)
  BY <1>11 DEF CreateMatch, ExpireCheck, RequeueAccepted, DestroyServer, CleanMatch,
    ReadConnected
<1>12. CASE \E p \in Players : MoveMatchedRow(p)
  BY <1>12 DEF MoveMatchedRow
<1> QED
  BY <1>1, <1>2, <1>3, <1>4, <1>5, <1>6, <1>7, <1>8, <1>9, <1>10, <1>11, <1>12
  DEF Next, DaemonStep, Tick

\* The rows of a complete check stay complete through every step but AskGroup.
LEMMA Step3Kept ==
  ASSUME ConsentInv, Next
  PROVE  Step3OK'
<1> SUFFICES ASSUME pc' \in Step3
             PROVE  /\ \A m \in todo' : Complete(m)'
                    /\ pc' \in Starting => cur' \in Matches /\ Complete(cur)'
  BY DEF Step3OK, Step3, Starting
<1>1. TypeOK /\ Step3OK /\ queue \in SUBSET Row
  BY DEF ConsentInv, TypeOK, DatabaseTypeOK
<1>2. \A m \in Matches : Complete(m) /\ ~AskGroup => Complete(m)'
  BY QueueStep, StaysReady DEF Complete
<1>3. /\ ~AskGroup
      /\ \/ pc = "read_ready" /\ todo' = FullyReady(queue) /\ UNCHANGED queue
         \/ pc \in Step3 /\ todo' \subseteq todo
      /\ pc' \in Starting =>
           \/ pc \in Starting /\ cur' = cur
           \/ pc = "ready" /\ cur' \in todo /\ UNCHANGED queue
  BY <1>1, Step3Control
<1>4. todo \subseteq Matches /\ cur \in Matches \cup {NoMatch} /\ todo' \subseteq Matches
  BY <1>1, LocalsTyped DEF TypeOK, DaemonTypeOK
<1>5. \A m \in todo' : Complete(m)'
  <2>1. CASE pc = "read_ready" /\ todo' = FullyReady(queue) /\ UNCHANGED queue
    BY <2>1 DEF FullyReady, Complete
  <2>2. CASE pc \in Step3 /\ todo' \subseteq todo
    BY <2>2, <1>1, <1>2, <1>3, <1>4 DEF Step3OK
  <2> QED
    BY <1>3, <2>1, <2>2
<1>6. ASSUME pc' \in Starting PROVE cur' \in Matches /\ Complete(cur)'
  <2>1. CASE pc \in Starting /\ cur' = cur
    BY <2>1, <1>1, <1>2, <1>3, <1>4 DEF Step3OK, Complete
  <2>2. CASE pc = "ready" /\ cur' \in todo /\ UNCHANGED queue
    BY <2>2, <1>1, <1>4 DEF Step3OK, Complete, Step3
  <2> QED
    BY <1>3, <1>6, <2>1, <2>2
<1> QED
  BY <1>5, <1>6

\* A container once recorded stays recorded, in a match that exists.
LEMMA ContainersStay ==
  ASSUME TypeOK, Next, \A m \in Matches : matches[m].container => matches[m].status # "none"
  PROVE  \A m \in Matches :
           /\ matches[m].container => matches'[m].container
           /\ matches'[m].container => matches'[m].status # "none"
<1>0. matches \in [Matches -> MatchRow]
  BY DEF TypeOK, DatabaseTypeOK
<1>1. CASE UNCHANGED matches
  BY <1>1
<1>2. ASSUME NEW k, NEW x \in MatchStatus, x # "none", SetStatus(k, x)
      PROVE  \A m \in Matches :
               /\ matches[m].container => matches'[m].container
               /\ matches'[m].container => matches'[m].status # "none"
  BY <1>0, <1>2 DEF SetStatus, MatchRow
<1>3. CASE ServerStep
  <2>1. PICK m \in Matches :
          \/ WritesWarmup(m) \/ GoesLive(m) \/ WarmupTimesOut(m) \/ MatchEnds(m)
          \/ \E p \in Players : PlayerConnects(m, p)
          \/ WebCancel(m) \/ WebCleanup(m)
    BY <1>3 DEF ServerStep
  <2>2. CASE \/ WritesWarmup(m) \/ GoesLive(m) \/ WarmupTimesOut(m) \/ MatchEnds(m)
             \/ WebCancel(m)
    <3>1. PICK x \in MatchStatus : x # "none" /\ SetStatus(m, x)
      BY <2>2 DEF WritesWarmup, GoesLive, WarmupTimesOut, MatchEnds, WebCancel, MatchStatus
    <3> QED
      BY <3>1, <1>2
  <2>3. CASE WebCleanup(m) \/ \E p \in Players : PlayerConnects(m, p)
    BY <1>0, <2>3 DEF WebCleanup, PlayerConnects, MatchRow
  <2> QED
    BY <2>1, <2>2, <2>3
<1>4. CASE MarkError \/ CancelWarmup
  <2>1. PICK x \in MatchStatus : x # "none" /\ SetStatus(cur, x)
    BY <1>4 DEF MarkError, CancelWarmup, MatchStatus
  <2> QED
    BY <2>1, <1>2
<1>5. CASE RecordContainer
  BY <1>0, <1>5 DEF RecordContainer, MatchRow
<1>6. ASSUME NEW k \in Matches, CreateMatch(k)
      PROVE  \A m \in Matches :
               /\ matches[m].container => matches'[m].container
               /\ matches'[m].container => matches'[m].status # "none"
  BY <1>0, <1>6 DEF CreateMatch, NextMatch, NoRow, MatchRow
<1>7. CASE MarkCleaned \/ \E k \in Matches : CleanMatch(k)
  BY <1>0, <1>7 DEF MarkCleaned, CleanMatch, MatchRow
<1>8. CASE LobbyStep
  BY <1>1, <1>8 DEF LobbyStep, Join, Leave, Accept, Decline, PollAsks, PollRedirects,
    PollFindsNothing, ExpireStaleQueue, ForceStart, CancelQueue, QueueKick, lobbyOnly
<1>9. CASE \/ Crash \/ StatementFails
           \/ FindGroup \/ ClaimPort \/ ClaimGslt \/ UnclaimPort \/ AskGroup
           \/ ReadStale \/ ExpireCheckRest \/ ReadReady \/ StartServer \/ StartFails
           \/ ConfirmGroup
  BY <1>1, <1>9 DEF Crash, StatementFails, FindGroup, ClaimPort, ClaimGslt, UnclaimPort,
    AskGroup, ReadStale, ExpireCheckRest, ReadReady, StartServer, StartFails,
    ConfirmGroup, CancelRest, dbVars
<1>10. CASE \/ ErrorReleasesPort \/ ErrorReleasesGslt \/ ErrorRequeues \/ ErrorCancelsRest
            \/ ReadEnded \/ DestroyLoopEnds \/ CleanReleasesPort \/ CleanReleasesGslt
            \/ ExpireWaiting \/ ReadWarmups \/ WarmupDone \/ LoopEnds
  BY <1>1, <1>10 DEF ErrorReleasesPort, ErrorReleasesGslt, ErrorRequeues,
    ErrorCancelsRest, RequeueAccepted, CancelRest, ReadEnded, DestroyLoopEnds,
    CleanReleasesPort, CleanReleasesGslt, ExpireWaiting, ReadWarmups, WarmupDone,
    LoopEnds, dbVars
<1>11. CASE \/ \E m \in Matches : \/ ExpireCheck(m) \/ ReadMatch(m) \/ DestroyServer(m)
                                  \/ ReadConnected(m)
            \/ \E p \in Players : MoveMatchedRow(p)
  BY <1>1, <1>11 DEF ExpireCheck, RequeueAccepted, ReadMatch, DestroyServer,
    ReadConnected, MoveMatchedRow, dbVars
<1> QED
  BY <1>3, <1>4, <1>5, <1>6, <1>7, <1>8, <1>9, <1>10, <1>11 DEF Next, DaemonStep, Tick

\* Whoever is matched has a container, and so has whoever is about to be.
LEMMA ContainersKept ==
  ASSUME ConsentInv, Next
  PROVE  ContainersOK'
<1>1. TypeOK /\ Step3OK /\ ContainersOK
  BY DEF ConsentInv
<1>2. \A m \in Matches : /\ matches[m].container => matches'[m].container
                         /\ matches'[m].container => matches'[m].status # "none"
  BY <1>1, ContainersStay DEF ContainersOK
<1>3. ASSUME pc' = "set_matched" PROVE matches'[cur'].container
  <2>1. pc \in Starting => cur \in Matches
    BY <1>1 DEF Step3OK
  <2>2. CASE RecordContainer
    <3>1. cur \in Matches /\ cur' = cur /\ matches \in [Matches -> MatchRow]
      BY <1>1, <2>1, <2>2 DEF RecordContainer, Starting, locals, TypeOK, DatabaseTypeOK
    <3> QED
      BY <2>2, <3>1 DEF RecordContainer, MatchRow
  <2>3. CASE pc = "set_matched" /\ ~RecordContainer
    <3>1. cur' = cur
      BY <1>1, <1>3, <2>3, Step3Control DEF Step3, Starting
    <3> QED
      BY <1>1, <1>2, <2>1, <2>3, <3>1 DEF ContainersOK, Starting
  <2> QED
    BY <1>1, <1>3, <2>2, <2>3, Step3Control DEF Step3, Starting
<1>4. ASSUME NEW r \in RowsIn(queue', "matched")
      PROVE  r.match \in Matches /\ matches'[r.match].container
  <2>1. CASE r \in RowsIn(queue, "matched")
    BY <1>1, <1>2, <2>1 DEF ContainersOK
  <2>2. CASE ConfirmGroup /\ r.match = cur
    BY <1>1, <1>2, <2>2 DEF ConfirmGroup, Step3OK, Starting, ContainersOK
  <2> QED
    BY <1>4, <2>1, <2>2, QueueStep
<1> QED
  BY <1>2, <1>3, <1>4 DEF ContainersOK

-----------------------------------------------------------------------------
(* The invariant and what follows from it.                                 *)

LEMMA ConsentInit == Init => ConsentInv
<1> SUFFICES ASSUME Init PROVE ConsentInv
  OBVIOUS
<1> USE DEF Init, DatabaseInit, DaemonInit
<1>1. NoRow \in MatchRow
  BY AttemptsAssumption DEF NoRow, MatchRow, MatchStatus
<1>2. TypeOK
  BY <1>1 DEF TypeOK, DatabaseTypeOK, DaemonTypeOK, ServerPhase, ClientState, PC
<1>3. RowsOK(queue) /\ Step3OK
  BY DEF RowsOK, RowsIn, Step3OK, Step3, Starting, Erring
<1>4. ContainersOK
  BY DEF ContainersOK, NoRow, RowsIn
<1> QED
  BY <1>2, <1>3, <1>4 DEF ConsentInv

LEMMA ConsentNext == ConsentInv /\ [Next]_vars => ConsentInv'
<1> SUFFICES ASSUME ConsentInv, [Next]_vars PROVE ConsentInv'
  OBVIOUS
<1>1. CASE Next
  <2>1. TypeOK'
    BY <1>1, QueueStep, TablesTyped, LocalsTyped DEF ConsentInv, TypeOK, DatabaseTypeOK
  <2>2. RowsOK(queue)'
    BY <1>1, QueueStep
  <2> QED
    BY <1>1, <2>1, <2>2, Step3Kept, ContainersKept DEF ConsentInv
<1>2. CASE UNCHANGED vars
  BY <1>2 DEF vars, ConsentInv, TypeOK, DatabaseTypeOK, DaemonTypeOK, Step3OK, Complete,
    ContainersOK
<1> QED
  BY <1>1, <1>2

\* The inductive invariant holds in every instance and under every fault.
THEOREM ConsentInvariant == Spec => []ConsentInv
BY ConsentInit, ConsentNext, PTL DEF Spec

\* Every variable keeps its type.
THEOREM TypeCorrect == Spec => []TypeOK
<1>1. ConsentInv => TypeOK
  BY DEF ConsentInv
<1> QED
  BY <1>1, ConsentInvariant, PTL

\* Whoever is sent to a server has accepted the ready check, whatever the
\* players, the administrators and the faults do between the daemon's SELECT
\* of fully ready checks and its UPDATE of their rows.
THEOREM ConsentCorrect == Spec => []ConsentToMatch
<1>1. ConsentInv => ConsentToMatch
  BY DEF ConsentInv, RowsOK, ConsentToMatch, RowsIn
<1> QED
  BY <1>1, ConsentInvariant, PTL

\* Whoever is sent to a match finds its container recorded.
THEOREM MatchedHasServerCorrect == Spec => []MatchedHasServer
<1>1. ConsentInv => MatchedHasServer
  BY DEF ConsentInv, ContainersOK, MatchedHasServer
<1> QED
  BY <1>1, ConsentInvariant, PTL

\* Only StartServer makes a server run.
LEMMA OnlyStartServerStarts ==
  ASSUME TypeOK, Next, NEW m \in Matches, ~Runs(m), Runs(m)'
  PROVE  StartServer /\ m = cur
<1> USE DEF Runs
<1>0. server \in [Matches -> ServerPhase]
  BY DEF TypeOK, DatabaseTypeOK
<1>1. server'[m] # server[m]
  OBVIOUS
<1>2. CASE ServerStep
  BY <1>0, <1>1, <1>2 DEF ServerStep, WritesWarmup, GoesLive, WarmupTimesOut, MatchEnds,
    PlayerConnects, WebCancel, WebCleanup, SetStatus
<1>3. CASE LobbyStep
  BY <1>1, <1>3 DEF LobbyStep, Join, Leave, Accept, Decline, PollAsks, PollRedirects,
    PollFindsNothing, ExpireStaleQueue, ForceStart, CancelQueue, QueueKick, lobbyOnly
<1>4. CASE StartServer
  BY <1>0, <1>1, <1>4 DEF StartServer
<1>5. CASE StartFails \/ \E k \in Matches : DestroyServer(k)
  BY <1>0, <1>1, <1>5 DEF StartFails, DestroyServer
<1>6. CASE \/ Crash \/ StatementFails
           \/ FindGroup \/ ClaimPort \/ ClaimGslt \/ UnclaimPort \/ AskGroup
           \/ ReadStale \/ ExpireCheckRest \/ ReadReady \/ RecordContainer
           \/ ConfirmGroup \/ MarkError
  BY <1>1, <1>6 DEF Crash, StatementFails, FindGroup, ClaimPort, ClaimGslt, UnclaimPort,
    AskGroup, ReadStale, ExpireCheckRest, ReadReady, RecordContainer, ConfirmGroup,
    MarkError, CancelRest
<1>7. CASE \/ ErrorReleasesPort \/ ErrorReleasesGslt \/ ErrorRequeues \/ ErrorCancelsRest
           \/ ReadEnded \/ DestroyLoopEnds \/ MarkCleaned \/ CleanReleasesPort
           \/ CleanReleasesGslt \/ ExpireWaiting \/ ReadWarmups \/ CancelWarmup
           \/ WarmupDone \/ LoopEnds
  BY <1>1, <1>7 DEF ErrorReleasesPort, ErrorReleasesGslt, ErrorRequeues,
    ErrorCancelsRest, RequeueAccepted, CancelRest, ReadEnded, DestroyLoopEnds,
    MarkCleaned, CleanReleasesPort, CleanReleasesGslt, ExpireWaiting, ReadWarmups,
    CancelWarmup, WarmupDone, LoopEnds
<1>8. CASE \/ \E k \in Matches : \/ CreateMatch(k) \/ ExpireCheck(k) \/ ReadMatch(k)
                                 \/ CleanMatch(k) \/ ReadConnected(k)
           \/ \E p \in Players : MoveMatchedRow(p)
  BY <1>1, <1>8 DEF CreateMatch, ExpireCheck, RequeueAccepted, ReadMatch, CleanMatch,
    ReadConnected, MoveMatchedRow
<1> QED
  BY <1>2, <1>3, <1>4, <1>5, <1>6, <1>7, <1>8 DEF Next, DaemonStep, Tick

\* A server starts only for a ready check nobody still has to answer.
THEOREM ServerForTheReadyCorrect == Spec => ServerForTheReady
<1> DEFINE Act == \A m \in Matches : ~Runs(m) /\ Runs(m)' => UnreadyRows(queue, m) = {}
<1>1. ConsentInv /\ [Next]_vars => [Act]_vars
  <2> SUFFICES ASSUME ConsentInv, Next, NEW m \in Matches, ~Runs(m), Runs(m)'
               PROVE  UnreadyRows(queue, m) = {}
    OBVIOUS
  <2>1. StartServer /\ m = cur
    BY OnlyStartServerStarts DEF ConsentInv
  <2> QED
    BY <2>1 DEF StartServer, ConsentInv, Step3OK, Starting, Complete
<1> QED
  BY <1>1, ConsentInvariant, PTL DEF Spec, ServerForTheReady

-----------------------------------------------------------------------------
(***************************************************************************)
(* The pool of ports and tokens, for every instance of Matchmaking whose   *)
(* only faults are those of Docker: no two matches share a port or token,  *)
(* a match in use keeps both, none leaks, and the pipeline implements      *)
(* PortLease.                                                              *)
(*                                                                         *)
(* None of the three is inductive.  Step 3 releases the port of a match it *)
(* could not start long before step 5 marks the match clean; that this     *)
(* gives the port to nobody else in between is a fact about the order of   *)
(* the whole tick, and Sweep below says it.                                *)
(***************************************************************************)

\* The instances the theorems are about: README, section 3, says how each of
\* the other faults breaks the pool's promise.
DockerFaultsOnly == Faults \subseteq {"docker"}

\* The daemon has a port, and a token, in its hands and no match has it yet.
PortInHand == {"claim_gslt", "unclaim_port", "create_match"}

\* Step 5 once every container was visited.
Cleaning == {"clean", "clean_mark", "clean_port", "clean_gslt"}

Unstarted == {"none", "creating"}

\* A match has a port and a token of the pool.  Unless it failed to start, both
\* are marked in use, and no other match has either.
Leases ==
  /\ LeaseExclusive
  /\ \A m \in Matches : Holds(m) =>
       /\ matches[m].port \in Ports /\ matches[m].token \in Tokens
       /\ matches[m].status # "error" =>
            matches[m].port \in busyPorts /\ matches[m].token \in busyTokens

\* What the daemon has claimed, or is about to release, is no match's.
Hands ==
  /\ port # None <=> pc \in PortInHand
  /\ token # None <=> pc = "create_match"
  /\ port # None => port \in busyPorts /\ \A m \in Matches : Holds(m) => matches[m].port # port
  /\ token # None => token \in busyTokens /\ \A m \in Matches : Holds(m) => matches[m].token # token
  /\ pc = "clean_port" =>
       \A m \in Matches : Holds(m) => matches[m].port # matches[cur].port
  /\ pc \in {"clean_port", "clean_gslt"} =>
       \A m \in Matches : Holds(m) => matches[m].token # matches[cur].token

\* The status of a match against its container: the record of a container is
\* late by one transaction, and a match that failed to start has none.
Starts ==
  \A m \in Matches :
    /\ matches[m].status \in Unstarted =>
         /\ ~matches[m].cleaned /\ ~matches[m].container /\ matches[m].attempts = 0
         /\ \/ server[m] = "absent"
            \/ cur = m /\ pc = "record"
            \/ cur = m /\ pc = "err_status" /\ server[m] = "stopped"
    /\ matches[m].status = "error" => ~matches[m].container /\ ~Runs(m)
    /\ matches[m].status \notin Unstarted \cup {"error"} =>
         matches[m].container \/ (cur = m /\ pc = "record")

\* What the thread knows of the match it works on in steps 3 and 7.
Thread ==
  /\ pc \in Erring => cur \in Matches
  /\ pc \in {"create_server", "err_status"} => matches[cur].status = "creating"
  /\ pc = "record" => matches[cur].status \notin {"none", "error"}
  /\ pc \in Erring \ {"err_status"} => matches[cur].status = "error" /\ Holds(cur)
  /\ pc \in {"warmups", "warmup_cancel", "warmup_rows"} =>
       \A m \in todo : matches[m].container
  /\ pc = "warmup_cancel" => cur \in Matches /\ matches[cur].container

\* Step 5: the matches it found still hold their leases until it marks them,
\* and every match that failed to start is among them before step 1 returns.
Sweep ==
  /\ pc = "destroy" =>
       /\ todo \subseteq ended
       /\ \A m \in ended : Holds(m) /\ matches[m].status # "creating"
  /\ pc \in Cleaning => \A m \in todo : Holds(m) /\ matches[m].status # "creating"
  /\ pc \in Cleaning \ {"clean"} => cur \in Matches \ todo /\ matches[cur].status \notin Unstarted
  /\ pc = "clean_mark" => Holds(cur) /\ (~Runs(cur) \/ matches[cur].attempts = MaxAttempts)
  /\ pc \notin Cleaning \cup {"destroy"} => gone = {}
  /\ \A m \in gone : server[m] = "absent"
  /\ \A m \in Matches : Holds(m) /\ matches[m].status = "error" =>
       \/ pc \in Step3 \cup {"read_ended"}
       \/ pc = "destroy" /\ m \in ended
       \/ pc \in Cleaning /\ m \in todo
       \/ pc = "clean_mark" /\ m = cur

LeaseInv == Leases /\ LeaseAccounted /\ Hands /\ Starts /\ Thread /\ Sweep

-----------------------------------------------------------------------------
(* What a step does to the tables.                                         *)

\* An UPDATE of the status of one match changes nothing else.
LEMMA StatusRow ==
  ASSUME matches \in [Matches -> MatchRow], NEW k, NEW x, SetStatus(k, x)
  PROVE  \A m \in Matches :
           /\ m # k => matches'[m] = matches[m]
           /\ m = k => matches'[m].status = x
           /\ matches'[m].port = matches[m].port
           /\ matches'[m].token = matches[m].token
           /\ matches'[m].cleaned = matches[m].cleaned
           /\ matches'[m].container = matches[m].container
           /\ matches'[m].attempts = matches[m].attempts
BY DEF SetStatus, MatchRow

\* The row of a match that is created.
LEMMA CreatedRow ==
  ASSUME matches \in [Matches -> MatchRow], NEW k \in Matches, CreateMatch(k)
  PROVE  /\ \A m \in Matches : m # k => matches'[m] = matches[m]
         /\ matches'[k].status = "creating" /\ ~matches'[k].cleaned
         /\ matches'[k].port = port /\ matches'[k].token = token
         /\ ~matches'[k].container /\ matches'[k].attempts = 0
         /\ matches[k].status = "none"
BY DEF CreateMatch, NextMatch, NoRow

\* update_match_container.
LEMMA RecordedRow ==
  ASSUME matches \in [Matches -> MatchRow], RecordContainer
  PROVE  \A m \in Matches :
           /\ m # cur => matches'[m] = matches[m]
           /\ m = cur => matches'[m].status = "warmup" /\ matches'[m].container
           /\ matches'[m].port = matches[m].port
           /\ matches'[m].token = matches[m].token
           /\ matches'[m].cleaned = matches[m].cleaned
           /\ matches'[m].attempts = matches[m].attempts
BY DEF RecordContainer, MatchRow

\* mark_match_cleaned.
LEMMA MarkedRow ==
  ASSUME matches \in [Matches -> MatchRow], MarkCleaned
  PROVE  \A m \in Matches :
           /\ m # cur => matches'[m] = matches[m]
           /\ m = cur => matches'[m].cleaned
           /\ matches'[m].port = matches[m].port
           /\ matches'[m].token = matches[m].token
           /\ matches'[m].status = matches[m].status
           /\ matches'[m].container = matches[m].container
           /\ matches'[m].attempts = matches[m].attempts
BY DEF MarkCleaned, MatchRow

\* A refused removal, and a player who connects, change no lease.
LEMMA CountedRow ==
  ASSUME matches \in [Matches -> MatchRow], NEW k \in Matches,
         CleanMatch(k) \/ \E p \in Players : PlayerConnects(k, p)
  PROVE  \A m \in Matches :
           /\ m # k => matches'[m] = matches[m]
           /\ matches'[m].port = matches[m].port
           /\ matches'[m].token = matches[m].token
           /\ matches'[m].status = matches[m].status
           /\ matches'[m].cleaned = matches[m].cleaned
           /\ matches'[m].container = matches[m].container
<1>1. CASE CleanMatch(k)
  BY <1>1 DEF CleanMatch, MatchRow
<1>2. CASE \E p \in Players : PlayerConnects(k, p)
  BY <1>2 DEF PlayerConnects, MatchRow
<1> QED
  BY <1>1, <1>2

-----------------------------------------------------------------------------
(* The steps, by what they do to the pool.                                 *)

\* What a game server writes into the status of its match.
Played == {"warmup", "live", "cancelled", "finished"}

PlaysOn(m, x) ==
  /\ Runs(m) /\ SetStatus(m, x)
  /\ Runs(m)' /\ \A k \in Matches : k # m => server'[k] = server[k]
  /\ UNCHANGED <<busyPorts, busyTokens, daemonVars>>

\* The steps that write the tables of the pool.
PoolStep ==
  \/ ClaimPort \/ ClaimGslt \/ UnclaimPort
  \/ \E m \in Matches : CreateMatch(m)
  \/ RecordContainer \/ MarkError \/ ErrorReleasesPort \/ ErrorReleasesGslt
  \/ \E m \in Matches : CleanMatch(m)
  \/ MarkCleaned \/ CleanReleasesPort \/ CleanReleasesGslt \/ CancelWarmup

\* Without the commands of an administrator, a game server's step writes one of
\* Played or counts a player who connects.
LEMMA ServerEffect ==
  ASSUME TypeOK, DockerFaultsOnly, ServerStep, UNCHANGED daemonVars
  PROVE  \/ \E m \in Matches, x \in Played : PlaysOn(m, x)
         \/ \E m \in Matches, p \in Players :
              PlayerConnects(m, p) /\ UNCHANGED <<busyPorts, busyTokens, server>>
<1>1. server \in [Matches -> ServerPhase]
  BY DEF TypeOK, DatabaseTypeOK
<1>2. PICK m \in Matches :
        \/ WritesWarmup(m) \/ GoesLive(m) \/ WarmupTimesOut(m) \/ MatchEnds(m)
        \/ \E p \in Players : PlayerConnects(m, p)
  BY DEF ServerStep, WebCancel, WebCleanup, DockerFaultsOnly
<1>3. CASE WritesWarmup(m)
  <2>1. PlaysOn(m, "warmup")
    BY <1>1, <1>3 DEF WritesWarmup, PlaysOn, Runs, serverOnly
  <2> QED
    BY <2>1 DEF Played
<1>4. CASE GoesLive(m)
  <2>1. PlaysOn(m, "live")
    BY <1>1, <1>4 DEF GoesLive, PlaysOn, Runs, serverOnly
  <2> QED
    BY <2>1 DEF Played
<1>5. CASE WarmupTimesOut(m)
  <2>1. PlaysOn(m, "cancelled")
    BY <1>1, <1>5 DEF WarmupTimesOut, PlaysOn, Runs, serverOnly
  <2> QED
    BY <2>1 DEF Played
<1>6. CASE MatchEnds(m)
  <2>1. PlaysOn(m, "finished")
    BY <1>1, <1>6 DEF MatchEnds, PlaysOn, Runs, serverOnly
  <2> QED
    BY <2>1 DEF Played
<1>7. CASE \E p \in Players : PlayerConnects(m, p)
  BY <1>7 DEF PlayerConnects, serverOnly
<1> QED
  BY <1>2, <1>3, <1>4, <1>5, <1>6, <1>7

\* The calls of Docker.
HostStep == StartServer \/ StartFails \/ \E m \in Matches : DestroyServer(m)

\* The daemon's steps that only read, write the queue, or go on.
Moves ==
  \/ FindGroup \/ AskGroup \/ ReadStale \/ ExpireCheckRest \/ ReadReady
  \/ ConfirmGroup \/ ErrorRequeues \/ ErrorCancelsRest
  \/ ReadEnded \/ DestroyLoopEnds \/ ExpireWaiting \/ ReadWarmups \/ WarmupDone
  \/ LoopEnds
  \/ \E m \in Matches : ExpireCheck(m) \/ ReadMatch(m) \/ ReadConnected(m)

\* What the invariant speaks of.
leaseVars == <<matches, busyPorts, busyTokens, server,
               pc, port, token, todo, ended, gone, cur>>

\* Every step is of one of these kinds.
LEMMA StepKinds ==
  ASSUME TypeOK, DockerFaultsOnly, Next
  PROVE  \/ UNCHANGED leaseVars
         \/ Moves \/ HostStep \/ PoolStep
         \/ \E m \in Matches, x \in Played : PlaysOn(m, x)
         \/ \E m \in Matches, p \in Players :
              PlayerConnects(m, p) /\ UNCHANGED <<busyPorts, busyTokens, server, daemonVars>>
<1>1. CASE LobbyStep /\ UNCHANGED daemonVars
  BY <1>1 DEF LobbyStep, Join, Leave, Accept, Decline, PollAsks, PollRedirects,
    PollFindsNothing, ExpireStaleQueue, ForceStart, CancelQueue, QueueKick, lobbyOnly,
    daemonVars, locals, leaseVars
<1>2. CASE ServerStep /\ UNCHANGED daemonVars
  BY <1>2, ServerEffect
<1>3. CASE Crash \/ StatementFails
  BY <1>3 DEF Crash, StatementFails, DockerFaultsOnly
<1>4. CASE \E p \in Players : MoveMatchedRow(p)
  BY <1>4 DEF MoveMatchedRow, leaseVars
<1> QED
  BY <1>1, <1>2, <1>3, <1>4 DEF Next, DaemonStep, Tick, Moves, HostStep, PoolStep

\* A move and a call of Docker leave the pool alone.
LEMMA MovesTables ==
  ASSUME Moves \/ HostStep
  PROVE  /\ UNCHANGED <<matches, busyPorts, busyTokens>>
         /\ Moves => UNCHANGED server
<1>1. CASE FindGroup \/ AskGroup \/ ReadStale \/ ExpireCheckRest \/ ReadReady
  BY <1>1 DEF FindGroup, AskGroup, ReadStale, ExpireCheckRest, CancelRest, ReadReady, dbVars
<1>2. CASE ConfirmGroup \/ ErrorRequeues \/ ErrorCancelsRest
  BY <1>2 DEF ConfirmGroup, ErrorRequeues, RequeueAccepted, ErrorCancelsRest, CancelRest
<1>3. CASE \/ ReadEnded \/ DestroyLoopEnds \/ ExpireWaiting \/ ReadWarmups \/ WarmupDone
           \/ LoopEnds
  BY <1>3 DEF ReadEnded, DestroyLoopEnds, ExpireWaiting, ReadWarmups, WarmupDone,
    LoopEnds, dbVars
<1>4. CASE \E m \in Matches : ExpireCheck(m) \/ ReadMatch(m) \/ ReadConnected(m)
  BY <1>4 DEF ExpireCheck, RequeueAccepted, ReadMatch, ReadConnected, dbVars
<1>5. CASE HostStep /\ ~Moves
  BY <1>5 DEF HostStep, StartServer, StartFails, DestroyServer, dbVars
<1>6. CASE HostStep /\ Moves
  BY <1>1, <1>2, <1>3, <1>4, <1>6 DEF Moves
<1> QED
  BY <1>1, <1>2, <1>3, <1>4, <1>5, <1>6 DEF Moves

\* The points at which something is in hand, or about to be recorded.
Bound == PortInHand \cup {"clean_port", "clean_gslt", "record", "err_status"}

\* A move neither reaches nor leaves one of these points.
LEMMA MovesUnbound ==
  ASSUME Moves
  PROVE  /\ pc \notin Bound /\ pc' \notin Bound
         /\ port' \in {port, None} /\ token' \in {token, None}
<1> USE DEF Bound, PortInHand, Goto
<1>1. CASE FindGroup \/ AskGroup \/ ReadStale \/ ExpireCheckRest \/ ReadReady
  BY <1>1 DEF FindGroup, AskGroup, ReadStale, ExpireCheckRest, CancelRest, ReadReady, Forget
<1>2. CASE ConfirmGroup \/ ErrorRequeues \/ ErrorCancelsRest
  BY <1>2 DEF ConfirmGroup, ErrorRequeues, RequeueAccepted, ErrorCancelsRest, CancelRest
<1>3. CASE ReadEnded \/ DestroyLoopEnds \/ ExpireWaiting \/ ReadWarmups \/ WarmupDone
  BY <1>3 DEF ReadEnded, DestroyLoopEnds, ExpireWaiting, ReadWarmups, WarmupDone, locals
<1>4. CASE LoopEnds
  BY <1>4 DEF LoopEnds, NextStep, Forget
<1>5. CASE \E m \in Matches : ExpireCheck(m) \/ ReadMatch(m) \/ ReadConnected(m)
  BY <1>5 DEF ExpireCheck, RequeueAccepted, ReadMatch, ReadConnected
<1> QED
  BY <1>1, <1>2, <1>3, <1>4, <1>5 DEF Moves

-----------------------------------------------------------------------------
(* Each part of the invariant is kept.                                     *)

\* Nobody is given what another match has, and nothing is released but what
\* the daemon holds, or a match that failed to start or is marked clean.
LEMMA LeasesKept ==
  ASSUME TypeOK, DockerFaultsOnly, LeaseInv, Step3OK, Next
  PROVE  Leases'
<1> USE DEF Leases, LeaseExclusive, Holds
<1>0. /\ matches \in [Matches -> MatchRow] /\ Leases /\ Hands /\ Starts /\ Thread /\ Sweep
      /\ port \in Ports \cup {None} /\ token \in Tokens \cup {None}
  BY DEF TypeOK, DatabaseTypeOK, DaemonTypeOK, LeaseInv
<1>1. CASE UNCHANGED <<matches, busyPorts, busyTokens>>
  BY <1>0, <1>1
<1>2. ASSUME NEW k \in Matches, NEW x \in Played, PlaysOn(k, x)
      PROVE  Leases'
  <2>1. matches[k].status \notin {"none", "error"}
    BY <1>0, <1>2 DEF Starts, Thread, Runs, PlaysOn, Unstarted
  <2> QED
    BY <1>0, <1>2, <2>1, StatusRow DEF PlaysOn, Played
<1>3. ASSUME NEW k \in Matches, NEW p \in Players, PlayerConnects(k, p),
             UNCHANGED <<busyPorts, busyTokens>>
      PROVE  Leases'
  BY <1>0, <1>3, CountedRow
<1>4. CASE ClaimPort \/ ClaimGslt
  BY <1>0, <1>4 DEF ClaimPort, ClaimGslt
<1>5. CASE UnclaimPort
  BY <1>0, <1>5, NoneAssumption DEF UnclaimPort, Hands, PortInHand
<1>6. ASSUME NEW k \in Matches, CreateMatch(k) PROVE Leases'
  <2>1. port # None /\ token # None /\ UNCHANGED <<busyPorts, busyTokens>>
    BY <1>0, <1>6 DEF CreateMatch, Hands, PortInHand
  <2> QED
    BY <1>0, <1>6, <2>1, CreatedRow DEF Hands
<1>7. CASE RecordContainer
  <2>1. /\ cur \in Matches /\ matches[cur].status \notin {"none", "error"}
        /\ UNCHANGED <<busyPorts, busyTokens>>
    BY <1>0, <1>7 DEF RecordContainer, Step3OK, Starting, Thread
  <2> QED
    BY <1>0, <1>7, <2>1, RecordedRow
<1>8. CASE MarkError
  <2>1. /\ cur \in Matches /\ matches[cur].status = "creating"
        /\ SetStatus(cur, "error") /\ UNCHANGED <<busyPorts, busyTokens>>
    BY <1>0, <1>8 DEF MarkError, Erring, Thread
  <2> QED
    BY <1>0, <2>1, StatusRow
<1>9. CASE ErrorReleasesPort \/ ErrorReleasesGslt
  <2>1. cur \in Matches /\ matches[cur].status = "error" /\ Holds(cur) /\ UNCHANGED matches
    BY <1>0, <1>9 DEF ErrorReleasesPort, ErrorReleasesGslt, Erring, Thread
  <2> QED
    BY <1>0, <1>9, <2>1 DEF ErrorReleasesPort, ErrorReleasesGslt
<1>10. ASSUME NEW k \in Matches, CleanMatch(k) PROVE Leases'
  <2>1. UNCHANGED <<busyPorts, busyTokens>>
    BY <1>10 DEF CleanMatch
  <2> QED
    BY <1>0, <1>10, <2>1, CountedRow
<1>11. CASE MarkCleaned
  <2>1. UNCHANGED <<busyPorts, busyTokens>>
    BY <1>11 DEF MarkCleaned
  <2> QED
    BY <1>0, <1>11, <2>1, MarkedRow
<1>12. CASE CleanReleasesPort \/ CleanReleasesGslt
  BY <1>0, <1>12 DEF CleanReleasesPort, CleanReleasesGslt, Hands
<1>13. CASE CancelWarmup
  <2>1. /\ cur \in Matches /\ matches[cur].status # "error" /\ matches[cur].status # "none"
        /\ SetStatus(cur, "cancelled") /\ UNCHANGED <<busyPorts, busyTokens>>
    BY <1>0, <1>13 DEF CancelWarmup, Thread, Starts, Unstarted
  <2> QED
    BY <1>0, <2>1, StatusRow
<1> QED
  BY <1>1, <1>2, <1>3, <1>4, <1>5, <1>6, <1>7, <1>8, <1>9, <1>10, <1>11, <1>12, <1>13,
    StepKinds, MovesTables DEF PoolStep, leaseVars

\* A port or a token leaves the books of a match, or the daemon's hands, only
\* together with its in_use, or into the next one's books or hands.
LEMMA AccountedKept ==
  ASSUME TypeOK, DockerFaultsOnly, LeaseInv, Step3OK, Next
  PROVE  LeaseAccounted'
<1> USE DEF LeaseAccounted, Holds
<1>0. /\ matches \in [Matches -> MatchRow]
      /\ busyPorts \subseteq Ports /\ busyTokens \subseteq Tokens
      /\ LeaseAccounted /\ Leases /\ Hands /\ Starts /\ Thread /\ Sweep
      /\ port \in Ports \cup {None} /\ token \in Tokens \cup {None}
      /\ pc \in {"clean_port", "clean_gslt"} => cur \in Matches
  BY DEF TypeOK, DatabaseTypeOK, DaemonTypeOK, LeaseInv, Sweep, Cleaning
<1>1. CASE UNCHANGED <<matches, busyPorts, busyTokens, pc, port, token, cur>>
  BY <1>0, <1>1
<1>2. CASE Moves
  <2>1. /\ UNCHANGED <<matches, busyPorts, busyTokens>>
        /\ port = None /\ token = None /\ pc \notin {"clean_port", "clean_gslt"}
    BY <1>0, <1>2, MovesTables, MovesUnbound DEF Hands, PortInHand, Bound
  <2> QED
    BY <1>0, <2>1, NoneAssumption
<1>3. CASE HostStep
  <2>1. /\ UNCHANGED <<matches, busyPorts, busyTokens, port, token>>
        /\ pc \notin {"clean_port", "clean_gslt"}
    BY <1>3, MovesTables DEF HostStep, StartServer, StartFails, DestroyServer, locals
  <2> QED
    BY <1>0, <2>1
<1>4. ASSUME NEW k \in Matches, NEW x \in Played, PlaysOn(k, x)
      PROVE  LeaseAccounted'
  <2>1. \A m \in Matches : matches[m].status # "none" => matches'[m].status # "none"
    BY <1>0, <1>4, StatusRow DEF PlaysOn, Played
  <2>2. SetStatus(k, x) /\ UNCHANGED <<busyPorts, busyTokens, pc, port, token, cur>>
    BY <1>4 DEF PlaysOn, daemonVars, locals
  <2> QED
    BY <1>0, <2>1, <2>2, StatusRow
<1>5. ASSUME NEW k \in Matches, NEW p \in Players, PlayerConnects(k, p),
             UNCHANGED <<busyPorts, busyTokens, daemonVars>>
      PROVE  LeaseAccounted'
  <2>1. UNCHANGED <<busyPorts, busyTokens, pc, port, token, cur>>
    BY <1>5 DEF daemonVars, locals
  <2> QED
    BY <1>0, <1>5, <2>1, CountedRow
<1>6. CASE ClaimPort \/ ClaimGslt
  <2>1. token = None /\ (ClaimPort => port = None)
    BY <1>0, <1>6 DEF ClaimPort, ClaimGslt, Hands, PortInHand
  <2> QED
    BY <1>0, <1>6, <2>1, NoneAssumption DEF ClaimPort, ClaimGslt, Forget, Goto
<1>7. CASE UnclaimPort
  <2>1. token = None
    BY <1>0, <1>7 DEF UnclaimPort, Hands
  <2> QED
    BY <1>0, <1>7, <2>1, NoneAssumption DEF UnclaimPort, Forget, Goto
<1>8. ASSUME NEW k \in Matches, CreateMatch(k) PROVE LeaseAccounted'
  <2>1. /\ UNCHANGED <<busyPorts, busyTokens>> /\ pc = "create_match"
        /\ matches[k].status = "none" /\ matches'[k].status = "creating"
        /\ ~matches'[k].cleaned
        /\ matches'[k].port = port /\ matches'[k].token = token
        /\ \A m \in Matches : m # k => matches'[m] = matches[m]
    BY <1>0, <1>8, CreatedRow DEF CreateMatch
  <2> QED
    BY <1>0, <2>1
<1>9. CASE RecordContainer
  <2>1. /\ UNCHANGED <<busyPorts, busyTokens, port, token, cur>> /\ pc = "record"
        /\ pc' = "set_matched"
    BY <1>9 DEF RecordContainer, Goto, locals
  <2>2. \A m \in Matches : matches[m].status # "none" => matches'[m].status # "none"
    BY <1>0, <1>9, RecordedRow
  <2> QED
    BY <1>0, <1>9, <2>1, <2>2, RecordedRow
<1>10. CASE MarkError \/ CancelWarmup
  <2>1. PICK x : x # "none" /\ SetStatus(cur, x)
    BY <1>10 DEF MarkError, CancelWarmup
  <2>2. /\ UNCHANGED <<busyPorts, busyTokens, port, token, cur>>
        /\ pc \notin {"clean_port", "clean_gslt"}
    BY <1>10 DEF MarkError, CancelWarmup, Goto, locals
  <2>3. \A m \in Matches : matches[m].status # "none" => matches'[m].status # "none"
    BY <1>0, <2>1, StatusRow
  <2> QED
    BY <1>0, <2>1, <2>2, <2>3, StatusRow
<1>11. CASE ErrorReleasesPort \/ ErrorReleasesGslt
  BY <1>0, <1>11 DEF ErrorReleasesPort, ErrorReleasesGslt, Goto, locals
<1>12. ASSUME NEW k \in Matches, CleanMatch(k) PROVE LeaseAccounted'
  <2>1. /\ UNCHANGED <<busyPorts, busyTokens, port, token>> /\ pc = "clean"
    BY <1>12 DEF CleanMatch
  <2> QED
    BY <1>0, <1>12, <2>1, CountedRow
<1>13. CASE MarkCleaned
  <2>1. /\ UNCHANGED <<busyPorts, busyTokens, port, token, cur>> /\ pc = "clean_mark"
        /\ pc' = "clean_port"
    BY <1>13 DEF MarkCleaned, Goto, locals
  <2> QED
    BY <1>0, <1>13, <2>1, MarkedRow
<1>14. CASE CleanReleasesPort \/ CleanReleasesGslt
  BY <1>0, <1>14 DEF CleanReleasesPort, CleanReleasesGslt, Goto, locals
<1> QED
  BY <1>1, <1>2, <1>4, <1>5, <1>6, <1>7, <1>8, <1>9, <1>10, <1>11, <1>12, <1>13, <1>14,
    <1>3, StepKinds DEF PoolStep, leaseVars

\* What is claimed or about to be released belongs to no match, and stays so.
LEMMA HandsKept ==
  ASSUME TypeOK, DockerFaultsOnly, LeaseInv, Step3OK, Next
  PROVE  Hands'
<1> USE DEF Hands, Holds, PortInHand
<1>0. /\ matches \in [Matches -> MatchRow]
      /\ Leases /\ Hands /\ Starts /\ Thread /\ Sweep
      /\ port \in Ports \cup {None} /\ token \in Tokens \cup {None}
      /\ pc \in {"clean_port", "clean_gslt"} => cur \in Matches
  BY DEF TypeOK, DatabaseTypeOK, DaemonTypeOK, LeaseInv, Sweep, Cleaning
<1>1. CASE UNCHANGED leaseVars
  BY <1>0, <1>1 DEF leaseVars
<1>2. CASE Moves
  BY <1>0, <1>2, MovesTables, MovesUnbound DEF Bound
<1>3. CASE HostStep
  <2>1. /\ UNCHANGED <<matches, busyPorts, busyTokens, port, token>>
        /\ pc \notin PortInHand \cup {"clean_port", "clean_gslt"}
        /\ pc' \notin PortInHand \cup {"clean_port", "clean_gslt"}
    BY <1>3, MovesTables DEF HostStep, StartServer, StartFails, DestroyServer, locals, Goto
  <2> QED
    BY <1>0, <2>1
<1>4. ASSUME NEW k \in Matches, NEW x \in Played, PlaysOn(k, x)
      PROVE  Hands'
  <2>1. SetStatus(k, x) /\ UNCHANGED <<busyPorts, busyTokens, pc, port, token, cur>>
    BY <1>4 DEF PlaysOn, daemonVars, locals
  <2>2. matches[k].status # "none"
    BY <1>0, <1>4 DEF PlaysOn, Starts, Thread, Runs, Unstarted
  <2> QED
    BY <1>0, <2>1, <2>2, StatusRow
<1>5. ASSUME NEW k \in Matches, NEW p \in Players, PlayerConnects(k, p),
             UNCHANGED <<busyPorts, busyTokens, server, daemonVars>>
      PROVE  Hands'
  <2>1. UNCHANGED <<busyPorts, busyTokens, pc, port, token, cur>>
    BY <1>5 DEF daemonVars, locals
  <2> QED
    BY <1>0, <1>5, <2>1, CountedRow
<1>6. CASE ClaimPort
  <2>1. \A m \in Matches : Holds(m) => matches[m].port \in busyPorts
    BY <1>0, <1>6 DEF ClaimPort, Leases, Sweep, Step3, Starting, Erring, Cleaning
  <2> QED
    BY <1>0, <1>6, <2>1, NoneAssumption DEF ClaimPort, Forget, Goto
<1>7. CASE ClaimGslt
  <2>1. \A m \in Matches : Holds(m) => matches[m].token \in busyTokens
    BY <1>0, <1>7 DEF ClaimGslt, Leases, Sweep, Step3, Starting, Erring, Cleaning
  <2> QED
    BY <1>0, <1>7, <2>1, NoneAssumption DEF ClaimGslt, Goto
<1>8. CASE UnclaimPort
  BY <1>8 DEF UnclaimPort, Forget, Goto
<1>9. ASSUME NEW k \in Matches, CreateMatch(k) PROVE Hands'
  BY <1>9 DEF CreateMatch, Goto
<1>10. CASE RecordContainer
  BY <1>0, <1>10 DEF RecordContainer, Goto, locals
<1>11. CASE MarkError \/ CancelWarmup \/ ErrorReleasesPort \/ ErrorReleasesGslt
  BY <1>0, <1>11 DEF MarkError, CancelWarmup, ErrorReleasesPort, ErrorReleasesGslt, Goto, locals
<1>12. ASSUME NEW k \in Matches, CleanMatch(k) PROVE Hands'
  BY <1>0, <1>12 DEF CleanMatch, Goto
<1>13. CASE MarkCleaned
  <2>1. cur \in Matches /\ Holds(cur) /\ pc = "clean_mark"
    BY <1>0, <1>13 DEF MarkCleaned, Sweep, Cleaning
  <2>2. /\ UNCHANGED <<busyPorts, busyTokens, port, token, cur>> /\ pc' = "clean_port"
    BY <1>13 DEF MarkCleaned, Goto, locals
  <2> QED
    BY <1>0, <1>13, <2>1, <2>2, MarkedRow DEF Leases, LeaseExclusive
<1>14. CASE CleanReleasesPort \/ CleanReleasesGslt
  BY <1>0, <1>14 DEF CleanReleasesPort, CleanReleasesGslt, Goto, locals
<1> QED
  BY <1>1, <1>2, <1>3, <1>4, <1>5, <1>6, <1>7, <1>8, <1>9, <1>10, <1>11, <1>12, <1>13,
    <1>14, StepKinds DEF PoolStep

\* A container is recorded one step after it starts, and a match whose start
\* failed is marked before anything else happens to it.
LEMMA StartsKept ==
  ASSUME TypeOK, DockerFaultsOnly, LeaseInv, Step3OK, Next
  PROVE  Starts'
<1> USE DEF Starts, Runs, Unstarted
<1>0. /\ matches \in [Matches -> MatchRow] /\ server \in [Matches -> ServerPhase]
      /\ Starts /\ Thread /\ Sweep
      /\ pc \in Starting \cup Erring => cur \in Matches
  BY DEF TypeOK, DatabaseTypeOK, LeaseInv, Step3OK, Thread
<1>1. CASE UNCHANGED leaseVars
  BY <1>0, <1>1 DEF leaseVars
<1>2. CASE Moves
  BY <1>0, <1>2, MovesTables, MovesUnbound DEF Bound
<1>3. CASE StartServer
  <2>1. /\ cur \in Matches /\ matches[cur].status = "creating"
        /\ UNCHANGED <<matches, cur>> /\ pc = "create_server" /\ pc' = "record"
        /\ server' = [server EXCEPT ![cur] = "warmup"]
    BY <1>0, <1>3 DEF StartServer, Starting, Thread, Goto, locals, dbVars
  <2> QED
    BY <1>0, <2>1
<1>4. CASE StartFails
  <2>1. /\ cur \in Matches /\ matches[cur].status = "creating" /\ server[cur] = "absent"
        /\ UNCHANGED <<matches, cur>> /\ pc = "create_server" /\ pc' = "err_status"
    BY <1>0, <1>4 DEF StartFails, Starting, Thread, Goto, locals, dbVars
  <2> QED
    BY <1>0, <1>4, <2>1 DEF StartFails
<1>5. ASSUME NEW k \in Matches, DestroyServer(k) PROVE Starts'
  <2>1. /\ UNCHANGED <<matches, pc, cur>> /\ pc = "destroy"
        /\ \A m \in Matches : server'[m] = server[m] \/ server'[m] \in {"absent", "stopped"}
        /\ \A m \in Matches : m # k => server'[m] = server[m]
    BY <1>0, <1>5 DEF DestroyServer, dbVars
  <2>2. matches[k].status \notin Unstarted
    BY <1>0, <1>5 DEF DestroyServer, Sweep, Holds
  <2> QED
    BY <1>0, <2>1, <2>2
<1>6. ASSUME NEW k \in Matches, NEW x \in Played, PlaysOn(k, x)
      PROVE  Starts'
  <2>1. /\ SetStatus(k, x) /\ UNCHANGED <<pc, cur>> /\ Runs(k)
        /\ \A m \in Matches : m # k => server'[m] = server[m]
    BY <1>6 DEF PlaysOn, daemonVars, locals
  <2>2. matches[k].status # "error" /\ (matches[k].container \/ (cur = k /\ pc = "record"))
    BY <1>0, <2>1
  <2>3. x \notin Unstarted \cup {"error"}
    BY DEF Played
  <2> HIDE DEF Unstarted
  <2> QED
    BY <1>0, <2>1, <2>2, <2>3, StatusRow
<1>7. ASSUME NEW k \in Matches, NEW p \in Players, PlayerConnects(k, p),
             UNCHANGED <<busyPorts, busyTokens, server, daemonVars>>
      PROVE  Starts'
  <2>1. UNCHANGED <<pc, cur, server>>
    BY <1>7 DEF daemonVars, locals
  <2>2. \A m \in Matches : matches'[m].attempts = matches[m].attempts
    BY <1>0, <1>7 DEF PlayerConnects, MatchRow
  <2> QED
    BY <1>0, <1>7, <2>1, <2>2, CountedRow
<1>8. CASE ClaimPort \/ ClaimGslt \/ UnclaimPort
  BY <1>0, <1>8 DEF ClaimPort, ClaimGslt, UnclaimPort, Goto
<1>9. ASSUME NEW k \in Matches, CreateMatch(k) PROVE Starts'
  <2>1. UNCHANGED server /\ pc = "create_match" /\ pc' = "set_ready_check"
    BY <1>9 DEF CreateMatch, Goto
  <2> QED
    BY <1>0, <1>9, <2>1, CreatedRow
<1>10. CASE RecordContainer
  <2>1. UNCHANGED <<server, cur>> /\ pc = "record" /\ pc' = "set_matched"
    BY <1>10 DEF RecordContainer, Goto, locals
  <2> QED
    BY <1>0, <1>10, <2>1, RecordedRow
<1>11. CASE MarkError
  <2>1. /\ UNCHANGED <<server, cur>> /\ pc = "err_status" /\ pc' = "err_port"
        /\ SetStatus(cur, "error") /\ cur \in Matches /\ matches[cur].status = "creating"
    BY <1>0, <1>11 DEF MarkError, Erring, Thread, Goto, locals
  <2> QED
    BY <1>0, <2>1, StatusRow
<1>12. CASE CancelWarmup
  <2>1. /\ UNCHANGED <<server, cur>> /\ pc = "warmup_cancel" /\ pc' = "warmup_rows"
        /\ SetStatus(cur, "cancelled") /\ cur \in Matches /\ matches[cur].container
    BY <1>0, <1>12 DEF CancelWarmup, Thread, Goto, locals
  <2> QED
    BY <1>0, <2>1, StatusRow
<1>13. CASE ErrorReleasesPort \/ ErrorReleasesGslt \/ CleanReleasesPort \/ CleanReleasesGslt
  BY <1>0, <1>13 DEF ErrorReleasesPort, ErrorReleasesGslt, CleanReleasesPort,
    CleanReleasesGslt, Goto, locals
<1>14. ASSUME NEW k \in Matches, CleanMatch(k) PROVE Starts'
  <2>1. UNCHANGED server /\ pc = "clean" /\ k \in todo
    BY <1>14 DEF CleanMatch
  <2>2. matches[k].status \notin Unstarted
    BY <1>0, <2>1 DEF Sweep, Cleaning, Holds
  <2> QED
    BY <1>0, <1>14, <2>1, <2>2, CountedRow
<1>15. CASE MarkCleaned
  <2>1. UNCHANGED <<server, cur>> /\ pc = "clean_mark"
    BY <1>15 DEF MarkCleaned, locals
  <2>2. cur \in Matches /\ matches[cur].status \notin Unstarted
    BY <1>0, <2>1 DEF Sweep, Cleaning
  <2> QED
    BY <1>0, <1>15, <2>1, <2>2, MarkedRow
<1> QED
  BY <1>1, <1>2, <1>3, <1>4, <1>5, <1>6, <1>7, <1>8, <1>9, <1>10, <1>11, <1>12, <1>13,
    <1>14, <1>15, StepKinds DEF PoolStep, HostStep

\* What the thread found out about its match holds until it acts on it.
LEMMA ThreadKept ==
  ASSUME TypeOK, DockerFaultsOnly, LeaseInv, Step3OK, Next
  PROVE  Thread'
<1> USE DEF Thread, Holds, Erring
<1>0. /\ matches \in [Matches -> MatchRow] /\ todo \subseteq Matches
      /\ Starts /\ Thread /\ Sweep
      /\ pc \in Starting => cur \in Matches
  BY DEF TypeOK, DatabaseTypeOK, DaemonTypeOK, LeaseInv, Step3OK
<1>1. CASE UNCHANGED leaseVars
  BY <1>0, <1>1 DEF leaseVars
<1>2. CASE Moves
  <2>0. UNCHANGED matches
    BY <1>2, MovesTables
  <2>1. CASE FindGroup \/ AskGroup \/ ReadStale \/ ExpireCheckRest \/ ReadReady
    BY <2>1 DEF FindGroup, AskGroup, ReadStale, ExpireCheckRest, CancelRest, ReadReady, Goto
  <2>2. CASE ConfirmGroup \/ ErrorRequeues \/ ErrorCancelsRest
    BY <1>0, <2>0, <2>2 DEF ConfirmGroup, ErrorRequeues, RequeueAccepted, ErrorCancelsRest,
      CancelRest, Goto
  <2>3. CASE ReadEnded \/ DestroyLoopEnds \/ ExpireWaiting \/ LoopEnds
    BY <2>3 DEF ReadEnded, DestroyLoopEnds, ExpireWaiting, LoopEnds, NextStep, Goto
  <2>4. CASE ReadWarmups
    <3>1. pc = "read_warmups" /\ pc' = "warmups"
          /\ todo' \subseteq {m \in Matches : matches[m].status = "warmup"}
      BY <2>4 DEF ReadWarmups, Goto
    <3>2. \A m \in Matches : matches[m].status = "warmup" => matches[m].container
      BY <1>0, <3>1 DEF Starts, Unstarted
    <3> QED
      BY <2>0, <3>1, <3>2
  <2>5. CASE WarmupDone \/ \E m \in Matches : ReadConnected(m)
    BY <1>0, <2>0, <2>5 DEF WarmupDone, ReadConnected, Goto
  <2>6. CASE \E m \in Matches : ExpireCheck(m) \/ ReadMatch(m)
    BY <1>0, <2>0, <2>6 DEF ExpireCheck, RequeueAccepted, ReadMatch, Goto
  <2> QED
    BY <1>2, <2>1, <2>2, <2>3, <2>4, <2>5, <2>6 DEF Moves
<1>3. CASE HostStep
  BY <1>0, <1>3, MovesTables DEF HostStep, StartServer, StartFails, DestroyServer, Goto,
    locals, Starting
<1>4. ASSUME NEW k \in Matches, NEW x \in Played, PlaysOn(k, x)
      PROVE  Thread'
  <2>1. SetStatus(k, x) /\ UNCHANGED <<pc, cur, todo>> /\ Runs(k)
    BY <1>4 DEF PlaysOn, daemonVars, locals
  <2>2. pc \in Erring \cup {"create_server"} => k # cur
    BY <1>0, <2>1 DEF Starts, Runs, Unstarted
  <2> QED
    BY <1>0, <2>1, <2>2, StatusRow DEF Played, Starting
<1>5. ASSUME NEW k \in Matches, NEW p \in Players, PlayerConnects(k, p),
             UNCHANGED <<busyPorts, busyTokens, server, daemonVars>>
      PROVE  Thread'
  <2>1. UNCHANGED <<pc, cur, todo>>
    BY <1>5 DEF daemonVars, locals
  <2> QED
    BY <1>0, <1>5, <2>1, CountedRow DEF Starting
<1>6. CASE \/ ClaimPort \/ ClaimGslt \/ UnclaimPort \/ \E k \in Matches : CreateMatch(k)
           \/ RecordContainer
  BY <1>6 DEF ClaimPort, ClaimGslt, UnclaimPort, CreateMatch, RecordContainer, Goto
<1>7. CASE MarkError
  <2>1. /\ UNCHANGED <<cur, todo>> /\ pc = "err_status" /\ pc' = "err_port"
        /\ SetStatus(cur, "error") /\ cur \in Matches /\ matches[cur].status = "creating"
    BY <1>0, <1>7 DEF MarkError, Goto, locals
  <2> QED
    BY <1>0, <2>1, StatusRow DEF Starts, Unstarted
<1>8. CASE CancelWarmup
  <2>1. /\ UNCHANGED <<cur, todo>> /\ pc = "warmup_cancel" /\ pc' = "warmup_rows"
        /\ SetStatus(cur, "cancelled")
    BY <1>8 DEF CancelWarmup, Goto, locals
  <2> QED
    BY <1>0, <2>1, StatusRow
<1>9. CASE ErrorReleasesPort \/ ErrorReleasesGslt \/ CleanReleasesPort \/ CleanReleasesGslt
  BY <1>0, <1>9 DEF ErrorReleasesPort, ErrorReleasesGslt, CleanReleasesPort,
    CleanReleasesGslt, Goto, locals
<1>10. CASE MarkCleaned \/ \E k \in Matches : CleanMatch(k)
  BY <1>10 DEF MarkCleaned, CleanMatch, Goto
<1> QED
  BY <1>1, <1>2, <1>3, <1>4, <1>5, <1>6, <1>7, <1>8, <1>9, <1>10, StepKinds DEF PoolStep

\* Step 5 reaches every match that failed to start, and marks only matches
\* whose server is gone or was refused to the limit.
LEMMA SweepKept ==
  ASSUME TypeOK, DockerFaultsOnly, LeaseInv, Step3OK, Next
  PROVE  Sweep'
<1> USE DEF Sweep, Holds, Cleaning, Step3, Starting, Erring
<1>0. /\ matches \in [Matches -> MatchRow] /\ server \in [Matches -> ServerPhase]
      /\ todo \subseteq Matches /\ ended \subseteq Matches /\ gone \subseteq Matches
      /\ Starts /\ Thread /\ Sweep
      /\ pc \in Starting => cur \in Matches
  BY DEF TypeOK, DatabaseTypeOK, DaemonTypeOK, LeaseInv, Step3OK
<1>1. CASE UNCHANGED leaseVars
  BY <1>0, <1>1 DEF leaseVars, Runs
<1>2. CASE Moves
  <2>0. UNCHANGED <<matches, server>>
    BY <1>2, MovesTables
  <2>1. CASE FindGroup \/ AskGroup \/ ReadStale \/ ExpireCheckRest \/ ReadReady
    BY <1>0, <2>0, <2>1 DEF FindGroup, AskGroup, ReadStale, ExpireCheckRest, CancelRest,
      ReadReady, Goto, Forget
  <2>2. CASE ConfirmGroup \/ ErrorRequeues \/ ErrorCancelsRest
    BY <1>0, <2>0, <2>2 DEF ConfirmGroup, ErrorRequeues, RequeueAccepted, ErrorCancelsRest,
      CancelRest, Goto
  <2>3. CASE ReadEnded
    <3>1. /\ pc = "read_ended" /\ pc' = "destroy" /\ todo' = ended' /\ gone' = gone
          /\ ended' = {m \in Matches : matches[m].status \in Ended /\ ~matches[m].cleaned}
      BY <2>3 DEF ReadEnded, Goto
    <3> QED
      BY <1>0, <2>0, <3>1 DEF Ended
  <2>4. CASE DestroyLoopEnds
    BY <1>0, <2>0, <2>4 DEF DestroyLoopEnds, Goto
  <2>5. CASE ExpireWaiting \/ ReadWarmups \/ WarmupDone
    BY <1>0, <2>0, <2>5 DEF ExpireWaiting, ReadWarmups, WarmupDone, Goto, locals
  <2>6. CASE LoopEnds
    BY <1>0, <2>0, <2>6 DEF LoopEnds, NextStep, Goto, Forget
  <2>7. CASE \E m \in Matches : ExpireCheck(m) \/ ReadMatch(m) \/ ReadConnected(m)
    BY <1>0, <2>0, <2>7 DEF ExpireCheck, RequeueAccepted, ReadMatch, ReadConnected, Goto
  <2> QED
    BY <1>2, <2>1, <2>2, <2>3, <2>4, <2>5, <2>6, <2>7 DEF Moves
<1>3. CASE StartServer \/ StartFails
  <2>1. /\ UNCHANGED <<matches, todo, ended, gone, cur>> /\ pc = "create_server"
        /\ pc' \in {"record", "err_status"}
    BY <1>3 DEF StartServer, StartFails, Goto, locals, dbVars
  <2> QED
    BY <1>0, <2>1
<1>4. ASSUME NEW k \in Matches, DestroyServer(k) PROVE Sweep'
  <2>1. /\ UNCHANGED <<matches, pc, ended, cur>> /\ pc = "destroy" /\ todo' \subseteq todo
        /\ \A m \in gone' : server'[m] = "absent"
    BY <1>0, <1>4 DEF DestroyServer, dbVars
  <2> QED
    BY <1>0, <2>1
<1>5. ASSUME NEW k \in Matches, NEW x \in Played, PlaysOn(k, x)
      PROVE  Sweep'
  <2>1. /\ SetStatus(k, x) /\ UNCHANGED <<pc, cur, todo, ended, gone>> /\ Runs(k)
        /\ \A m \in Matches : m # k => server'[m] = server[m]
    BY <1>5 DEF PlaysOn, daemonVars, locals
  <2>2. k \notin gone /\ x \notin {"none", "creating", "error"}
    BY <1>0, <2>1 DEF Runs, Played
  <2>3. \A m \in Matches : ~Runs(m) => m # k /\ ~Runs(m)'
    BY <2>1 DEF Runs
  <2>4. \A m \in Matches : /\ Holds(m) => Holds(m)'
                           /\ matches[m].status \notin Unstarted => matches'[m].status \notin Unstarted
                           /\ matches[m].status # "creating" => matches'[m].status # "creating"
                           /\ matches'[m].status = "error" => matches[m].status = "error"
                           /\ matches'[m].cleaned = matches[m].cleaned
                           /\ matches'[m].attempts = matches[m].attempts
    BY <1>0, <2>1, <2>2, StatusRow DEF Unstarted
  <2> QED
    BY <1>0, <2>1, <2>2, <2>3, <2>4 DEF Unstarted
<1>6. ASSUME NEW k \in Matches, NEW p \in Players, PlayerConnects(k, p),
             UNCHANGED <<busyPorts, busyTokens, server, daemonVars>>
      PROVE  Sweep'
  <2>1. UNCHANGED <<pc, cur, todo, ended, gone, server>>
    BY <1>6 DEF daemonVars, locals
  <2>2. \A m \in Matches : matches'[m].attempts = matches[m].attempts
    BY <1>0, <1>6 DEF PlayerConnects, MatchRow
  <2> QED
    BY <1>0, <1>6, <2>1, <2>2, CountedRow DEF Runs
<1>7. CASE ClaimPort \/ ClaimGslt \/ UnclaimPort
  BY <1>0, <1>7 DEF ClaimPort, ClaimGslt, UnclaimPort, Goto, Forget
<1>8. ASSUME NEW k \in Matches, CreateMatch(k) PROVE Sweep'
  <2>1. UNCHANGED <<server, gone>> /\ pc = "create_match" /\ pc' = "set_ready_check"
    BY <1>8 DEF CreateMatch, Goto
  <2> QED
    BY <1>0, <1>8, <2>1, CreatedRow
<1>9. CASE RecordContainer
  <2>1. UNCHANGED <<server, gone>> /\ pc = "record" /\ pc' = "set_matched"
    BY <1>9 DEF RecordContainer, Goto, locals
  <2> QED
    BY <1>0, <1>9, <2>1, RecordedRow
<1>10. CASE MarkError \/ CancelWarmup
  <2>1. PICK x : SetStatus(cur, x) /\ (CancelWarmup => x = "cancelled")
    BY <1>10 DEF MarkError, CancelWarmup
  <2>2. /\ UNCHANGED <<server, gone>>
        /\ \/ pc = "err_status" /\ pc' = "err_port" /\ MarkError
           \/ pc = "warmup_cancel" /\ pc' = "warmup_rows" /\ CancelWarmup
    BY <1>10 DEF MarkError, CancelWarmup, Goto, locals
  <2>3. CASE pc = "err_status"
    BY <1>0, <2>2, <2>3
  <2>4. CASE pc = "warmup_cancel"
    BY <1>0, <2>1, <2>2, <2>4, StatusRow
  <2> QED
    BY <2>2, <2>3, <2>4
<1>11. CASE ErrorReleasesPort \/ ErrorReleasesGslt \/ CleanReleasesPort
  BY <1>0, <1>11 DEF ErrorReleasesPort, ErrorReleasesGslt, CleanReleasesPort, Goto, locals
<1>12. CASE CleanReleasesGslt
  BY <1>0, <1>12 DEF CleanReleasesGslt, Goto
<1>13. ASSUME NEW k \in Matches, CleanMatch(k) PROVE Sweep'
  <2>1. /\ UNCHANGED <<server, ended, gone>> /\ pc = "clean" /\ todo' = todo \ {k} /\ k \in todo
        /\ pc' \in {"clean", "clean_mark"}
        /\ pc' = "clean_mark" => cur' = k
        /\ pc' = "clean" => matches[k].container
    BY <1>13 DEF CleanMatch, Goto, Refused
  <2>2. Holds(k) /\ matches[k].status \notin Unstarted
    BY <1>0, <2>1 DEF Unstarted
  <2>3. ASSUME pc' = "clean_mark"
        PROVE  ~Runs(k) \/ matches'[k].attempts = MaxAttempts
    <3>1. CASE Refused(k)
      <4>1. matches'[k].attempts = Attempts(k) /\ Attempts(k) >= MaxAttempts
        BY <1>0, <1>13, <2>3, <3>1 DEF CleanMatch, Goto, MatchRow
      <4> QED
        BY <1>0, <4>1, AttemptsAssumption DEF Attempts, MatchRow
    <3>2. CASE ~Refused(k)
      <4>1. matches[k].container => k \in gone
        BY <3>2 DEF Refused
      <4> QED
        BY <1>0, <2>1, <2>2, <4>1 DEF Starts, Runs
    <3> QED
      BY <3>1, <3>2
  <2>4. matches[k].status = "error" => pc' = "clean_mark"
    BY <1>0, <2>1 DEF Starts
  <2> QED
    BY <1>0, <1>13, <2>1, <2>2, <2>3, <2>4, CountedRow DEF Runs, Unstarted
<1>14. CASE MarkCleaned
  <2>1. /\ UNCHANGED <<server, ended, gone, todo, cur>> /\ pc = "clean_mark"
        /\ pc' = "clean_port"
    BY <1>14 DEF MarkCleaned, Goto, locals
  <2> QED
    BY <1>0, <1>14, <2>1, MarkedRow
<1> QED
  BY <1>1, <1>2, <1>3, <1>4, <1>5, <1>6, <1>7, <1>8, <1>9, <1>10, <1>11, <1>12, <1>13,
    <1>14, StepKinds DEF PoolStep, HostStep

-----------------------------------------------------------------------------
(* The invariant and what follows from it.                                 *)

LEMMA LeaseInvInit == Init => LeaseInv
<1> SUFFICES ASSUME Init PROVE LeaseInv
  OBVIOUS
<1> USE DEF Init, DatabaseInit, DaemonInit
<1>1. \A m \in Matches : ~Holds(m) /\ matches[m].status = "none" /\ ~matches[m].container
                         /\ ~matches[m].cleaned /\ matches[m].attempts = 0
                         /\ server[m] = "absent"
  BY DEF Holds, NoRow
<1>2. Leases /\ LeaseAccounted
  BY <1>1 DEF Leases, LeaseExclusive, LeaseAccounted
<1>3. Hands /\ Thread
  BY DEF Hands, PortInHand, Thread, Erring
<1>4. Starts
  BY <1>1 DEF Starts, Unstarted
<1>5. Sweep
  BY <1>1 DEF Sweep, Cleaning
<1> QED
  BY <1>2, <1>3, <1>4, <1>5 DEF LeaseInv

LEMMA LeaseInvNext ==
  ASSUME DockerFaultsOnly, ConsentInv, LeaseInv, [Next]_vars
  PROVE  LeaseInv'
<1>1. CASE Next
  BY <1>1, LeasesKept, AccountedKept, HandsKept, StartsKept, ThreadKept, SweepKept
  DEF ConsentInv, LeaseInv
<1>2. CASE UNCHANGED vars
  BY <1>2 DEF vars, LeaseInv, Leases, LeaseExclusive, LeaseAccounted, Hands, Starts,
    Thread, Sweep, Holds, Runs
<1> QED
  BY <1>1, <1>2

\* With Docker's faults and no others, the invariant of the pool holds in every
\* instance.
THEOREM LeaseInvariant ==
  ASSUME DockerFaultsOnly
  PROVE  Spec => []LeaseInv
<1>1. ConsentInv /\ LeaseInv /\ [Next]_vars => LeaseInv'
  BY LeaseInvNext
<1> QED
  BY <1>1, LeaseInvInit, ConsentInvariant, PTL DEF Spec

\* Two matches that are not cleaned up never have the same port or token, even
\* though step 3 releases those of a match long before step 5 marks it.
THEOREM LeaseExclusiveCorrect ==
  ASSUME DockerFaultsOnly
  PROVE  Spec => []LeaseExclusive
<1>1. LeaseInv => LeaseExclusive
  BY DEF LeaseInv, Leases
<1> QED
  BY <1>1, LeaseInvariant, PTL

\* No release takes away the port or the token of a match in use.
THEOREM LeaseKeptCorrect ==
  ASSUME DockerFaultsOnly
  PROVE  Spec => []LeaseKept
<1>1. LeaseInv => LeaseKept
  BY DEF LeaseInv, Leases, LeaseKept, Holds
<1> QED
  BY <1>1, LeaseInvariant, PTL

\* No path of the tick leaks a port or a token, a refused start and a container
\* that cannot be removed included.
THEOREM LeaseAccountedCorrect ==
  ASSUME DockerFaultsOnly
  PROVE  Spec => []LeaseAccounted
<1>1. LeaseInv => LeaseAccounted
  BY DEF LeaseInv
<1> QED
  BY <1>1, LeaseInvariant, PTL

-----------------------------------------------------------------------------
(* The refinement of PortLease, step by step.                              *)

\* The lease of a match in words of PortLease.
LEMMA LeaseCases ==
  ASSUME LeaseInv, NEW m \in Matches
  PROVE  /\ Holds(m) => LeaseOf(m) = matches[m].port /\ LeaseOf(m) \in Ports
         /\ matches[m].status = "none" => LeaseOf(m) = "unused"
         /\ matches[m].status # "none" /\ matches[m].cleaned => LeaseOf(m) = "returned"
BY DEF LeaseInv, Leases, Holds, LeaseOf

\* A step after which the lease, the server and the attempts of every match are
\* what they were is no step of PortLease.
LEMMA LeaseStutters ==
  ASSUME \A m \in Matches : /\ matches'[m].status = "none" <=> matches[m].status = "none"
                            /\ matches'[m].cleaned = matches[m].cleaned
                            /\ matches'[m].port = matches[m].port
                            /\ matches'[m].attempts = matches[m].attempts
                            /\ Runs(m)' = Runs(m)
  PROVE  UNCHANGED Lease!leaseVars
<1>1. \A m \in Matches : LeaseOf(m)' = LeaseOf(m)
  BY DEF LeaseOf
<1> QED
  BY <1>1 DEF Lease!leaseVars

LEMMA LeaseInitMaps == Init => Lease!LeaseInit
<1> SUFFICES ASSUME Init PROVE Lease!LeaseInit
  OBVIOUS
<1>1. \A m \in Matches : /\ LeaseOf(m) = "unused" /\ matches[m].attempts = 0
                         /\ ~Runs(m)
  BY DEF Init, DatabaseInit, NoRow, LeaseOf, Runs
<1> QED
  BY <1>1 DEF Lease!LeaseInit, Lease!Unused

\* CreateMatch takes the lease of the port in the daemon's hands.
LEMMA CreateMaps ==
  ASSUME TypeOK, LeaseInv, NEW k \in Matches, CreateMatch(k)
  PROVE  Lease!Acquire(k, port) /\ port \in Ports
<1>0. matches \in [Matches -> MatchRow] /\ port \in Ports \cup {None}
  BY DEF TypeOK, DatabaseTypeOK, DaemonTypeOK
<1>1. port \in Ports /\ \A m \in Matches : Holds(m) => matches[m].port # port
  BY <1>0 DEF CreateMatch, LeaseInv, Hands, PortInHand
<1>2. /\ LeaseOf(k) = "unused" /\ LeaseOf(k)' = port
      /\ \A m \in Matches : m # k => LeaseOf(m)' = LeaseOf(m)
  BY <1>0, CreatedRow DEF LeaseOf
<1>3. \A m \in Matches : LeaseOf(m) # port
  BY <1>1, PortsAssumption DEF LeaseOf, Holds
<1>4. /\ {m \in Matches : Runs(m)}' = {m \in Matches : Runs(m)}
      /\ [m \in Matches |-> matches[m].attempts]' = [m \in Matches |-> matches[m].attempts]
  <2>1. UNCHANGED server /\ \A m \in Matches : matches'[m].attempts = matches[m].attempts
    <3>1. matches[k].attempts = 0
      BY <1>0, CreatedRow DEF LeaseInv, Starts, Unstarted
    <3> QED
      BY <1>0, <3>1, CreatedRow DEF CreateMatch
  <2> QED
    BY <2>1 DEF Runs
<1> QED
  BY <1>1, <1>2, <1>3, <1>4 DEF Lease!Acquire, Lease!Unused

\* A container that starts is a Start.
LEMMA StartMaps ==
  ASSUME TypeOK, LeaseInv, Step3OK, StartServer
  PROVE  cur \in Matches /\ Lease!Start(cur)
<1>1. /\ cur \in Matches /\ matches[cur].status = "creating"
      /\ UNCHANGED matches /\ ~Runs(cur) /\ server' = [server EXCEPT ![cur] = "warmup"]
  BY DEF StartServer, Step3OK, Starting, LeaseInv, Thread, dbVars, Runs
<1>2. LeaseOf(cur) \in Ports
  BY <1>1, LeaseCases DEF Holds, LeaseInv, Starts, Unstarted
<1>3. \A m \in Matches : Runs(m)' <=> Runs(m) \/ m = cur
  BY <1>1 DEF Runs, TypeOK, DatabaseTypeOK
<1>4. \A m \in Matches : LeaseOf(m)' = LeaseOf(m)
  BY <1>1 DEF LeaseOf
<1> QED
  BY <1>1, <1>2, <1>3, <1>4 DEF Lease!Start

\* Docker removing, or only stopping, a running server is a Stop.
LEMMA DestroyMaps ==
  ASSUME TypeOK, NEW k \in Matches, DestroyServer(k)
  PROVE  Lease!Stop(k) \/ UNCHANGED Lease!leaseVars
<1>0. server \in [Matches -> ServerPhase]
  BY DEF TypeOK, DatabaseTypeOK
<1>1. UNCHANGED matches /\ \A m \in Matches : LeaseOf(m)' = LeaseOf(m)
  BY DEF DestroyServer, dbVars, LeaseOf
<1>2. /\ \A m \in Matches : m # k => Runs(m)' = Runs(m)
      /\ Runs(k)' => Runs(k)
  BY <1>0 DEF DestroyServer, Runs
<1>3. CASE Runs(k) /\ ~Runs(k)'
  <2>1. {m \in Matches : Runs(m)}' = {m \in Matches : Runs(m)} \ {k}
    BY <1>2, <1>3
  <2> QED
    BY <1>1, <1>3, <2>1 DEF Lease!Stop
<1>4. CASE Runs(k)' = Runs(k)
  BY <1>1, <1>2, <1>4, LeaseStutters
<1> QED
  BY <1>2, <1>3, <1>4 DEF Runs

\* An attempt counted is a refusal; at the limit there is none to count.
LEMMA CountMaps ==
  ASSUME TypeOK, LeaseInv, NEW k \in Matches, CleanMatch(k)
  PROVE  Lease!Refuse(k) \/ UNCHANGED Lease!leaseVars
<1>0. /\ matches \in [Matches -> MatchRow] /\ Holds(k)
      /\ UNCHANGED server /\ \A m \in Matches : Runs(m)' = Runs(m)
  BY DEF TypeOK, DatabaseTypeOK, LeaseInv, Sweep, Cleaning, CleanMatch, Runs
<1>1. \A m \in Matches : LeaseOf(m)' = LeaseOf(m)
  BY <1>0, CountedRow DEF LeaseOf
<1>2. CASE matches' = [matches EXCEPT ![k].attempts = matches[k].attempts + 1]
           /\ matches[k].attempts < MaxAttempts
  <2>1. /\ matches'[k].attempts = matches[k].attempts + 1
        /\ \A m \in Matches : m # k => matches'[m] = matches[m]
    BY <1>0, <1>2 DEF MatchRow
  <2>2. LeaseOf(k) \in Ports
    BY <1>0, LeaseCases
  <2> QED
    BY <1>0, <1>1, <1>2, <2>1, <2>2 DEF Lease!Refuse
<1>3. CASE \A m \in Matches : matches'[m].attempts = matches[m].attempts
  BY <1>0, <1>3, CountedRow, LeaseStutters
<1>4. \/ matches' = [matches EXCEPT ![k].attempts = matches[k].attempts + 1]
         /\ matches[k].attempts < MaxAttempts
      \/ \A m \in Matches : matches'[m].attempts = matches[m].attempts
  <2>1. CASE UNCHANGED matches
    BY <2>1
  <2>2. CASE matches' = [matches EXCEPT ![k].attempts = Attempts(k)]
    <3>1. matches[k].attempts \in 0 .. MaxAttempts
      BY <1>0 DEF MatchRow
    <3>2. CASE matches[k].attempts < MaxAttempts
      BY <2>2, <3>2 DEF Attempts
    <3>3. CASE matches[k].attempts = MaxAttempts
      <4>1. Attempts(k) = matches[k].attempts
        BY <3>3, AttemptsAssumption DEF Attempts
      <4> QED
        BY <1>0, <2>2, <4>1 DEF MatchRow
    <3> QED
      BY <3>1, <3>2, <3>3, AttemptsAssumption
  <2> QED
    BY <2>1, <2>2 DEF CleanMatch
<1> QED
  BY <1>2, <1>3, <1>4

\* mark_match_cleaned returns the lease.
LEMMA MarkMaps ==
  ASSUME TypeOK, LeaseInv, MarkCleaned
  PROVE  cur \in Matches /\ Lease!Return(cur)
<1>0. /\ matches \in [Matches -> MatchRow] /\ Sweep
      /\ pc = "clean_mark" /\ UNCHANGED server
  BY DEF TypeOK, DatabaseTypeOK, LeaseInv, MarkCleaned
<1>1. /\ cur \in Matches /\ Holds(cur)
      /\ ~Runs(cur) \/ matches[cur].attempts = MaxAttempts
  BY <1>0 DEF Sweep, Cleaning
<1>2. \A m \in Matches : Runs(m)' = Runs(m)
  BY <1>0 DEF Runs
<1>3. LeaseOf(cur) \in Ports
  BY <1>1, LeaseCases
<1>4. \A m \in Matches : m = cur => LeaseOf(m)' = "returned"
  BY <1>0, <1>1, MarkedRow DEF LeaseOf, Holds
<1>5. \A m \in Matches : m # cur => LeaseOf(m)' = LeaseOf(m)
  BY <1>0, MarkedRow DEF LeaseOf
<1>6. \A m \in Matches : matches'[m].attempts = matches[m].attempts
  BY <1>0, MarkedRow
<1> QED
  BY <1>1, <1>2, <1>3, <1>4, <1>5, <1>6 DEF Lease!Return, Lease!Returned

\* Every step of the pipeline is a step of PortLease or none.
LEMMA LeaseNextMaps ==
  ASSUME DockerFaultsOnly, ConsentInv, LeaseInv, [Next]_vars
  PROVE  [Lease!LeaseNext]_(Lease!leaseVars)
<1> USE DEF Lease!LeaseNext
<1>0. /\ TypeOK /\ Step3OK /\ Thread /\ Starts
      /\ matches \in [Matches -> MatchRow] /\ server \in [Matches -> ServerPhase]
  BY DEF ConsentInv, TypeOK, DatabaseTypeOK, LeaseInv
<1>1. ASSUME UNCHANGED <<matches, server>> PROVE UNCHANGED Lease!leaseVars
  BY <1>1, LeaseStutters DEF Runs
<1>2. CASE UNCHANGED vars
  BY <1>1, <1>2 DEF vars
<1>3. CASE UNCHANGED leaseVars
  BY <1>1, <1>3 DEF leaseVars
<1>4. CASE Moves
  BY <1>1, <1>4, MovesTables
<1>5. CASE StartServer
  <2>1. cur \in Matches /\ Lease!Start(cur)
    BY <1>0, <1>5, StartMaps
  <2> QED
    BY <2>1
<1>6. CASE StartFails
  <2>1. UNCHANGED matches /\ \A m \in Matches : Runs(m)' = Runs(m)
    BY <1>0, <1>6 DEF StartFails, dbVars, Runs, Starting, Step3OK, Thread, Starts, Unstarted
  <2> QED
    BY <2>1, LeaseStutters
<1>7. CASE \E k \in Matches : DestroyServer(k)
  <2>1. PICK k \in Matches : DestroyServer(k)
    BY <1>7
  <2>2. Lease!Stop(k) \/ UNCHANGED Lease!leaseVars
    BY <1>0, <2>1, DestroyMaps
  <2> QED
    BY <2>2
<1>8. ASSUME NEW k \in Matches, NEW x \in Played, PlaysOn(k, x)
      PROVE  UNCHANGED Lease!leaseVars
  <2>1. SetStatus(k, x) /\ \A m \in Matches : Runs(m)' = Runs(m)
    BY <1>8 DEF PlaysOn, Runs
  <2>2. matches[k].status # "none" /\ x # "none"
    BY <1>0, <1>8 DEF PlaysOn, Starts, Thread, Runs, Unstarted, Played
  <2> QED
    BY <1>0, <2>1, <2>2, StatusRow, LeaseStutters
<1>9. ASSUME NEW k \in Matches, NEW p \in Players, PlayerConnects(k, p), UNCHANGED server
      PROVE  UNCHANGED Lease!leaseVars
  <2>1. /\ \A m \in Matches : matches'[m].attempts = matches[m].attempts
        /\ \A m \in Matches : Runs(m)' = Runs(m)
    BY <1>0, <1>9 DEF PlayerConnects, MatchRow, Runs
  <2> QED
    BY <1>0, <1>9, <2>1, CountedRow, LeaseStutters
<1>10. CASE ClaimPort \/ ClaimGslt \/ UnclaimPort
  BY <1>1, <1>10 DEF ClaimPort, ClaimGslt, UnclaimPort
<1>11. CASE ErrorReleasesPort \/ ErrorReleasesGslt \/ CleanReleasesPort \/ CleanReleasesGslt
  BY <1>1, <1>11 DEF ErrorReleasesPort, ErrorReleasesGslt, CleanReleasesPort, CleanReleasesGslt
<1>12. CASE \E k \in Matches : CreateMatch(k)
  <2>1. PICK k \in Matches : CreateMatch(k)
    BY <1>12
  <2>2. Lease!Acquire(k, port) /\ port \in Ports
    BY <1>0, <2>1, CreateMaps
  <2> QED
    BY <2>2
<1>13. CASE RecordContainer
  <2>1. /\ UNCHANGED server /\ cur \in Matches /\ matches[cur].status # "none"
        /\ \A m \in Matches : Runs(m)' = Runs(m)
    BY <1>0, <1>13 DEF RecordContainer, Step3OK, Starting, Thread, Runs
  <2> QED
    BY <1>0, <1>13, <2>1, RecordedRow, LeaseStutters
<1>14. CASE MarkError \/ CancelWarmup
  <2>1. PICK x : SetStatus(cur, x) /\ x # "none"
    BY <1>14 DEF MarkError, CancelWarmup
  <2>2. /\ UNCHANGED server /\ cur \in Matches /\ matches[cur].status # "none"
        /\ \A m \in Matches : Runs(m)' = Runs(m)
    BY <1>0, <1>14 DEF MarkError, CancelWarmup, Erring, Thread, Starts, Unstarted, Runs
  <2> QED
    BY <1>0, <2>1, <2>2, StatusRow, LeaseStutters
<1>15. CASE \E k \in Matches : CleanMatch(k)
  <2>1. PICK k \in Matches : CleanMatch(k)
    BY <1>15
  <2>2. Lease!Refuse(k) \/ UNCHANGED Lease!leaseVars
    BY <1>0, <2>1, CountMaps
  <2> QED
    BY <2>2
<1>16. CASE MarkCleaned
  <2>1. cur \in Matches /\ Lease!Return(cur)
    BY <1>0, <1>16, MarkMaps
  <2> QED
    BY <2>1
<1> QED
  BY <1>0, <1>2, <1>3, <1>4, <1>5, <1>6, <1>7, <1>8, <1>9, <1>10, <1>11, <1>12, <1>13,
    <1>14, <1>15, <1>16, StepKinds DEF PoolStep, HostStep

\* The pipeline's pool is the abstract one: a match acquires one port, before
\* its server starts, and returns it once, after its server is gone or could
\* not be removed MaxAttempts times.
THEOREM LeaseRefined ==
  ASSUME DockerFaultsOnly
  PROVE  Spec => ImplementsLease
<1>1. ConsentInv /\ LeaseInv /\ [Next]_vars => [Lease!LeaseNext]_(Lease!leaseVars)
  BY LeaseNextMaps
<1> QED
  BY <1>1, LeaseInitMaps, LeaseInvariant, ConsentInvariant, PTL
  DEF Spec, ImplementsLease, Lease!LeaseSpec

=============================================================================
