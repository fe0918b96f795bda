----------------------------- MODULE QueueTable -----------------------------
(***************************************************************************)
(* The table mm_queue and the SQL statements the daemon and the lobby      *)
(* plugin run on it.  The module has no variables: a statement is an       *)
(* operator from the table before it to the table after it, so that each   *)
(* actor's module can say between which of its own steps it runs.          *)
(*                                                                         *)
(* Every statement is one InnoDB transaction.  UNIQUE KEY                  *)
(* (steam_id, status) makes a statement that would leave two rows of one   *)
(* player with the same status fail as a whole: the table stays as it was. *)
(***************************************************************************)
EXTENDS Naturals, FiniteSets

CONSTANTS
  Players,     \* the Steam ids
  MaxRows,     \* bound on the rows a player inserts (AUTO_INCREMENT)
  MaxMatches   \* bound on the matches created (AUTO_INCREMENT)

ASSUME BoundsAssumption == MaxRows \in Nat /\ MaxMatches \in Nat

Matches == 1 .. MaxMatches

\* The NULL of mm_queue.match_id.
NoMatch == 0

QueueStatus == {"waiting", "ready_check", "matched", "expired", "cancelled"}

Active == {"waiting", "ready_check", "matched"}

(***************************************************************************)
(* A row.  id orders the rows of one player by insertion.  queued_at is     *)
(* left out: how old a row is at the moment of a statement that asks is    *)
(* that statement's choice.  The columns match and ready of a row that is  *)
(* not Active are never read: they are kept at NoMatch and FALSE.          *)
(***************************************************************************)
Row == [player : Players, id : 1 .. MaxRows, status : QueueStatus,
        match : Matches \cup {NoMatch}, ready : BOOLEAN]

RowsIn(q, s) == {r \in q : r.status = s}

RowsOf(q, p) == {r \in q : r.player = p}

\* The rows of the ready check of match m.
CheckRows(q, m) == {r \in RowsIn(q, "ready_check") : r.match = m}

-----------------------------------------------------------------------------
(* An UPDATE that gives the rows S the status s.                           *)

\* No row of S meets another row of its player under the key (player, s).
KeyFree(q, S, s) ==
  \A r \in S : \A o \in q \ {r} : o.player = r.player => o.status # s /\ o \notin S

\* The rows S become the rows T, unless the key forbids it.
Update(q, S, s, T) == IF KeyFree(q, S, s) THEN (q \ S) \cup T ELSE q

Closed(r, s) == [r EXCEPT !.status = s, !.match = NoMatch, !.ready = FALSE]

\* The statements that end a row: cancel, decline, expiry, kick.
Close(q, S, s) == Update(q, S, s, {Closed(r, s) : r \in S})

\* cancel_match_queue, first statement: the accepted rows go back to the queue.
AcceptedRows(q, m) == {r \in CheckRows(q, m) : r.ready}

Requeued(r) == [r EXCEPT !.status = "waiting", !.match = NoMatch, !.ready = FALSE]

Requeue(q, m) ==
  Update(q, AcceptedRows(q, m), "waiting", {Requeued(r) : r \in AcceptedRows(q, m)})

\* cancel_match_queue, second statement.
UnreadyRows(q, m) == {r \in CheckRows(q, m) : ~r.ready}

CancelUnready(q, m) == Close(q, UnreadyRows(q, m), "cancelled")

\* set_ready_check: the members of the group that are still waiting.
StillWaiting(q, G) == {r \in RowsIn(q, "waiting") : r.player \in G}

Asked(r, m) == [r EXCEPT !.status = "ready_check", !.match = m, !.ready = FALSE]

SetReadyCheck(q, G, m) ==
  Update(q, StillWaiting(q, G), "ready_check", {Asked(r, m) : r \in StillWaiting(q, G)})

\* set_matched.
Confirmed(r) == [r EXCEPT !.status = "matched"]

SetMatched(q, m) ==
  Update(q, CheckRows(q, m), "matched", {Confirmed(r) : r \in CheckRows(q, m)})

\* Warmup timeout, whatever match the row belongs to.  A present player goes
\* back to the queue (ready is left as it is), an absent one is cancelled.
MatchedRowsOf(q, p) == {r \in RowsOf(q, p) : r.status = "matched"}

Restored(r) == [r EXCEPT !.status = "waiting", !.match = NoMatch]

RestoreMatched(q, p) ==
  Update(q, MatchedRowsOf(q, p), "waiting", {Restored(r) : r \in MatchedRowsOf(q, p)})

CancelMatched(q, p) == Close(q, MatchedRowsOf(q, p), "cancelled")

-----------------------------------------------------------------------------
(* The daemon's SELECTs.                                                   *)

\* Ready checks a player has not accepted: those in which such a player queued
\* more than READY_CHECK_TIMEOUT ago are stale.
OpenChecks(q) ==
  {r.match : r \in {o \in RowsIn(q, "ready_check") : ~o.ready}} \ {NoMatch}

\* Faulty: HAVING SUM(ready) > 0, one accepted row is enough.
FullyReadyAnyone(q) ==
  {r.match : r \in {o \in RowsIn(q, "ready_check") : o.ready}} \ {NoMatch}

\* Faulty: no HAVING, every group is returned.
FullyReadyAll(q) == {r.match : r \in RowsIn(q, "ready_check")} \ {NoMatch}

\* GROUP BY match_id HAVING COUNT( * ) = SUM(ready).  The group of NULL is
\* returned too and dropped by _create_server_for_match, which finds no match.
FullyReady(q) ==
  {m \in {r.match : r \in RowsIn(q, "ready_check")} \ {NoMatch} :
     UnreadyRows(q, m) = {}}
=============================================================================
