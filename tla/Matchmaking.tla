---------------------------- MODULE Matchmaking -----------------------------
(***************************************************************************)
(* The whole pipeline, from the queue to the released port: the lobby, the *)
(* daemon, the game servers and the administrators, interleaved on the     *)
(* database.                                                               *)
(***************************************************************************)
EXTENDS Lobby, GameServers, Daemon

vars == <<queue, matches, busyPorts, busyTokens, server, client,
          pc, group, absent, port, token, todo, ended, gone, cur>>

Init == DatabaseInit /\ DaemonInit

Next ==
  \/ DaemonStep
  \/ LobbyStep /\ UNCHANGED daemonVars
  \/ ServerStep /\ UNCHANGED daemonVars

Spec == Init /\ [][Next]_vars

\* The daemon's loop runs as long as its process does: main() never leaves it.
FairSpec == Spec /\ WF_vars(Tick)

-----------------------------------------------------------------------------
\* Every variable has the type its declaration says.
TypeOK == DatabaseTypeOK /\ DaemonTypeOK

-----------------------------------------------------------------------------
(* Ports and tokens.                                                       *)

\* Created and not yet cleaned up: the match's server may own its port.
Holds(m) == matches[m].status # "none" /\ ~matches[m].cleaned

\* Two matches that are not cleaned up never have the same port or the same
\* token (claim_free_port, claim_free_gslt, and the releases of steps 3 and 5).
LeaseExclusive ==
  \A m, n \in Matches :
    m # n /\ Holds(m) /\ Holds(n) =>
      matches[m].port # matches[n].port /\ matches[m].token # matches[n].token

\* The port and the token of a match in use are marked in use: no statement
\* that releases those of another match takes them away.
LeaseKept ==
  \A m \in Matches :
    matches[m].status \in {"creating", "warmup", "live"} /\ ~matches[m].cleaned =>
      matches[m].port \in busyPorts /\ matches[m].token \in busyTokens

\* A port or token marked in use belongs to a match that is not cleaned up or
\* is in the hands of the daemon: no path of the tick leaks one.
LeaseAccounted ==
  /\ busyPorts \subseteq
       {matches[m].port : m \in {n \in Matches : Holds(n)}} \cup {port}
         \cup (IF pc = "clean_port" THEN {matches[cur].port} ELSE {})
  /\ busyTokens \subseteq
       {matches[m].token : m \in {n \in Matches : Holds(n)}} \cup {token}
         \cup (IF pc \in {"clean_port", "clean_gslt"} THEN {matches[cur].token} ELSE {})

\* mm_server_ports.port is a number, and not one of the words PortLease has for
\* a match without a port.
ASSUME PortsAssumption == {"unused", "returned"} \cap Ports = {}

\* The pool as PortLease sees it.
LeaseOf(m) == IF matches[m].status = "none" THEN "unused"
              ELSE IF matches[m].cleaned THEN "returned" ELSE matches[m].port

Lease == INSTANCE PortLease
  WITH Limit <- MaxAttempts,
       lease <- [m \in Matches |-> LeaseOf(m)],
       running <- {m \in Matches : Runs(m)},
       refusals <- [m \in Matches |-> matches[m].attempts]

\* A match gets one port, before its server starts, and gives it back once,
\* after its server is gone or could not be removed MaxAttempts times.
ImplementsLease == Lease!LeaseSpec

-----------------------------------------------------------------------------
(* Ready checks.                                                           *)

\* Whoever is sent to a server has accepted the ready check.
ConsentToMatch == \A r \in RowsIn(queue, "matched") : r.ready

\* Players are sent to a match only when its container is recorded.
MatchedHasServer ==
  \A r \in RowsIn(queue, "matched") : matches[r.match].container

\* A server starts only when nobody left in its ready check still has to
\* answer, however the answers fell between the daemon's SELECTs.
ServerForTheReady ==
  [][\A m \in Matches :
       ~Runs(m) /\ Runs(m)' => UnreadyRows(queue, m) = {}]_vars

\* What the docstring of set_matched says, and the code does not do: once it
\* ran, nobody is left in the ready check.
EverybodyIsMatched ==
  [][pc = "set_matched" /\ pc' = "ready" => CheckRows(queue', cur) = {}]_vars

-----------------------------------------------------------------------------
(* Progress of the daemon.                                                 *)

\* A match that has ended is cleaned up, unless its own server reopens it.
EndedIsCleaned ==
  \A m \in Matches :
    matches[m].status \in Ended ~> matches[m].cleaned \/ matches[m].status \notin Ended

\* A ready check everybody left in it accepted ends: the match leaves
\* "creating", or the players leave the check.
AcceptedMovesOn ==
  \A m \in Matches :
    (m \in FullyReady(queue) /\ matches[m].status = "creating")
      ~> (m \notin FullyReady(queue) \/ matches[m].status # "creating")

\* A match still "creating" whose ready check has no row left.
Abandoned(m) ==
  /\ matches[m].status = "creating"
  /\ CheckRows(queue, m) = {}
  /\ cur # m

\* What schema.sql says of the status "creating" (the container is being spun
\* up), and the code does not do: a match whose ready check broke up leaves it,
\* so that step 5 can return its port and its token.
AbandonedIsReleased ==
  \A m \in Matches : Abandoned(m) ~> matches[m].status # "creating"
=============================================================================
