------------------------------ MODULE Database ------------------------------
(***************************************************************************)
(* The state the actors of the system share: the MySQL tables              *)
(* (mm_queue, mm_matches with mm_match_players, mm_server_ports,           *)
(* mm_gslt_tokens), the Docker host with the game servers that run on it,  *)
(* and the lobby plugin's per-client flags.  The daemon, the lobby, the    *)
(* game servers and the administrators are modelled in modules that extend *)
(* this one; they meet only here.                                          *)
(***************************************************************************)
EXTENDS QueueTable

CONSTANTS
  Ports,        \* mm_server_ports.port
  Tokens,       \* mm_gslt_tokens.token
  None,         \* SQL NULL, Python None
  MaxAttempts,  \* _CLEANUP_MAX_ATTEMPTS
  Required,     \* players_per_match
  Faults        \* which faults this instance of the system meets

ASSUME NoneAssumption == None \notin Ports /\ None \notin Tokens
ASSUME AttemptsAssumption == MaxAttempts \in Nat \ {0}
ASSUME RequiredAssumption == Required \in Nat \ {0}
ASSUME FaultsAssumption ==
  Faults \subseteq {"crash",     \* the daemon process dies and is restarted
                    "db",        \* a statement of the daemon raises
                    "docker",    \* the Docker API refuses a call
                    "admin"}     \* administrators use the force commands

VARIABLES
  queue,       \* mm_queue
  matches,     \* mm_matches, with the players of mm_match_players
  busyPorts,   \* the ports with in_use = 1
  busyTokens,  \* the tokens with in_use = 1
  server,      \* the container csgo-match-<id> and the phase its plugin is in
  client       \* g_bQueued and g_bReadyCheck of the lobby plugin

dbVars == <<queue, matches, busyPorts, busyTokens>>

MatchStatus == {"none", "creating", "warmup", "live", "finished", "cancelled", "error"}

\* The statuses get_matches_needing_cleanup selects.
Ended == {"finished", "cancelled", "error"}

(***************************************************************************)
(* container: docker_container_id IS NOT NULL.  connected: the players     *)
(* with connected = 1.  attempts: cleanup_attempts, up to the value where   *)
(* it is compared.  A match not created yet has the status "none".          *)
(***************************************************************************)
MatchRow == [status : MatchStatus, players : SUBSET Players,
             port : Ports \cup {None}, token : Tokens \cup {None},
             container : BOOLEAN, connected : SUBSET Players,
             attempts : 0 .. MaxAttempts, cleaned : BOOLEAN]

NoRow == [status |-> "none", players |-> {}, port |-> None, token |-> None,
          container |-> FALSE, connected |-> {}, attempts |-> 0,
          cleaned |-> FALSE]

\* absent: there is no container of that name; stopped: it exists and does not
\* run; over: it runs, and its plugin is done with the match.
ServerPhase == {"absent", "stopped", "warmup", "live", "over"}

Runs(m) == server[m] \in {"warmup", "live", "over"}

ClientState == {"idle", "queued", "asked"}

DatabaseTypeOK ==
  /\ queue \subseteq Row
  /\ matches \in [Matches -> MatchRow]
  /\ busyPorts \subseteq Ports
  /\ busyTokens \subseteq Tokens
  /\ server \in [Matches -> ServerPhase]
  /\ client \in [Players -> ClientState]

\* schema.sql leaves every table empty and every port and token free.
DatabaseInit ==
  /\ queue = {}
  /\ matches = [m \in Matches |-> NoRow]
  /\ busyPorts = {}
  /\ busyTokens = {}
  /\ server = [m \in Matches |-> "absent"]
  /\ client = [p \in Players |-> "idle"]

\* Match ids come in order; m is the next one.
NextMatch(m) ==
  /\ matches[m].status = "none"
  /\ \A n \in Matches : n < m => matches[n].status # "none"

SetStatus(m, s) == matches' = [matches EXCEPT ![m].status = s]

=============================================================================
