----------------------------- MODULE PortLease ------------------------------
(***************************************************************************)
(* What the port pool promises, without the database: a match takes one    *)
(* port, once, before its server runs; the port is its own until it is     *)
(* returned; and it is returned only when the server is gone, or when the  *)
(* host refused Limit times to remove it.                                  *)
(***************************************************************************)
EXTENDS Naturals

CONSTANTS Ports, Matches, Limit

VARIABLES
  lease,     \* the port of a match while it holds one, else Unused or Returned
  running,   \* the matches whose server runs
  refusals   \* how often the removal of its server was refused

leaseVars == <<lease, running, refusals>>

Unused == "unused"
Returned == "returned"

LeaseInit ==
  /\ lease = [m \in Matches |-> Unused]
  /\ running = {}
  /\ refusals = [m \in Matches |-> 0]

Acquire(m, p) ==
  /\ lease[m] = Unused
  /\ \A n \in Matches : lease[n] # p
  /\ lease' = [lease EXCEPT ![m] = p]
  /\ UNCHANGED <<running, refusals>>

Start(m) ==
  /\ lease[m] \in Ports
  /\ m \notin running
  /\ running' = running \cup {m}
  /\ UNCHANGED <<lease, refusals>>

Stop(m) ==
  /\ m \in running
  /\ running' = running \ {m}
  /\ UNCHANGED <<lease, refusals>>

Refuse(m) ==
  /\ lease[m] \in Ports
  /\ refusals[m] < Limit
  /\ refusals' = [refusals EXCEPT ![m] = @ + 1]
  /\ UNCHANGED <<lease, running>>

Return(m) ==
  /\ lease[m] \in Ports
  /\ m \notin running \/ refusals[m] = Limit
  /\ lease' = [lease EXCEPT ![m] = Returned]
  /\ UNCHANGED <<running, refusals>>

LeaseNext ==
  \E m \in Matches :
    \/ \E p \in Ports : Acquire(m, p)
    \/ Start(m) \/ Stop(m) \/ Refuse(m) \/ Return(m)

LeaseSpec == LeaseInit /\ [][LeaseNext]_leaseVars
=============================================================================
