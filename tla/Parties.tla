------------------------------ MODULE Parties -------------------------------
(***************************************************************************)
(* Parties of the lobby: csgo_mm_party.sp and the three tables it shares   *)
(* with the queue plugin and the daemon.                                   *)
(*                                                                         *)
(* A command decides by what the plugin has in memory and sends statements *)
(* to the database; the rest of it happens in their callbacks, when other  *)
(* commands have come between.  SourceMod works the statements off in one  *)
(* thread: High before Normal, each in the order sent.  pending is that    *)
(* list.  A statement and its callback are one step, taken when the        *)
(* callback runs: a High statement sent while a Normal one waits may find  *)
(* it done already, or not.  The statements of one handler are sent        *)
(* together, and the Low priority of the expiry timer is taken for Normal. *)
(*                                                                         *)
(* A callback finds its client again by user id: once the client is gone,  *)
(* it finds nobody, even if he is back.                                    *)
(*                                                                         *)
(* Left out: the ratings (any two players are taken to be close enough to  *)
(* invite each other), the rows of mm_queue that leaving and kicking       *)
(* cancel, which are no table of this module, and statements that fail for *)
(* another reason than a key.                                              *)
(***************************************************************************)
EXTENDS Integers, Sequences, FiniteSets

CONSTANTS
  Players,
  Parties,       \* bound: ids of mm_parties, 1..n
  MaxMembers,    \* PARTY_MAX_MEMBERS
  MaxInvites,    \* bound: uses of !party invite
  MaxPending,    \* bound: statements under way
  Nobody

ASSUME PartiesAssumption ==
  /\ IsFiniteSet(Parties) /\ Parties = 1..Cardinality(Parties)
  /\ MaxMembers \in Nat \ {0} /\ MaxInvites \in Nat /\ MaxPending \in Nat
  /\ Nobody \notin Players

VARIABLES
  client,     \* the plugin's arrays: online, party, leader, invite (pending)
  leaderOf,   \* mm_parties: the leader_id of each party that exists, or Nobody
  members,    \* mm_party_members
  invites,    \* mm_party_invites that have not expired
  created,    \* the last id given to a party
  pending,    \* statements sent and not yet answered
  tickets,    \* history: invitations (and foundings) not used for joining
  sent,       \* bound: uses of !party invite
  confused    \* history: a client was given what the tables said before he acted, or
              \* was already in another party when he became a member, or accepted
              \* or founded a party while an accept of his was not yet answered

tables == <<leaderOf, members, invites, created>>
history == <<tickets, sent, confused>>
vars == <<client, tables, pending, history>>

NoParty == 0
Offline == [online |-> FALSE, party |-> NoParty, leader |-> FALSE, invite |-> NoParty]
Online == [Offline EXCEPT !.online = TRUE]

Exists(g) == g \in Parties /\ leaderOf[g] # Nobody
MembersOf(g) == {p \in Players : <<g, p>> \in members}
Leads(p) == \E g \in Parties : leaderOf[g] = p      \* the key uq_leader

-----------------------------------------------------------------------------
(* Statements *)

\* A statement on party g and player p.  known: the callback still finds p's
\* client; to, toKnown: the same for the player an invitation is for.
Statement(do, high, g, p, known, to, toKnown) ==
  [do |-> do, high |-> high, g |-> g, p |-> p, known |-> known, to |-> to, toKnown |-> toKnown]

High(do, g, p) == Statement(do, TRUE, g, p, FALSE, Nobody, FALSE)
Normal(do, g, p) == Statement(do, FALSE, g, p, FALSE, Nobody, FALSE)
For(p, statement) == [statement EXCEPT !.p = p, !.known = TRUE]

\* queue with the High statements behind the High ones in it, before or after
\* any of the Normal ones, and the Normal statements at the end.
Send(queue, high, normal) ==
  \E at \in 0..Len(queue) :
    /\ \A i \in (at + 1)..Len(queue) : ~queue[i].high
    /\ high = <<>> => at = Len(queue)
    /\ pending' = SubSeq(queue, 1, at) \o high \o SubSeq(queue, at + 1, Len(queue)) \o normal
    /\ Len(pending') <= MaxPending

Answered == Head(pending)
Rest == Tail(pending)
Done(do) == pending # <<>> /\ Answered.do = do
Keep == pending' = Rest

\* Faulty: callbacks are handed the client's slot and not his user id.
OrphanedBySlot(p) == pending

\* Every statement under way loses the client p.
Orphaned(p) ==
  [i \in DOMAIN pending |->
    [pending[i] EXCEPT !.known = @ /\ pending[i].p # p,
                       !.toKnown = @ /\ pending[i].to # p]]

Init ==
  /\ client = [p \in Players |-> Online]
  /\ leaderOf = [g \in Parties |-> Nobody]
  /\ members = {} /\ invites = {} /\ created = 0
  /\ pending = <<>> 
  /\ tickets = [g \in Parties |-> [p \in Players |-> 0]] /\ sent = 0 /\ confused = FALSE

-----------------------------------------------------------------------------
(* Clients come and go. *)

OnClientPostAdminCheck(p) ==
  /\ ~client[p].online
  /\ client' = [client EXCEPT ![p] = Online]
  /\ Send(pending, <<>>, <<For(p, Normal("load_party", NoParty, p)),
                           For(p, Normal("load_invite", NoParty, p))>>)
  /\ UNCHANGED <<tables, history>>

\* p is in a party already, or a statement of his is under way.
HasActed(p) ==
  \/ client[p].party # NoParty
  \/ \E i \in DOMAIN pending :
       /\ pending[i].do \notin {"load_party", "load_invite", "check_invite"}
       /\ pending[i].p = p

\* An accept of p's is not answered yet.
Accepting(p) ==
  \E i \in DOMAIN pending :
    pending[i].do \in {"verify", "join"} /\ pending[i].p = p /\ pending[i].known

Overtaken(p) == confused' = (confused \/ HasActed(p)) /\ UNCHANGED <<tickets, sent>>

DB_LoadPartyState ==
  /\ Done("load_party") /\ Keep
  /\ LET p == Answered.p
         mine == {g \in Parties : <<g, p>> \in members}
     IN \/ /\ Answered.known
           /\ \E g \in mine : client' = [client EXCEPT
                ![p].party = g, ![p].leader = (leaderOf[g] = p)]
           /\ Overtaken(p)
        \/ ~(Answered.known /\ mine # {}) /\ UNCHANGED <<client, history>>
  /\ UNCHANGED tables

DB_LoadPendingInvite ==
  /\ Done("load_invite") /\ Keep
  /\ LET p == Answered.p
         mine == {g \in Parties : <<g, p>> \in invites}
     IN \/ /\ Answered.known
           /\ \E g \in mine : client' = [client EXCEPT ![p].invite = g]
           /\ Overtaken(p)
        \/ ~(Answered.known /\ mine # {}) /\ UNCHANGED <<client, history>>
  /\ UNCHANGED tables

\* Faulty: a member who leaves does not look whether he was the last.
FarewellUnchecked(p) ==
  LET leave == High("remove_member", client[p].party, p) IN
  IF client[p].leader
    THEN [high |-> <<leave, High("transfer", client[p].party, Nobody)>>, normal |-> <<>>]
    ELSE [high |-> <<leave>>, normal |-> <<>>]

\* Faulty: whoever leaves hands the party on.
FarewellOfLeader(p) ==
  [high |-> <<High("remove_member", client[p].party, p),
              High("transfer", client[p].party, Nobody)>>, normal |-> <<>>]

\* HandlePartyLeave: the row goes, then the leadership, or a look whether
\* anybody is left.
Farewell(p) ==
  LET leave == High("remove_member", client[p].party, p) IN
  IF client[p].leader
    THEN [high |-> <<leave, High("transfer", client[p].party, Nobody)>>, normal |-> <<>>]
    ELSE [high |-> <<leave>>, normal |-> <<Normal("check_empty", client[p].party, Nobody)>>]

OnClientDisconnect(p) ==
  /\ client[p].online
  /\ client' = [client EXCEPT ![p] = Offline]
  /\ IF client[p].party # NoParty
       THEN Send(Orphaned(p), Farewell(p).high, Farewell(p).normal)
       ELSE pending' = Orphaned(p)
  /\ UNCHANGED <<tables, history>>

Party_Leave(p) ==
  /\ client[p].party # NoParty
  /\ client' = [client EXCEPT ![p] = Online]
  /\ Send(pending, Farewell(p).high, Farewell(p).normal)
  /\ UNCHANGED <<tables, history>>

RemoveMember ==
  /\ Done("remove_member") /\ Keep
  /\ members' = members \ {<<Answered.g, Answered.p>>}
  /\ UNCHANGED <<client, leaderOf, invites, created, history>>

-----------------------------------------------------------------------------
(* Succession and dissolution *)

\* The member who joined first leads, if the key lets him: joined_at has
\* seconds, so any member may be taken for the first.
DB_TransferLeadership ==
  /\ Done("transfer")
  /\ LET g == Answered.g IN
       IF MembersOf(g) = {}
         THEN Send(Rest, <<High("dissolve", g, Nobody)>>, <<>>) /\ UNCHANGED client
         ELSE \E heir \in MembersOf(g) :
                /\ Send(Rest, <<High("set_leader", g, heir)>>, <<>>)
                /\ client' = [client EXCEPT ![heir].leader = @ \/ client[heir].party = g]
  /\ UNCHANGED <<tables, history>>

\* UPDATE mm_parties: fails on uq_leader, does nothing to a party that is gone.
SetLeader ==
  /\ Done("set_leader") /\ Keep
  /\ LET g == Answered.g
         refused == \E h \in Parties \ {g} : leaderOf[h] = Answered.p
     IN /\ leaderOf' = IF Exists(g) /\ ~refused
                         THEN [leaderOf EXCEPT ![g] = Answered.p] ELSE leaderOf
        /\ confused' = (confused \/ (Exists(g) /\ refused))
  /\ UNCHANGED <<client, members, invites, created, tickets, sent>>

DB_CheckPartyEmpty ==
  /\ Done("check_empty")
  /\ IF MembersOf(Answered.g) = {}
       THEN Send(Rest, <<>>, <<Normal("dissolve", Answered.g, Nobody)>>)
       ELSE Keep
  /\ UNCHANGED <<client, tables, history>>

\* DELETE FROM mm_parties: members and invitations go with it (ON DELETE CASCADE).
Dissolve ==
  /\ Done("dissolve") /\ Keep
  /\ LET g == Answered.g IN
       /\ leaderOf' = [leaderOf EXCEPT ![g] = Nobody]
       /\ members' = {m \in members : m[1] # g}
       /\ invites' = {i \in invites : i[1] # g}
  /\ UNCHANGED <<client, created, history>>

-----------------------------------------------------------------------------
(* Invitations *)

\* A player without a party founds one with his first invitation.
Party_Invite(p, q) ==
  /\ p # q /\ client[p].online /\ client[q].online
  /\ client[q].party = NoParty /\ client[q].invite = NoParty
  /\ sent < MaxInvites /\ sent' = sent + 1
  /\ Send(pending, <<Statement("invite", TRUE, client[p].party, p, TRUE, q, TRUE)>>, <<>>)
  /\ UNCHANGED <<client, tables, tickets, confused>>

Ticket(g, whom) ==
  tickets' = [tickets EXCEPT ![g] = [p \in Players |-> @[p] + IF p \in whom THEN 1 ELSE 0]]

IsFull(g) == Cardinality(MembersOf(g)) >= MaxMembers

\* The party must still exist and have room; one that is gone by now is
\* founded anew.  DoSendInvite tells the invited at once and writes the row
\* later, for the party the inviter is in when the answer comes.
DB_InviteCheckParty ==
  /\ Done("invite")
  /\ LET s == Answered
         valid == s.known /\ s.toKnown
         g == client[s.p].party
     IN \/ /\ ~valid \/ (Exists(s.g) /\ IsFull(s.g))
           /\ Keep /\ UNCHANGED <<client, tickets>>
        \/ /\ valid /\ Exists(s.g) /\ ~IsFull(s.g)
           /\ Send(Rest, <<High("add_invite", g, s.to)>>, <<>>)
           /\ client' = [client EXCEPT ![s.to].invite = g]
           /\ IF g \in Parties THEN Ticket(g, {s.to}) ELSE UNCHANGED tickets
        \/ /\ valid /\ ~Exists(s.g)
           /\ Send(Rest, <<[s EXCEPT !.do = "found", !.g = NoParty]>>, <<>>)
           /\ UNCHANGED <<client, tickets>>
  /\ UNCHANGED <<tables, sent, confused>>

\* INSERT INTO mm_parties, which fails if the player leads a party already.
DB_PartyCreated ==
  /\ Done("found")
  /\ LET s == Answered
         g == created + 1
     IN \/ /\ Leads(s.p)
           /\ Keep /\ UNCHANGED <<client, leaderOf, created, tickets, confused>>
        \/ /\ ~Leads(s.p) /\ g \in Parties
           /\ created' = g
           /\ leaderOf' = [leaderOf EXCEPT ![g] = s.p]
           /\ Send(Rest, <<High("add_member", g, s.p), High("add_invite", g, s.to)>>, <<>>)
           /\ Ticket(g, {s.p, s.to})
           /\ client' = [client EXCEPT
                ![s.p] = IF s.known THEN [@ EXCEPT !.party = g, !.leader = TRUE] ELSE @,
                ![s.to] = IF s.toKnown THEN [@ EXCEPT !.invite = g] ELSE @]
           /\ confused' = (confused \/ (s.known /\ Accepting(s.p)))
  /\ UNCHANGED <<members, invites, sent>>

AddInvite ==
  /\ Done("add_invite") /\ Keep
  /\ invites' = IF Exists(Answered.g) THEN invites \cup {<<Answered.g, Answered.p>>} ELSE invites
  /\ UNCHANGED <<client, leaderOf, members, created, history>>

RemoveInvite ==
  /\ Done("remove_invite") /\ Keep
  /\ invites' = invites \ {<<Answered.g, Answered.p>>}
  /\ UNCHANGED <<client, leaderOf, members, created, history>>

\* The invitation runs out; the row is as good as gone.
Expire ==
  /\ \E i \in invites : invites' = invites \ {i}
  /\ UNCHANGED <<client, leaderOf, members, created, pending, history>>

\* Timer_CleanupInvites asks for the row behind the invitation p shows.
Timer_CleanupInvites(p) ==
  /\ client[p].invite # NoParty
  /\ \A i \in DOMAIN pending : ~(pending[i].do = "check_invite" /\ pending[i].p = p)
  /\ Send(pending, <<>>, <<For(p, Normal("check_invite", client[p].invite, p))>>)
  /\ UNCHANGED <<client, tables, history>>

DB_InviteExpired ==
  /\ Done("check_invite") /\ Keep
  /\ client' = IF Answered.known /\ <<Answered.g, Answered.p>> \notin invites
                 THEN [client EXCEPT ![Answered.p].invite = NoParty] ELSE client
  /\ UNCHANGED <<tables, history>>

Party_Decline(p) ==
  /\ client[p].invite # NoParty
  /\ client' = [client EXCEPT ![p].invite = NoParty]
  /\ Send(pending, <<>>, <<Normal("remove_invite", client[p].invite, p)>>)
  /\ UNCHANGED <<tables, history>>

-----------------------------------------------------------------------------
(* Joining *)

\* The invitation stays in memory until the last answer, so it can be accepted again.
Party_Accept(p) ==
  /\ client[p].invite # NoParty /\ client[p].party = NoParty
  /\ Send(pending, <<For(p, High("verify", client[p].invite, p))>>, <<>>)
  /\ confused' = (confused \/ Accepting(p))
  /\ UNCHANGED <<client, tables, tickets, sent>>

\* Faulty: the invitation is left in the table.
AdmissionKeepsInvite(g, p) == <<For(p, High("join", g, p))>>

Admission(g, p) == <<For(p, High("join", g, p)), High("remove_invite", g, p)>>

\* The party joined is the one p is shown an invitation to by now, not the
\* one that was verified.
DB_AcceptVerify ==
  /\ Done("verify")
  /\ LET p == Answered.p
         valid == <<Answered.g, p>> \in invites /\ ~IsFull(Answered.g)
         g == client[p].invite
     IN \/ ~Answered.known /\ Keep /\ UNCHANGED client
        \/ /\ Answered.known /\ ~valid
           /\ Keep /\ client' = [client EXCEPT ![p].invite = NoParty]
        \/ /\ Answered.known /\ valid
           /\ Send(Rest, Admission(g, p), <<>>)
           /\ UNCHANGED client
  /\ UNCHANGED <<tables, history>>

\* INSERT IGNORE: a party that is gone gets no member, and nobody notices.
Insert(g, p) ==
  /\ IF Exists(g) /\ <<g, p>> \notin members
       THEN /\ members' = members \cup {<<g, p>>}
            /\ tickets' = [tickets EXCEPT ![g][p] = @ - 1]
       ELSE UNCHANGED <<members, tickets>>
  /\ confused' = (confused \/ \E h \in Parties \ {g} : <<h, p>> \in members)
  /\ UNCHANGED <<leaderOf, invites, created, sent>>

DB_AcceptJoined ==
  /\ Done("join") /\ Keep
  /\ Insert(Answered.g, Answered.p)
  /\ client' = IF Answered.known
       THEN [client EXCEPT ![Answered.p] = [Online EXCEPT !.party = Answered.g]]
       ELSE client

AddMember ==
  /\ Done("add_member") /\ Keep
  /\ Insert(Answered.g, Answered.p)
  /\ UNCHANGED client

Party_Kick(p, q) ==
  /\ p # q /\ client[p].leader /\ client[p].party # NoParty
  /\ client[q].online /\ client[q].party = client[p].party
  /\ client' = [client EXCEPT ![q].party = NoParty, ![q].leader = FALSE]
  /\ Send(pending, <<High("remove_member", client[p].party, q)>>, <<>>)
  /\ UNCHANGED <<tables, history>>

-----------------------------------------------------------------------------
Command ==
  \/ \E p \in Players : \/ OnClientPostAdminCheck(p) \/ OnClientDisconnect(p)
                        \/ Party_Leave(p) \/ Party_Accept(p) \/ Party_Decline(p)
                        \/ Timer_CleanupInvites(p)
  \/ \E p, q \in Players : Party_Invite(p, q) \/ Party_Kick(p, q)
  \/ Expire

Callback ==
  \/ DB_LoadPartyState \/ DB_LoadPendingInvite \/ DB_InviteCheckParty \/ DB_PartyCreated
  \/ DB_AcceptVerify \/ DB_AcceptJoined \/ DB_TransferLeadership \/ DB_CheckPartyEmpty
  \/ DB_InviteExpired
  \/ AddMember \/ RemoveMember \/ SetLeader \/ Dissolve \/ AddInvite \/ RemoveInvite

Next == Command \/ Callback

Spec == Init /\ [][Next]_vars

-----------------------------------------------------------------------------
(* Properties *)

Statements ==
  [do : {"load_party", "load_invite", "remove_member", "transfer", "set_leader",
         "check_empty", "dissolve", "invite", "found", "add_member", "add_invite",
         "remove_invite", "check_invite", "verify", "join"},
   high : BOOLEAN, g : Parties \cup {NoParty}, p : Players \cup {Nobody},
   known : BOOLEAN, to : Players \cup {Nobody}, toKnown : BOOLEAN]

\* Types, and a client who is gone has left nothing in the plugin's arrays.
TypeOK ==
  /\ client \in [Players -> [online : BOOLEAN, party : Parties \cup {NoParty},
                             leader : BOOLEAN, invite : Parties \cup {NoParty}]]
  /\ leaderOf \in [Parties -> Players \cup {Nobody}]
  /\ members \subseteq Parties \X Players /\ invites \subseteq Parties \X Players
  /\ created \in 0..Cardinality(Parties)
  /\ pending \in Seq(Statements) /\ Len(pending) <= MaxPending
  /\ tickets \in [Parties -> [Players -> Int]]
  /\ sent \in 0..MaxInvites /\ confused \in BOOLEAN
  /\ \A p \in Players : client[p].online \/ client[p] = Offline

\* No two clients are the leader of one party, however leaving, joining,
\* kicking and succession interleave.
OneLeader ==
  ~confused => \A g \in Parties, p, q \in Players :
    /\ client[p].leader /\ client[p].party = g
    /\ client[q].leader /\ client[q].party = g
    => p = q

\* An invitation lets the invited in once: whoever left or was kicked and is
\* a member again was invited again.
InvitedOnly ==
  ~confused => \A g \in Parties, p \in Players : tickets[g][p] >= 0

\* Once every statement is answered, a party that exists has a member: the
\* last to leave dissolves it, whoever leaves meanwhile.
NoEmptyParty ==
  ~confused /\ pending = <<>> =>
    \A g \in Parties : Exists(g) => MembersOf(g) # {}

=============================================================================
