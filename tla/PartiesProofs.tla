----------------------------- MODULE PartiesProofs -----------------------------
(***************************************************************************)
(* Parties, for every number of players, parties, members, invitations and *)
(* statements under way: the plugin's arrays and the tables keep their     *)
(* types, and while nobody is confused no party has two leaders, nobody    *)
(* enters uninvited and no party is left without members.                  *)
(*                                                                         *)
(* None of these is inductive: what a table will be depends on what is     *)
(* still in the list.  Base says what stands in the list; Regular says, of *)
(* the statements under way, that joining, membership, succession and      *)
(* invitations will come out right.  A step is read as two maps between    *)
(* the places of the list before it and after it: place, where a statement *)
(* that waits goes, and org, where one came from.                          *)
(***************************************************************************)
EXTENDS Parties, FiniteSetTheorems, SequenceTheorems, TLAPS

\* What the handlers send: the statements of a succession and of joining are High,
\* and all but those on a party as a whole are about a player.
HighKinds == {"remove_member", "transfer", "set_leader", "invite", "found",
              "add_member", "add_invite", "verify", "join"}
OnParty == {"transfer", "dissolve", "check_empty"}
Shaped ==
  {s \in Statements :
     /\ s.do \in HighKinds => s.high
     /\ s.do \notin OnParty => s.p \in Players
     /\ s.do \in OnParty \cup {"set_leader", "remove_member", "add_member"} => s.g \in Parties
     /\ s.do \in {"invite", "found"} => s.to \in Players /\ s.to # s.p}

Clients == [online : BOOLEAN, party : Parties \cup {NoParty},
            leader : BOOLEAN, invite : Parties \cup {NoParty}]

ClientsOK ==
  /\ client \in [Players -> Clients]
  /\ \A p \in Players : /\ client[p].online \/ client[p] = Offline
                        /\ client[p].party <= created /\ client[p].invite <= created

TablesOK ==
  /\ leaderOf \in [Parties -> Players \cup {Nobody}] /\ created \in 0..Cardinality(Parties)
  /\ members \subseteq Parties \X Players /\ invites \subseteq Parties \X Players
  /\ \A g \in Parties : Exists(g) => g <= created
  /\ \A m \in members : Exists(m[1])
  /\ \A i \in invites : i[1] <= created

\* The clients a callback of s still finds are on the server.
Present(clients, s) ==
  /\ s.known => s.p \in Players /\ clients[s.p].online
  /\ s.toKnown => s.to \in Players /\ clients[s.to].online

\* No statement is about a party that is still to come, and one founds each.
ListOK ==
  /\ pending \in Seq(Shaped) /\ Len(pending) <= MaxPending
  /\ \A i \in DOMAIN pending : Present(client, pending[i])
  /\ \A i \in DOMAIN pending : pending[i].g <= created
  /\ \A g \in Parties, i, j \in DOMAIN pending :
       /\ pending[i].do = "add_member" /\ pending[i].g = g
       /\ pending[j].do = "add_member" /\ pending[j].g = g
       => i = j

CountsOK ==
  /\ tickets \in [Parties -> [Players -> Int]]
  /\ sent \in 0..MaxInvites /\ confused \in BOOLEAN

Base == ClientsOK /\ TablesOK /\ ListOK /\ CountsOK

-----------------------------------------------------------------------------
\* t is s, except that the clients of lost are gone.
Still(t, s, lost) ==
  /\ t.do = s.do /\ t.high = s.high /\ t.g = s.g /\ t.p = s.p /\ t.to = s.to
  /\ t.known = (s.known /\ s.p \notin lost)
  /\ t.toKnown = (s.toKnown /\ s.to \notin lost)

\* The numbers of parties are 1..n, and NoParty is none of them.
LEMMA PartyNumbers ==
  /\ Cardinality(Parties) \in Nat
  /\ \A g : g \in Parties <=> g \in 1..Cardinality(Parties)
  /\ NoParty \notin Parties
BY PartiesAssumption, FS_CardinalityType DEF NoParty

\* The list of statements, read by its places.
LEMMA ListOf ==
  ASSUME NEW S, NEW q \in Seq(S)
  PROVE  /\ Len(q) \in Nat /\ DOMAIN q = 1..Len(q)
         /\ \A i \in 1..Len(q) : q[i] \in S
         /\ q # <<>> => Len(q) >= 1 /\ Head(q) = q[1]
         /\ q # <<>> => /\ Tail(q) \in Seq(S) /\ Len(Tail(q)) = Len(q) - 1
                        /\ \A i \in 1..(Len(q) - 1) : Tail(q)[i] = q[i + 1]
<1>1. Len(q) \in Nat /\ DOMAIN q = 1..Len(q) /\ \A i \in 1..Len(q) : q[i] \in S
  BY LenProperties, ElementOfSeq
<1>2. ASSUME q # <<>> PROVE Len(q) >= 1 /\ Head(q) = q[1]
  BY <1>2, EmptySeq, <1>1
<1>3. ASSUME q # <<>> 
      PROVE /\ Tail(q) \in Seq(S) /\ Len(Tail(q)) = Len(q) - 1
            /\ \A i \in 1..(Len(q) - 1) : Tail(q)[i] = q[i + 1]
  BY <1>3, HeadTailProperties
<1> QED BY <1>1, <1>2, <1>3

Inserted(at, q, high, normal) ==
  /\ \A i \in 1..at : pending'[i] = q[i]
  /\ \A i \in (at + 1)..Len(q) : pending'[i + Len(high)] = q[i] /\ ~q[i].high
  /\ \A k \in 1..Len(high) : pending'[at + k] = high[k]
  /\ \A k \in 1..Len(normal) : pending'[Len(q) + Len(high) + k] = normal[k]
  /\ high = <<>> => at = Len(q)

\* Send puts the High statements at a place with no High one behind it, and the
\* Normal statements at the end.
LEMMA SendPlaces ==
  ASSUME NEW q \in Seq(Shaped), NEW high \in Seq(Shaped), NEW normal \in Seq(Shaped),
         Send(q, high, normal)
  PROVE  /\ pending' \in Seq(Shaped) /\ Len(pending') <= MaxPending
         /\ Len(pending') = Len(q) + Len(high) + Len(normal)
         /\ \E at \in 0..Len(q) : Inserted(at, q, high, normal)
<1>1. PICK at \in 0..Len(q) :
        /\ \A i \in (at + 1)..Len(q) : ~q[i].high
        /\ high = <<>> => at = Len(q)
        /\ pending' = SubSeq(q, 1, at) \o high \o SubSeq(q, at + 1, Len(q)) \o normal
        /\ Len(pending') <= MaxPending
  BY DEF Send
<1> DEFINE before == SubSeq(q, 1, at)
           behind == SubSeq(q, at + 1, Len(q))
<1>2. Len(q) \in Nat /\ Len(high) \in Nat /\ Len(normal) \in Nat /\ at \in Nat /\ at <= Len(q)
      /\ \A i \in 1..Len(q) : q[i] \in Shaped
  BY ListOf
<1>3. before \in Seq(Shaped) /\ Len(before) = at /\ \A i \in 1..at : before[i] = q[i]
  <2>1. /\ Len(before) = IF 1 <= at THEN at - 1 + 1 ELSE 0
        /\ before \in Seq(Shaped)
        /\ \A i \in 1..(at - 1 + 1) : before[i] = q[1 + i - 1]
    BY <1>2, SubSeqProperties
  <2> QED BY <2>1, <1>2
<1>4. /\ behind \in Seq(Shaped) /\ Len(behind) = Len(q) - at
      /\ \A i \in 1..(Len(q) - at) : behind[i] = q[at + i]
  <2>1. /\ Len(behind) = IF at + 1 <= Len(q) THEN Len(q) - (at + 1) + 1 ELSE 0
        /\ behind \in Seq(Shaped)
        /\ \A i \in 1..(Len(q) - (at + 1) + 1) : behind[i] = q[at + 1 + i - 1]
    BY <1>2, SubSeqProperties
  <2>2. Len(q) - (at + 1) + 1 = Len(q) - at /\ \A i \in 1..(Len(q) - at) : at + 1 + i - 1 = at + i
    BY <1>2
  <2>3. Len(behind) = Len(q) - at
    BY <2>1, <1>2
  <2>4. ASSUME NEW i \in 1..(Len(q) - at) PROVE behind[i] = q[at + i]
    <3>1. behind[i] = q[at + 1 + i - 1]
      BY <2>1, <2>2
    <3> QED BY <2>2, <3>1
  <2> QED BY <2>1, <2>3, <2>4
<1> HIDE DEF before, behind
<1> DEFINE front == before \o high
           most == front \o behind
<1>5. /\ front \in Seq(Shaped) /\ Len(front) = at + Len(high)
      /\ \A i \in 1..(at + Len(high)) : front[i] = IF i <= at THEN before[i] ELSE high[i - at]
  BY <1>3, ConcatProperties
<1> HIDE DEF front
<1>6. /\ most \in Seq(Shaped) /\ Len(most) = Len(q) + Len(high)
      /\ \A i \in 1..(Len(q) + Len(high)) :
           most[i] = IF i <= at + Len(high) THEN front[i] ELSE behind[i - (at + Len(high))]
  <2>1. Len(front) + Len(behind) = Len(q) + Len(high)
    BY <1>2, <1>4, <1>5
  <2>2. /\ most \in Seq(Shaped) /\ Len(most) = Len(front) + Len(behind)
        /\ \A i \in 1..(Len(front) + Len(behind)) :
             most[i] = IF i <= Len(front) THEN front[i] ELSE behind[i - Len(front)]
    BY <1>4, <1>5, ConcatProperties
  <2> HIDE DEF most
  <2>3. Len(front) = at + Len(high)
    BY <1>5
  <2> QED BY <2>1, <2>2, <2>3
<1>7. pending' = most \o normal
  BY <1>1 DEF front, before, behind
<1> HIDE DEF most
<1>8. /\ pending' \in Seq(Shaped) /\ Len(pending') = Len(q) + Len(high) + Len(normal)
      /\ \A i \in 1..(Len(q) + Len(high) + Len(normal)) :
           pending'[i] = IF i <= Len(q) + Len(high) THEN most[i]
                         ELSE normal[i - (Len(q) + Len(high))]
  <2> DEFINE whole == most \o normal
  <2>1. /\ whole \in Seq(Shaped) /\ Len(whole) = Len(most) + Len(normal)
        /\ \A i \in 1..(Len(most) + Len(normal)) :
             whole[i] = IF i <= Len(most) THEN most[i] ELSE normal[i - Len(most)]
    <3>1. most \in Seq(Shaped)
      BY <1>6
    <3> QED BY <3>1, ConcatProperties
  <2>3. pending' = whole
    BY <1>7
  <2> HIDE DEF whole
  <2>2. Len(most) = Len(q) + Len(high)
    BY <1>6
  <2> QED BY <2>1, <2>2, <2>3
<1>9. ASSUME NEW i \in 1..at PROVE pending'[i] = q[i]
  <2>1. i \in 1..(Len(q) + Len(high)) /\ i <= at + Len(high) /\ i \in 1..(at + Len(high)) /\ i <= at
        /\ i \in 1..(Len(q) + Len(high) + Len(normal)) /\ i <= Len(q) + Len(high)
    BY <1>2
  <2>2. before[i] = q[i] /\ front[i] = before[i]
    BY <1>3, <1>5, <2>1
  <2>3. most[i] = front[i]
    BY <1>6, <2>1
  <2>4. pending'[i] = most[i]
    BY <1>8, <2>1
  <2> QED BY <2>2, <2>3, <2>4
<1>10. ASSUME NEW i \in (at + 1)..Len(q) PROVE pending'[i + Len(high)] = q[i]
  <2>1. i + Len(high) \in 1..(Len(q) + Len(high)) /\ ~(i + Len(high) <= at + Len(high))
        /\ i + Len(high) - (at + Len(high)) = i - at /\ i - at \in 1..(Len(q) - at) /\ at + (i - at) = i
    BY <1>2
  <2>2. pending'[i + Len(high)] = most[i + Len(high)]
    BY <1>2, <1>8, <2>1
  <2>3. most[i + Len(high)] = behind[i - at]
    BY <1>6, <2>1
  <2> QED BY <2>1, <2>2, <2>3, <1>4
<1>11. ASSUME NEW k \in 1..Len(high) PROVE pending'[at + k] = high[k]
  <2>1. at + k \in 1..(at + Len(high)) /\ ~(at + k <= at) /\ (at + k) - at = k
        /\ at + k \in 1..(Len(q) + Len(high)) /\ at + k <= at + Len(high)
    BY <1>2
  <2>2. front[at + k] = high[k]
    BY <1>5, <2>1
  <2>3. most[at + k] = front[at + k]
    BY <1>6, <2>1
  <2>4. pending'[at + k] = most[at + k]
    BY <1>2, <1>8, <2>1
  <2> QED BY <2>2, <2>3, <2>4
<1>12. ASSUME NEW k \in 1..Len(normal) PROVE pending'[Len(q) + Len(high) + k] = normal[k]
  <2>1. Len(q) + Len(high) + k \in 1..(Len(q) + Len(high) + Len(normal))
        /\ ~(Len(q) + Len(high) + k <= Len(q) + Len(high))
        /\ Len(q) + Len(high) + k - (Len(q) + Len(high)) = k
    BY <1>2
  <2> QED BY <1>8, <2>1
<1>13. Inserted(at, q, high, normal)
  BY <1>1, <1>9, <1>10, <1>11, <1>12 DEF Inserted
<1> QED BY <1>1, <1>8, <1>13

\* The statements that lose their client p: nothing else of them changes.
LEMMA OrphanedPlaces ==
  ASSUME pending \in Seq(Shaped), NEW p
  PROVE  /\ Orphaned(p) \in Seq(Shaped) /\ Len(Orphaned(p)) = Len(pending)
         /\ \A i \in 1..Len(pending) : Still(Orphaned(p)[i], pending[i], {p})
<1>1. Len(pending) \in Nat /\ DOMAIN pending = 1..Len(pending)
      /\ \A i \in 1..Len(pending) : pending[i] \in Shaped
  BY ListOf
<1> DEFINE e(i) == [pending[i] EXCEPT !.known = @ /\ pending[i].p # p,
                                      !.toKnown = @ /\ pending[i].to # p]
<1>2. ASSUME NEW i \in 1..Len(pending) PROVE e(i) \in Shaped /\ Still(e(i), pending[i], {p})
  BY <1>1 DEF Shaped, Statements, Still
<1>3. Orphaned(p) = [i \in 1..Len(pending) |-> e(i)]
  BY <1>1 DEF Orphaned
<1> HIDE DEF e
<1>4. [i \in 1..Len(pending) |-> e(i)] \in [1..Len(pending) -> Shaped]
  BY <1>2
<1>5. Orphaned(p) \in Seq(Shaped)
  BY <1>1, <1>3, <1>4, SeqDef
<1>6. Len(Orphaned(p)) = Len(pending)
  BY <1>1, <1>3, <1>5, LenProperties
<1> QED BY <1>2, <1>3, <1>5, <1>6

-----------------------------------------------------------------------------
\* What a step does to the list, as two maps between the places before and after.
\* gone is 1 when the first statement is answered; lost are the players whose
\* clients go; a new statement comes from place 0.
Follows(gone, lost, place, org) ==
  /\ gone \in {0, 1} /\ gone <= Len(pending)
  /\ org \in [DOMAIN pending' -> 0..Len(pending)]
  /\ \A i \in (gone + 1)..Len(pending) : place[i] \in DOMAIN pending' /\ org[place[i]] = i
  /\ \A i, k \in (gone + 1)..Len(pending) : i < k => place[i] < place[k]
  /\ \A j \in DOMAIN pending' : org[j] # 0 =>
       /\ org[j] > gone /\ place[org[j]] = j
       /\ Still(pending'[j], pending[org[j]], lost)

\* A new High statement has no High one behind it, a new Normal one none at all.
NewHigh(gone, place, org, j, s) ==
  /\ j \in DOMAIN pending' /\ org[j] = 0 /\ pending'[j] = s
  /\ \A i \in (gone + 1)..Len(pending) : pending[i].high => place[i] < j
NewNormal(gone, place, org, j, s) ==
  /\ j \in DOMAIN pending' /\ org[j] = 0 /\ pending'[j] = s
  /\ \A i \in (gone + 1)..Len(pending) : place[i] < j

Only(org, new) == \A j \in DOMAIN pending' : org[j] = 0 => j \in new

\* A list that is pending, its rest or the orphaned one.
From(q, gone, lost) ==
  /\ q \in Seq(Shaped) /\ gone \in {0, 1} /\ gone <= Len(pending)
  /\ Len(q) = Len(pending) - gone
  /\ \A i \in 1..Len(q) : Still(q[i], pending[i + gone], lost)

Sent(gone, lost, place, org, at, q, high, normal) ==
  /\ at \in 0..Len(q) /\ Follows(gone, lost, place, org)
  /\ \A k \in 1..Len(high) : NewHigh(gone, place, org, at + k, high[k])
  /\ \A k \in 1..Len(normal) :
       NewNormal(gone, place, org, Len(q) + Len(high) + k, normal[k])
  /\ \A j \in DOMAIN pending' : org[j] = 0 =>
       \/ \E k \in 1..Len(high) : j = at + k
       \/ \E k \in 1..Len(normal) : j = Len(q) + Len(high) + k

\* Send is a step of the list: what waits keeps its order, and the new statements stand
\* where their priority puts them.
LEMMA SentFollows ==
  ASSUME NEW q, NEW high \in Seq(Shaped), NEW normal \in Seq(Shaped),
         Send(q, high, normal), pending \in Seq(Shaped),
         NEW gone, NEW lost, From(q, gone, lost)
  PROVE  /\ pending' \in Seq(Shaped) /\ Len(pending') <= MaxPending
         /\ \E place, org, at : Sent(gone, lost, place, org, at, q, high, normal)
<1>0. /\ q \in Seq(Shaped) /\ gone \in {0, 1} /\ gone <= Len(pending)
      /\ Len(q) = Len(pending) - gone
      /\ \A i \in 1..Len(q) : Still(q[i], pending[i + gone], lost)
  BY DEF From
<1>1. PICK at \in 0..Len(q) : Inserted(at, q, high, normal)
  BY <1>0, SendPlaces
<1>2. /\ pending' \in Seq(Shaped) /\ Len(pending') <= MaxPending
      /\ Len(pending') = Len(q) + Len(high) + Len(normal)
  BY <1>0, SendPlaces
<1> DEFINE n == Len(q)  h == Len(high)  m == Len(normal)  n0 == Len(pending)
<1>3. /\ n \in Nat /\ h \in Nat /\ m \in Nat /\ n0 \in Nat /\ n0 = n + gone /\ gone \in Nat
      /\ DOMAIN pending' = 1..(n + h + m) /\ at \in Nat /\ at <= n
  <2>1. n \in Nat /\ h \in Nat /\ m \in Nat /\ n0 \in Nat /\ DOMAIN pending' = 1..Len(pending')
    BY <1>0, <1>2, ListOf
  <2> QED BY <2>1, <1>0, <1>2
<1> DEFINE org == [j \in 1..(n + h + m) |->
                     IF j <= at THEN j + gone
                     ELSE IF at + h < j /\ j <= n + h THEN j - h + gone ELSE 0]
           place == [i \in (gone + 1)..n0 |-> IF i - gone <= at THEN i - gone ELSE i - gone + h]
<1> HIDE DEF n, h, m, n0
<1>4. org \in [1..(n + h + m) -> 0..n0]
  BY <1>3
<1>5. ASSUME NEW i \in (gone + 1)..n0
      PROVE  place[i] \in 1..(n + h + m) /\ org[place[i]] = i
  BY <1>3
<1>6. ASSUME NEW i \in (gone + 1)..n0, NEW k \in (gone + 1)..n0, i < k PROVE place[i] < place[k]
  BY <1>3, <1>6
<1>7. ASSUME NEW j \in 1..(n + h + m), org[j] # 0
      PROVE  org[j] > gone /\ place[org[j]] = j /\ Still(pending'[j], pending[org[j]], lost)
  <2>1. CASE j <= at
    <3>1. org[j] = j + gone /\ pending'[j] = q[j] /\ j \in 1..n
      BY <1>1, <1>3, <2>1 DEF Inserted
    <3>2. Still(q[j], pending[j + gone], lost)
      BY <3>1, <1>0 DEF n
    <3>3. place[j + gone] = j /\ j + gone > gone
      BY <1>3, <3>1, <2>1
    <3> QED BY <3>1, <3>2, <3>3
  <2>2. CASE at + h < j /\ j <= n + h
    <3>1. org[j] = j - h + gone /\ j - h \in (at + 1)..n /\ j - h \in 1..n /\ (j - h) + h = j
      BY <1>3, <2>2
    <3>2. pending'[j] = q[j - h]
      BY <1>1, <3>1 DEF n, h, Inserted
    <3>3. Still(q[j - h], pending[(j - h) + gone], lost)
      BY <1>0, <3>1 DEF n
    <3> QED BY <3>1, <3>2, <3>3, <1>3, <2>2
  <2> QED BY <1>3, <1>7, <2>1, <2>2
<1>8. ASSUME NEW k \in 1..h PROVE NewHigh(gone, place, org, at + k, high[k])
  <2>1. at + k \in 1..(n + h + m) /\ org[at + k] = 0
    BY <1>3
  <2>2. pending'[at + k] = high[k]
    BY <1>1 DEF h, Inserted
  <2>3. ASSUME NEW i \in (gone + 1)..n0, pending[i].high PROVE place[i] < at + k
    <3>1. i - gone \in 1..n /\ (i - gone) + gone = i
      BY <1>3
    <3>2. Still(q[i - gone], pending[i], lost)
      BY <1>0, <3>1 DEF n
    <3>3. q[i - gone].high
      BY <2>3, <3>2 DEF Still
    <3>4. i - gone <= at
      BY <1>1, <1>3, <3>1, <3>3 DEF n, Inserted
    <3> QED BY <3>4, <1>3
  <2> HIDE DEF org, place
  <2> QED BY <2>1, <2>2, <2>3, <1>3 DEF NewHigh, n0
<1>9. ASSUME NEW k \in 1..m PROVE NewNormal(gone, place, org, n + h + k, normal[k])
  <2>1. n + h + k \in 1..(n + h + m)
    BY <1>3
  <2>2. org[n + h + k] = 0
    BY <1>3, <2>1
  <2>3. pending'[n + h + k] = normal[k]
    BY <1>1 DEF n, h, m, Inserted
  <2>4. \A i \in (gone + 1)..n0 : place[i] < n + h + k
    BY <1>3
  <2> HIDE DEF org, place
  <2> QED BY <2>1, <2>2, <2>3, <2>4, <1>3 DEF NewNormal, n0
<1>10. ASSUME NEW j \in 1..(n + h + m), org[j] = 0
       PROVE  (\E k \in 1..h : j = at + k) \/ (\E k \in 1..m : j = n + h + k)
  <2>1. CASE j <= at + h
    <3>1. j - at \in 1..h /\ j = at + (j - at)
      BY <1>3, <1>10, <2>1
    <3> QED BY <3>1
  <2>2. CASE j > at + h
    <3>1. j - (n + h) \in 1..m /\ j = n + h + (j - (n + h))
      BY <1>3, <1>10, <2>2
    <3> QED BY <3>1
  <2> QED BY <1>3, <2>1, <2>2
<1> HIDE DEF org, place
<1>11. Follows(gone, lost, place, org)
  BY <1>0, <1>3, <1>4, <1>5, <1>6, <1>7 DEF Follows, n0
<1>12. \A j \in DOMAIN pending' : org[j] = 0 =>
         \/ \E k \in 1..Len(high) : j = at + k
         \/ \E k \in 1..Len(normal) : j = Len(q) + Len(high) + k
  BY <1>3, <1>10 DEF n, h, m
<1>13. \A k \in 1..Len(high) : NewHigh(gone, place, org, at + k, high[k])
  BY <1>8 DEF h
<1>14. \A k \in 1..Len(normal) : NewNormal(gone, place, org, Len(q) + Len(high) + k, normal[k])
  BY <1>9 DEF n, h, m
<1>15. at \in 0..Len(q)
  OBVIOUS
<1> HIDE DEF n, h, m
<1>16. Sent(gone, lost, place, org, at, q, high, normal)
  BY <1>11, <1>12, <1>13, <1>14, <1>15 DEF Sent
<1> QED BY <1>2, <1>16

-----------------------------------------------------------------------------
\* The lists statements are sent to.
LEMMA FromPending == ASSUME pending \in Seq(Shaped) PROVE From(pending, 0, {})
<1>1. Len(pending) \in Nat /\ \A i \in 1..Len(pending) : pending[i] \in Shaped
  BY ListOf
<1>2. \A s \in Shaped : Still(s, s, {})
  BY DEF Still, Shaped, Statements
<1>3. \A i \in 1..Len(pending) : i + 0 = i
  BY <1>1
<1>4. \A i \in 1..Len(pending) : Still(pending[i], pending[i + 0], {})
  BY <1>1, <1>2, <1>3
<1>5. Len(pending) = Len(pending) - 0 /\ 0 <= Len(pending)
  BY <1>1
<1> QED BY <1>4, <1>5 DEF From

\* The rest of the list, and the list when a client goes.
LEMMA FromRest ==
  ASSUME pending \in Seq(Shaped), pending # <<>>
  PROVE  From(Rest, 1, {}) /\ Answered = pending[1] /\ Answered \in Shaped /\ Len(pending) >= 1
<1>1. /\ Len(pending) \in Nat /\ \A i \in 1..Len(pending) : pending[i] \in Shaped
      /\ Len(pending) >= 1 /\ Head(pending) = pending[1] /\ Tail(pending) \in Seq(Shaped)
      /\ Len(Tail(pending)) = Len(pending) - 1
      /\ \A i \in 1..(Len(pending) - 1) : Tail(pending)[i] = pending[i + 1]
  BY ListOf
<1>2. \A s \in Shaped : Still(s, s, {})
  BY DEF Still, Shaped, Statements
<1>3. \A i \in 1..(Len(pending) - 1) : i + 1 \in 1..Len(pending)
  BY <1>1
<1>4. \A i \in 1..Len(Rest) : Still(Rest[i], pending[i + 1], {})
  BY <1>1, <1>2, <1>3 DEF Rest
<1>5. 1 \in 1..Len(pending)
  BY <1>1
<1> QED BY <1>1, <1>4, <1>5 DEF From, Rest, Answered

LEMMA FromOrphaned ==
  ASSUME pending \in Seq(Shaped), NEW p PROVE From(Orphaned(p), 0, {p})
<1>1. Len(pending) \in Nat
  BY ListOf
<1>2. \A i \in 1..Len(pending) : i + 0 = i
  BY <1>1
<1> DEFINE q == Orphaned(p)
<1>3. /\ q \in Seq(Shaped) /\ Len(q) = Len(pending)
      /\ \A i \in 1..Len(pending) : Still(q[i], pending[i], {p})
  BY OrphanedPlaces
<1> HIDE DEF q
<1>4. Len(q) = Len(pending) - 0 /\ 0 <= Len(pending)
  BY <1>1, <1>3
<1>5. \A i \in 1..Len(q) : Still(q[i], pending[i + 0], {p})
  BY <1>2, <1>3
<1>6. From(q, 0, {p})
  BY <1>3, <1>4, <1>5 DEF From
<1> QED BY <1>6 DEF q

\* A list that is taken as it is.
LEMMA TakenFollows ==
  ASSUME NEW q, pending' = q, pending \in Seq(Shaped), Len(pending) <= MaxPending,
         NEW gone, NEW lost, From(q, gone, lost)
  PROVE  /\ pending' \in Seq(Shaped) /\ Len(pending') <= MaxPending
         /\ \E place, org : Follows(gone, lost, place, org) /\ Only(org, {})
<1> DEFINE n == Len(q)  n0 == Len(pending)
<1>1. /\ q \in Seq(Shaped) /\ n \in Nat /\ n0 \in Nat /\ gone \in {0, 1} /\ n0 = n + gone
      /\ DOMAIN pending' = 1..n /\ gone <= n0
      /\ \A i \in 1..n : Still(pending'[i], pending[i + gone], lost)
  BY ListOf DEF From
<1> DEFINE org == [j \in 1..n |-> j + gone]
           place == [i \in (gone + 1)..n0 |-> i - gone]
<1>2. pending' \in Seq(Shaped) /\ Len(pending') <= MaxPending
  BY <1>1, PartiesAssumption
<1> HIDE DEF n, n0
<1>3. /\ org \in [1..n -> 0..n0]
      /\ \A i \in (gone + 1)..n0 : place[i] \in 1..n /\ org[place[i]] = i
      /\ \A i, k \in (gone + 1)..n0 : i < k => place[i] < place[k]
      /\ \A j \in 1..n : org[j] # 0 /\ org[j] > gone /\ place[org[j]] = j
      /\ \A j \in 1..n : Still(pending'[j], pending[org[j]], lost)
  BY <1>1
<1> HIDE DEF org, place
<1>4. Follows(gone, lost, place, org) /\ Only(org, {})
  BY <1>1, <1>3 DEF Follows, Only, n0
<1> QED BY <1>2, <1>4

-----------------------------------------------------------------------------
\* What the handlers send: nothing more, one statement, or two.
SentH(gone, lost, place, org, j, s) ==
  /\ Follows(gone, lost, place, org) /\ Only(org, {j})
  /\ NewHigh(gone, place, org, j, s)
SentN(gone, lost, place, org, j, s) ==
  /\ Follows(gone, lost, place, org) /\ Only(org, {j})
  /\ NewNormal(gone, place, org, j, s)
SentHH(gone, lost, place, org, j, s, k, t) ==
  /\ Follows(gone, lost, place, org) /\ Only(org, {j, k}) /\ j < k
  /\ NewHigh(gone, place, org, j, s) /\ NewHigh(gone, place, org, k, t)
SentHN(gone, lost, place, org, j, s, k, t) ==
  /\ Follows(gone, lost, place, org) /\ Only(org, {j, k}) /\ j < k
  /\ NewHigh(gone, place, org, j, s) /\ NewNormal(gone, place, org, k, t)
SentNN(gone, lost, place, org, j, s, k, t) ==
  /\ Follows(gone, lost, place, org) /\ Only(org, {j, k}) /\ j < k
  /\ NewNormal(gone, place, org, j, s) /\ NewNormal(gone, place, org, k, t)

\* Lists of one and of two statements.
LEMMA ShortLists ==
  ASSUME NEW S, NEW s \in S, NEW t \in S
  PROVE  /\ <<>> \in Seq(S) /\ Len(<<>>) = 0
         /\ <<s>> \in Seq(S) /\ Len(<<s>>) = 1 /\ <<s>>[1] = s
         /\ <<s, t>> \in Seq(S) /\ Len(<<s, t>>) = 2 /\ <<s, t>>[1] = s /\ <<s, t>>[2] = t
OBVIOUS

\* SentFollows for the lists the handlers send: one statement, or two.
LEMMA OneHigh ==
  ASSUME NEW q, NEW s \in Shaped, Send(q, <<s>>, <<>>), pending \in Seq(Shaped),
         NEW gone, NEW lost, From(q, gone, lost)
  PROVE  /\ pending' \in Seq(Shaped) /\ Len(pending') <= MaxPending
         /\ \E place, org, j : SentH(gone, lost, place, org, j, s)
<1> DEFINE high == <<s>>  normal == <<>>
<1>1. high \in Seq(Shaped) /\ Len(high) = 1 /\ high[1] = s /\ normal \in Seq(Shaped) /\ Len(normal) = 0
  BY ShortLists
<1>2. Send(q, high, normal)
  OBVIOUS
<1> HIDE DEF high, normal
<1>3. PICK place, org, at : Sent(gone, lost, place, org, at, q, high, normal)
  BY <1>1, <1>2, SentFollows
<1>4. Follows(gone, lost, place, org) /\ NewHigh(gone, place, org, at + 1, s)
  BY <1>1, <1>3 DEF Sent
<1>5. Only(org, {at + 1})
  BY <1>1, <1>3 DEF Sent, Only
<1>6. SentH(gone, lost, place, org, at + 1, s)
  BY <1>4, <1>5 DEF SentH
<1> QED BY <1>1, <1>2, <1>6, SentFollows

LEMMA OneNormal ==
  ASSUME NEW q, NEW s \in Shaped, Send(q, <<>>, <<s>>), pending \in Seq(Shaped),
         NEW gone, NEW lost, From(q, gone, lost)
  PROVE  /\ pending' \in Seq(Shaped) /\ Len(pending') <= MaxPending
         /\ \E place, org, j : SentN(gone, lost, place, org, j, s)
<1> DEFINE normal == <<s>>  high == <<>>
<1>1. normal \in Seq(Shaped) /\ Len(normal) = 1 /\ normal[1] = s /\ high \in Seq(Shaped) /\ Len(high) = 0
  BY ShortLists
<1>2. Send(q, high, normal)
  OBVIOUS
<1> HIDE DEF high, normal
<1>3. PICK place, org, at : Sent(gone, lost, place, org, at, q, high, normal)
  BY <1>1, <1>2, SentFollows
<1> DEFINE j == Len(q) + Len(high) + 1
<1>4. Follows(gone, lost, place, org) /\ NewNormal(gone, place, org, j, s)
  BY <1>1, <1>3 DEF Sent
<1>5. Only(org, {j})
  BY <1>1, <1>3 DEF Sent, Only
<1>6. SentN(gone, lost, place, org, j, s)
  BY <1>4, <1>5 DEF SentN
<1> QED BY <1>1, <1>2, <1>6, SentFollows

LEMMA TwoHigh ==
  ASSUME NEW q, NEW s \in Shaped, NEW t \in Shaped, Send(q, <<s, t>>, <<>>),
         pending \in Seq(Shaped), NEW gone, NEW lost, From(q, gone, lost)
  PROVE  /\ pending' \in Seq(Shaped) /\ Len(pending') <= MaxPending
         /\ \E place, org, j, k : SentHH(gone, lost, place, org, j, s, k, t)
<1> DEFINE high == <<s, t>>  normal == <<>>
<1>1. /\ high \in Seq(Shaped) /\ Len(high) = 2 /\ high[1] = s /\ high[2] = t
      /\ normal \in Seq(Shaped) /\ Len(normal) = 0
  BY ShortLists
<1>2. Send(q, high, normal)
  OBVIOUS
<1> HIDE DEF high, normal
<1>3. PICK place, org, at : Sent(gone, lost, place, org, at, q, high, normal)
  BY <1>1, <1>2, SentFollows
<1>4. /\ Follows(gone, lost, place, org)
      /\ NewHigh(gone, place, org, at + 1, s) /\ NewHigh(gone, place, org, at + 2, t)
  BY <1>1, <1>3 DEF Sent
<1>5. Only(org, {at + 1, at + 2})
  BY <1>1, <1>3 DEF Sent, Only
<1>6. at + 1 < at + 2
  <2>1. at \in 0..Len(q)
    BY <1>3 DEF Sent
  <2> QED BY <2>1
<1>7. SentHH(gone, lost, place, org, at + 1, s, at + 2, t)
  BY <1>4, <1>5, <1>6 DEF SentHH
<1> QED BY <1>1, <1>2, <1>7, SentFollows

LEMMA HighAndNormal ==
  ASSUME NEW q, NEW s \in Shaped, NEW t \in Shaped, Send(q, <<s>>, <<t>>),
         pending \in Seq(Shaped), NEW gone, NEW lost, From(q, gone, lost)
  PROVE  /\ pending' \in Seq(Shaped) /\ Len(pending') <= MaxPending
         /\ \E place, org, j, k : SentHN(gone, lost, place, org, j, s, k, t)
<1> DEFINE high == <<s>>  normal == <<t>>
<1>1. /\ high \in Seq(Shaped) /\ Len(high) = 1 /\ high[1] = s
      /\ normal \in Seq(Shaped) /\ Len(normal) = 1 /\ normal[1] = t
  BY ShortLists
<1>2. Send(q, high, normal)
  OBVIOUS
<1> HIDE DEF high, normal
<1>3. PICK place, org, at : Sent(gone, lost, place, org, at, q, high, normal)
  BY <1>1, <1>2, SentFollows
<1> DEFINE k == Len(q) + Len(high) + 1
<1>4. /\ Follows(gone, lost, place, org)
      /\ NewHigh(gone, place, org, at + 1, s) /\ NewNormal(gone, place, org, k, t)
  BY <1>1, <1>3 DEF Sent
<1>5. Only(org, {at + 1, k})
  BY <1>1, <1>3 DEF Sent, Only
<1>6. at + 1 < k
  <2>1. at \in 0..Len(q) /\ Len(q) \in Nat
    BY <1>3, ListOf DEF Sent, From
  <2> QED BY <1>1, <2>1
<1>7. SentHN(gone, lost, place, org, at + 1, s, k, t)
  BY <1>4, <1>5, <1>6 DEF SentHN
<1> QED BY <1>1, <1>2, <1>7, SentFollows

LEMMA TwoNormal ==
  ASSUME NEW q, NEW s \in Shaped, NEW t \in Shaped, Send(q, <<>>, <<s, t>>),
         pending \in Seq(Shaped), NEW gone, NEW lost, From(q, gone, lost)
  PROVE  /\ pending' \in Seq(Shaped) /\ Len(pending') <= MaxPending
         /\ \E place, org, j, k : SentNN(gone, lost, place, org, j, s, k, t)
<1> DEFINE normal == <<s, t>>  high == <<>>
<1>1. /\ normal \in Seq(Shaped) /\ Len(normal) = 2 /\ normal[1] = s /\ normal[2] = t
      /\ high \in Seq(Shaped) /\ Len(high) = 0
  BY ShortLists
<1>2. Send(q, high, normal)
  OBVIOUS
<1> HIDE DEF high, normal
<1>3. PICK place, org, at : Sent(gone, lost, place, org, at, q, high, normal)
  BY <1>1, <1>2, SentFollows
<1> DEFINE j == Len(q) + Len(high) + 1
           k == Len(q) + Len(high) + 2
<1>4. /\ Follows(gone, lost, place, org)
      /\ NewNormal(gone, place, org, j, s) /\ NewNormal(gone, place, org, k, t)
  BY <1>1, <1>3 DEF Sent
<1>5. Only(org, {j, k})
  BY <1>1, <1>3 DEF Sent, Only
<1>6. j < k
  <2>1. Len(q) \in Nat
    BY ListOf DEF From
  <2> QED BY <1>1, <2>1
<1>7. SentNN(gone, lost, place, org, j, s, k, t)
  BY <1>4, <1>5, <1>6 DEF SentNN
<1> QED BY <1>1, <1>2, <1>7, SentFollows

-----------------------------------------------------------------------------
\* Base has the types of TypeOK.
LEMMA BaseIsTypeOK == Base => TypeOK
<1> SUFFICES ASSUME Base PROVE TypeOK
  OBVIOUS
<1>1. pending \in Seq(Statements)
  <2>1. Shaped \subseteq Statements
    BY DEF Shaped
  <2> QED BY <2>1, SeqMonotonic DEF Base, ListOK
<1> QED BY <1>1 DEF Base, ClientsOK, TablesOK, ListOK, CountsOK, TypeOK, Clients

\* What a fresh client and a gone one hold.
LEMMA OnlineIs ==
  /\ Online \in Clients /\ Offline \in Clients
  /\ Online.online /\ Online.party = NoParty /\ Online.invite = NoParty /\ ~Online.leader
  /\ Offline.party = NoParty /\ Offline.invite = NoParty /\ ~Offline.leader
  /\ NoParty <= 0
<1>1. Offline = [online |-> FALSE, party |-> NoParty, leader |-> FALSE, invite |-> NoParty]
  BY DEF Offline
<1>2. Offline \in Clients
  BY <1>1 DEF Clients
<1>3. Online \in Clients
  BY <1>2 DEF Online, Clients
<1>4. Online.online /\ Online.party = NoParty /\ Online.invite = NoParty /\ ~Online.leader
  BY <1>1, <1>2 DEF Online, Clients
<1>5. NoParty <= 0
  BY DEF NoParty
<1> QED BY <1>1, <1>2, <1>3, <1>4, <1>5

LEMMA BaseInit == Init => Base
<1> SUFFICES ASSUME Init PROVE Base
  OBVIOUS
<1>1. ClientsOK
  <2>1. client = [p \in Players |-> Online] /\ created = 0
    BY DEF Init
  <2> QED BY <2>1, OnlineIs DEF ClientsOK
<1>2. TablesOK
  <2>1. \A g \in Parties : ~Exists(g)
    BY DEF Init, Exists
  <2> QED BY <2>1, PartyNumbers DEF Init, TablesOK
<1>3. ListOK
  BY PartiesAssumption DEF Init, ListOK
<1>4. CountsOK
  <2>1. tickets = [g \in Parties |-> [p \in Players |-> 0]] /\ sent = 0 /\ confused = FALSE
    BY DEF Init
  <2>2. 0 \in 0..MaxInvites
    BY PartiesAssumption
  <2>3. [p \in Players |-> 0] \in [Players -> Int]
    OBVIOUS
  <2>4. tickets \in [Parties -> [Players -> Int]]
    BY <2>1, <2>3
  <2> QED BY <2>1, <2>2, <2>4 DEF CountsOK
<1> QED BY <1>1, <1>2, <1>3, <1>4 DEF Base

\* Parts of Base that no change disturbs.
LEMMA TablesKept == TablesOK /\ UNCHANGED <<leaderOf, members, invites, created>> => TablesOK'
BY DEF TablesOK, Exists

Stays(lost) == \A p \in Players : p \notin lost /\ client[p].online => client'[p].online

\* The list stays in order when its new statements are.
LEMMA ListKept ==
  ASSUME ListOK, NEW gone, NEW lost, Stays(lost), NEW place, NEW org, Follows(gone, lost, place, org),
         pending' \in Seq(Shaped), Len(pending') <= MaxPending,
         created \in Int, created' \in Int, created <= created',
         \A j \in DOMAIN pending' : org[j] = 0 =>
           /\ pending'[j].g <= created' /\ pending'[j].do # "add_member"
           /\ Present(client', pending'[j])
  PROVE  ListOK'
<1>1. DOMAIN pending = 1..Len(pending) /\ Len(pending) \in Nat
      /\ \A i \in DOMAIN pending : pending[i].g \in Int
  <2>1. pending \in Seq(Shaped)
    BY DEF ListOK
  <2>2. \A s \in Shaped : s.g \in Parties \cup {NoParty}
    BY DEF Shaped, Statements
  <2>3. \A s \in Shaped : s.g \in Int
    BY <2>2, PartyNumbers DEF NoParty
  <2> QED BY <2>1, <2>3, ListOf
<1>2. ASSUME NEW j \in DOMAIN pending', org[j] # 0
      PROVE  /\ org[j] \in DOMAIN pending /\ place[org[j]] = j
             /\ Still(pending'[j], pending[org[j]], lost)
  <2>1. org[j] \in 0..Len(pending) /\ org[j] # 0
    BY <1>2 DEF Follows
  <2> QED BY <2>1, <1>1, <1>2 DEF Follows
<1>3. ASSUME NEW j \in DOMAIN pending' PROVE pending'[j].g <= created'
  <2>1. CASE org[j] # 0
    <3>1. pending'[j].g = pending[org[j]].g /\ org[j] \in DOMAIN pending
      BY <1>2, <2>1 DEF Still
    <3>2. pending[org[j]].g <= created /\ pending[org[j]].g \in Int
      BY <1>1, <3>1 DEF ListOK
    <3> QED BY <3>1, <3>2
  <2> QED BY <2>1
<1>4. ASSUME NEW g \in Parties, NEW i \in DOMAIN pending', NEW j \in DOMAIN pending',
             pending'[i].do = "add_member", pending'[i].g = g,
             pending'[j].do = "add_member", pending'[j].g = g
      PROVE  i = j
  <2>1. org[i] # 0 /\ org[j] # 0
    BY <1>4
  <2>2. org[i] = org[j]
    BY <1>2, <1>4, <2>1 DEF Still, ListOK
  <2> QED BY <1>2, <2>1, <2>2
<1>5. ASSUME NEW j \in DOMAIN pending' PROVE Present(client', pending'[j])
  <2>1. CASE org[j] # 0
    <3>1. Present(client, pending[org[j]]) /\ Still(pending'[j], pending[org[j]], lost)
      BY <1>2, <2>1 DEF ListOK
    <3> QED BY <3>1 DEF Present, Still, Stays
  <2> QED BY <2>1
<1> QED BY <1>3, <1>4, <1>5 DEF ListOK

-----------------------------------------------------------------------------
\* The same for the list invariant: statements on parties that exist already.
Taken(gone, lost, place, org) == Follows(gone, lost, place, org) /\ Only(org, {})

Plain == {s \in Shaped : s.g <= created /\ s.do # "add_member"}

\* What Base says of the list, in the form the lemmas cite.
LEMMA BaseFacts ==
  ASSUME Base
  PROVE  /\ pending \in Seq(Shaped) /\ Len(pending) <= MaxPending
         /\ Len(pending) \in Nat /\ DOMAIN pending = 1..Len(pending)
         /\ \A i \in DOMAIN pending : pending[i] \in Shaped
         /\ created \in Nat
<1>1. pending \in Seq(Shaped) /\ Len(pending) <= MaxPending /\ created \in Nat
  BY PartyNumbers DEF Base, ListOK, TablesOK
<1> QED BY <1>1, ListOf

\* ListKept for each form of list a handler leaves.
LEMMA ListTaken ==
  ASSUME Base, NEW q, NEW gone, NEW lost, From(q, gone, lost), pending' = q, created' = created,
         Stays(lost)
  PROVE  ListOK' /\ \E place, org : Taken(gone, lost, place, org)
<1>1. PICK place, org : Follows(gone, lost, place, org) /\ Only(org, {})
  BY TakenFollows, BaseFacts
<1>2. pending' \in Seq(Shaped) /\ Len(pending') <= MaxPending
  BY TakenFollows, BaseFacts
<1>3. \A j \in DOMAIN pending' : org[j] # 0
  BY <1>1 DEF Only
<1>4. ListOK'
  BY <1>1, <1>2, <1>3, BaseFacts, ListKept DEF Base
<1>5. Taken(gone, lost, place, org)
  BY <1>1 DEF Taken
<1> QED BY <1>4, <1>5

LEMMA ListHigh ==
  ASSUME Base, NEW q, NEW gone, NEW lost, From(q, gone, lost), NEW s \in Plain,
         Stays(lost), Present(client', s),
         Send(q, <<s>>, <<>>), created' = created
  PROVE  ListOK' /\ \E place, org, j : SentH(gone, lost, place, org, j, s)
<1>0. s \in Shaped
  BY DEF Plain
<1>1. PICK place, org, j : SentH(gone, lost, place, org, j, s)
  BY <1>0, OneHigh, BaseFacts
<1>2. pending' \in Seq(Shaped) /\ Len(pending') <= MaxPending
  BY <1>0, OneHigh, BaseFacts
<1>3. \A i \in DOMAIN pending' :
        org[i] = 0 => /\ pending'[i].g <= created' /\ pending'[i].do # "add_member"
                      /\ Present(client', pending'[i])
  BY <1>1 DEF SentH, Only, NewHigh, Plain
<1>4. Follows(gone, lost, place, org)
  BY <1>1 DEF SentH
<1>5. ListOK'
  BY <1>2, <1>3, <1>4, BaseFacts, ListKept DEF Base
<1> QED BY <1>1, <1>5

LEMMA ListNormal ==
  ASSUME Base, NEW q, NEW gone, NEW lost, From(q, gone, lost), NEW s \in Plain,
         Stays(lost), Present(client', s),
         Send(q, <<>>, <<s>>), created' = created
  PROVE  ListOK' /\ \E place, org, j : SentN(gone, lost, place, org, j, s)
<1>0. s \in Shaped
  BY DEF Plain
<1>1. PICK place, org, j : SentN(gone, lost, place, org, j, s)
  BY <1>0, OneNormal, BaseFacts
<1>2. pending' \in Seq(Shaped) /\ Len(pending') <= MaxPending
  BY <1>0, OneNormal, BaseFacts
<1>3. \A i \in DOMAIN pending' :
        org[i] = 0 => /\ pending'[i].g <= created' /\ pending'[i].do # "add_member"
                      /\ Present(client', pending'[i])
  BY <1>1 DEF SentN, Only, NewNormal, Plain
<1>4. Follows(gone, lost, place, org)
  BY <1>1 DEF SentN
<1>5. ListOK'
  BY <1>2, <1>3, <1>4, BaseFacts, ListKept DEF Base
<1> QED BY <1>1, <1>5

LEMMA ListTwoHigh ==
  ASSUME Base, NEW q, NEW gone, NEW lost, From(q, gone, lost), NEW s \in Plain, NEW t \in Plain,
         Stays(lost), Present(client', s), Present(client', t),
         Send(q, <<s, t>>, <<>>), created' = created
  PROVE  ListOK' /\ \E place, org, j, k : SentHH(gone, lost, place, org, j, s, k, t)
<1>0. s \in Shaped /\ t \in Shaped
  BY DEF Plain
<1>1. PICK place, org, j, k : SentHH(gone, lost, place, org, j, s, k, t)
  BY <1>0, TwoHigh, BaseFacts
<1>2. pending' \in Seq(Shaped) /\ Len(pending') <= MaxPending
  BY <1>0, TwoHigh, BaseFacts
<1>3. \A i \in DOMAIN pending' :
        org[i] = 0 => /\ pending'[i].g <= created' /\ pending'[i].do # "add_member"
                      /\ Present(client', pending'[i])
  BY <1>1 DEF SentHH, Only, NewHigh, Plain
<1>4. Follows(gone, lost, place, org)
  BY <1>1 DEF SentHH
<1>5. ListOK'
  BY <1>2, <1>3, <1>4, BaseFacts, ListKept DEF Base
<1> QED BY <1>1, <1>5

LEMMA ListHighNormal ==
  ASSUME Base, NEW q, NEW gone, NEW lost, From(q, gone, lost), NEW s \in Plain, NEW t \in Plain,
         Stays(lost), Present(client', s), Present(client', t),
         Send(q, <<s>>, <<t>>), created' = created
  PROVE  ListOK' /\ \E place, org, j, k : SentHN(gone, lost, place, org, j, s, k, t)
<1>0. s \in Shaped /\ t \in Shaped
  BY DEF Plain
<1>1. PICK place, org, j, k : SentHN(gone, lost, place, org, j, s, k, t)
  BY <1>0, HighAndNormal, BaseFacts
<1>2. pending' \in Seq(Shaped) /\ Len(pending') <= MaxPending
  BY <1>0, HighAndNormal, BaseFacts
<1>3. \A i \in DOMAIN pending' :
        org[i] = 0 => /\ pending'[i].g <= created' /\ pending'[i].do # "add_member"
                      /\ Present(client', pending'[i])
  BY <1>1 DEF SentHN, Only, NewHigh, NewNormal, Plain
<1>4. Follows(gone, lost, place, org)
  BY <1>1 DEF SentHN
<1>5. ListOK'
  BY <1>2, <1>3, <1>4, BaseFacts, ListKept DEF Base
<1> QED BY <1>1, <1>5

LEMMA ListTwoNormal ==
  ASSUME Base, NEW q, NEW gone, NEW lost, From(q, gone, lost), NEW s \in Plain, NEW t \in Plain,
         Stays(lost), Present(client', s), Present(client', t),
         Send(q, <<>>, <<s, t>>), created' = created
  PROVE  ListOK' /\ \E place, org, j, k : SentNN(gone, lost, place, org, j, s, k, t)
<1>0. s \in Shaped /\ t \in Shaped
  BY DEF Plain
<1>1. PICK place, org, j, k : SentNN(gone, lost, place, org, j, s, k, t)
  BY <1>0, TwoNormal, BaseFacts
<1>2. pending' \in Seq(Shaped) /\ Len(pending') <= MaxPending
  BY <1>0, TwoNormal, BaseFacts
<1>3. \A i \in DOMAIN pending' :
        org[i] = 0 => /\ pending'[i].g <= created' /\ pending'[i].do # "add_member"
                      /\ Present(client', pending'[i])
  BY <1>1 DEF SentNN, Only, NewNormal, Plain
<1>4. Follows(gone, lost, place, org)
  BY <1>1 DEF SentNN
<1>5. ListOK'
  BY <1>2, <1>3, <1>4, BaseFacts, ListKept DEF Base
<1> QED BY <1>1, <1>5

\* The statements that look for no client.
LEMMA Anonymous ==
  ASSUME NEW clients, NEW do, NEW g, NEW p
  PROVE  Present(clients, High(do, g, p)) /\ Present(clients, Normal(do, g, p))
BY DEF Present, High, Normal, Statement

\* Every statement the handlers send has its shape.
LEMMA SentPlain ==
  ASSUME Base, NEW p \in Players
  PROVE  /\ For(p, Normal("load_party", NoParty, p)) \in Plain
         /\ For(p, Normal("load_invite", NoParty, p)) \in Plain
         /\ \A g \in Parties : g <= created =>
              /\ High("remove_member", g, p) \in Plain
              /\ High("transfer", g, Nobody) \in Plain
              /\ Normal("check_empty", g, Nobody) \in Plain
              /\ High("set_leader", g, p) \in Plain
              /\ High("dissolve", g, Nobody) \in Plain
              /\ Normal("dissolve", g, Nobody) \in Plain
         /\ \A g \in Parties \cup {NoParty} : g <= created =>
              /\ \A q \in Players : p # q => Statement("invite", TRUE, g, p, TRUE, q, TRUE) \in Plain
              /\ High("add_invite", g, p) \in Plain
              /\ Normal("remove_invite", g, p) \in Plain
              /\ High("remove_invite", g, p) \in Plain
              /\ For(p, Normal("check_invite", g, p)) \in Plain
              /\ For(p, High("verify", g, p)) \in Plain
              /\ For(p, High("join", g, p)) \in Plain
<1> USE DEF High, Normal, For, Statement, Shaped, Statements, Plain, HighKinds, OnParty
<1>1. 0 <= created
  BY BaseFacts
<1>2. For(p, Normal("load_party", NoParty, p)) \in Plain /\ For(p, Normal("load_invite", NoParty, p)) \in Plain
  BY <1>1 DEF NoParty
<1>3. ASSUME NEW g \in Parties, g <= created
      PROVE  /\ High("remove_member", g, p) \in Plain
             /\ High("transfer", g, Nobody) \in Plain
             /\ Normal("check_empty", g, Nobody) \in Plain
             /\ High("set_leader", g, p) \in Plain
             /\ High("dissolve", g, Nobody) \in Plain
             /\ Normal("dissolve", g, Nobody) \in Plain
  BY <1>3
<1>4. ASSUME NEW g \in Parties \cup {NoParty}, g <= created
      PROVE  /\ \A q \in Players : p # q => Statement("invite", TRUE, g, p, TRUE, q, TRUE) \in Plain
             /\ High("add_invite", g, p) \in Plain
             /\ Normal("remove_invite", g, p) \in Plain
             /\ High("remove_invite", g, p) \in Plain
             /\ For(p, Normal("check_invite", g, p)) \in Plain
             /\ For(p, High("verify", g, p)) \in Plain
             /\ For(p, High("join", g, p)) \in Plain
  BY <1>4
<1> QED BY <1>2, <1>3, <1>4

-----------------------------------------------------------------------------
\* What each handler sends, and that everything stays typed.

\* One client changes, or none.
LEMMA ClientSet ==
  ASSUME ClientsOK, created' = created, NEW p \in Players, NEW c \in Clients,
         c.online \/ c = Offline, c.party <= created, c.invite <= created,
         client' = [client EXCEPT ![p] = c]
  PROVE  ClientsOK'
BY DEF ClientsOK

LEMMA SetStays ==
  ASSUME ClientsOK, NEW p \in Players, NEW c, client' = [client EXCEPT ![p] = c], NEW lost,
         c.online \/ ~client[p].online \/ p \in lost
  PROVE  Stays(lost) /\ client'[p] = c
BY DEF ClientsOK, Stays

LEMMA ClientsKept == ClientsOK /\ UNCHANGED <<client, created>> => ClientsOK'
BY DEF ClientsOK

LEMMA CountsKept == CountsOK /\ UNCHANGED <<tickets, sent, confused>> => CountsOK'
BY DEF CountsOK

\* A step that may confuse keeps the history typed.
LEMMA MayConfuse ==
  ASSUME CountsOK, UNCHANGED <<tickets, sent>>, NEW more, confused' = (confused \/ more)
  PROVE  CountsOK' /\ (~confused' => ~confused /\ ~more)
<1>1. CASE more
  BY <1>1 DEF CountsOK
<1>2. CASE ~more
  BY <1>2 DEF CountsOK
<1> QED BY <1>1, <1>2

\* A client who is gone is in no party.
LEMMA OnlineParty ==
  ASSUME Base, NEW p \in Players
  PROVE  /\ client[p] \in Clients
         /\ client[p].party \in Parties \cup {NoParty} /\ client[p].party <= created
         /\ client[p].invite \in Parties \cup {NoParty} /\ client[p].invite <= created
         /\ client[p].leader \in BOOLEAN /\ client[p].online \in BOOLEAN
         /\ client[p].party # NoParty \/ client[p].leader \/ client[p].invite # NoParty => client[p].online
BY OnlineIs DEF Base, ClientsOK, Clients

\* What each handler sends, and that it keeps Base.
LEMMA ConnectSends ==
  ASSUME Base, NEW p \in Players, OnClientPostAdminCheck(p)
  PROVE  /\ Base'
         /\ \E place, org, j, k :
              SentNN(0, {}, place, org, j, For(p, Normal("load_party", NoParty, p)),
                     k, For(p, Normal("load_invite", NoParty, p)))
<1>1. /\ client' = [client EXCEPT ![p] = Online]
      /\ Send(pending, <<>>, <<For(p, Normal("load_party", NoParty, p)),
                               For(p, Normal("load_invite", NoParty, p))>>)
      /\ UNCHANGED <<tables, history>>
  BY DEF OnClientPostAdminCheck
<1>2. ClientsOK'
  <2>1. created' = created
    BY <1>1 DEF tables
  <2>2. NoParty <= created
    BY BaseFacts DEF NoParty
  <2> QED BY <1>1, <2>1, <2>2, OnlineIs, ClientSet DEF Base
<1>3. TablesOK'
  BY <1>1, TablesKept DEF Base, tables
<1>4. CountsOK'
  BY <1>1, CountsKept DEF Base, history
<1>5. created' = created
  BY <1>1 DEF tables
<1> DEFINE s == For(p, Normal("load_party", NoParty, p))
           t == For(p, Normal("load_invite", NoParty, p))
<1>6. Stays({}) /\ client'[p].online
  BY <1>1, OnlineIs, SetStays DEF Base
<1>7. Present(client', s) /\ Present(client', t)
  BY <1>6 DEF Present, For, Normal, Statement
<1>8. s \in Plain /\ t \in Plain /\ From(pending, 0, {})
  BY SentPlain, FromPending, BaseFacts
<1> HIDE DEF s, t
<1>9. ListOK' /\ \E place, org, j, k : SentNN(0, {}, place, org, j, s, k, t)
  BY <1>1, <1>5, <1>6, <1>7, <1>8, ListTwoNormal DEF s, t
<1> QED BY <1>2, <1>3, <1>4, <1>9 DEF Base, s, t

Leave(g, p) == High("remove_member", g, p)
Succeed(g) == High("transfer", g, Nobody)
Look(g) == Normal("check_empty", g, Nobody)

LEMMA FarewellSends ==
  ASSUME Base, NEW p \in Players, client[p].party # NoParty, NEW q, NEW lost, From(q, 0, lost),
         Send(q, Farewell(p).high, Farewell(p).normal), created' = created, Stays(lost)
  PROVE  /\ ListOK'
         /\ client[p].leader => \E place, org, j, k :
              SentHH(0, lost, place, org, j, Leave(client[p].party, p), k, Succeed(client[p].party))
         /\ ~client[p].leader => \E place, org, j, k :
              SentHN(0, lost, place, org, j, Leave(client[p].party, p), k, Look(client[p].party))
<1> DEFINE g == client[p].party
<1>1. g \in Parties /\ g <= created
  BY OnlineParty
<1>2. Leave(g, p) \in Plain /\ Succeed(g) \in Plain /\ Look(g) \in Plain
  BY <1>1, SentPlain DEF Leave, Succeed, Look
<1>5. Present(client', Leave(g, p)) /\ Present(client', Succeed(g)) /\ Present(client', Look(g))
  BY Anonymous DEF Leave, Succeed, Look
<1>3. CASE client[p].leader
  <2>1. Farewell(p).high = <<Leave(g, p), Succeed(g)>> /\ Farewell(p).normal = <<>>
    BY <1>3 DEF Farewell, Leave, Succeed
  <2> QED BY <1>2, <1>3, <1>5, <2>1, ListTwoHigh
<1>4. CASE ~client[p].leader
  <2>1. Farewell(p).high = <<Leave(g, p)>> /\ Farewell(p).normal = <<Look(g)>>
    BY <1>4 DEF Farewell, Leave, Look
  <2> QED BY <1>2, <1>4, <1>5, <2>1, ListHighNormal
<1> QED BY <1>3, <1>4

LEMMA DisconnectSends ==
  ASSUME Base, NEW p \in Players, OnClientDisconnect(p)
  PROVE  /\ Base'
         /\ client[p].party # NoParty => Send(Orphaned(p), Farewell(p).high, Farewell(p).normal)
         /\ client[p].party = NoParty => \E place, org : Taken(0, {p}, place, org)
<1>1. client' = [client EXCEPT ![p] = Offline] /\ UNCHANGED <<tables, history>>
  BY DEF OnClientDisconnect
<1>2. ClientsOK'
  <2>1. created' = created
    BY <1>1 DEF tables
  <2>2. NoParty <= created
    BY BaseFacts DEF NoParty
  <2> QED BY <1>1, <2>1, <2>2, OnlineIs, ClientSet DEF Base
<1>3. TablesOK'
  BY <1>1, TablesKept DEF Base, tables
<1>4. CountsOK'
  BY <1>1, CountsKept DEF Base, history
<1>5. From(Orphaned(p), 0, {p}) /\ created' = created
  BY <1>1, FromOrphaned, BaseFacts DEF tables
<1>8. Stays({p})
  BY <1>1, SetStays DEF Base
<1>6. CASE client[p].party # NoParty
  <2>1. Send(Orphaned(p), Farewell(p).high, Farewell(p).normal)
    BY <1>6 DEF OnClientDisconnect
  <2> QED BY <1>2, <1>3, <1>4, <1>5, <1>6, <1>8, <2>1, FarewellSends DEF Base
<1>7. CASE client[p].party = NoParty
  <2>1. pending' = Orphaned(p)
    BY <1>7 DEF OnClientDisconnect
  <2> QED BY <1>2, <1>3, <1>4, <1>5, <1>7, <1>8, <2>1, ListTaken DEF Base
<1> QED BY <1>6, <1>7

LEMMA LeaveSends ==
  ASSUME Base, NEW p \in Players, Party_Leave(p)
  PROVE  Base'
<1>1. /\ client' = [client EXCEPT ![p] = Online] /\ UNCHANGED <<tables, history>>
      /\ client[p].party # NoParty
      /\ Send(pending, Farewell(p).high, Farewell(p).normal)
  BY DEF Party_Leave
<1>2. ClientsOK'
  <2>1. created' = created
    BY <1>1 DEF tables
  <2>2. NoParty <= created
    BY BaseFacts DEF NoParty
  <2> QED BY <1>1, <2>1, <2>2, OnlineIs, ClientSet DEF Base
<1>3. TablesOK'
  BY <1>1, TablesKept DEF Base, tables
<1>4. CountsOK'
  BY <1>1, CountsKept DEF Base, history
<1>5. From(pending, 0, {}) /\ created' = created
  BY <1>1, FromPending, BaseFacts DEF tables
<1>6. Stays({})
  BY <1>1, OnlineIs, SetStays DEF Base
<1> QED BY <1>1, <1>2, <1>3, <1>4, <1>5, <1>6, FarewellSends DEF Base

\* A step that answers the first statement and sends nothing.
LEMMA KeepSends ==
  ASSUME Base, pending # <<>>, Keep, created' = created, Stays({})
  PROVE  ListOK' /\ \E place, org : Taken(1, {}, place, org)
<1>1. From(Rest, 1, {})
  BY FromRest, BaseFacts
<1>2. pending' = Rest
  BY DEF Keep
<1> QED BY <1>1, <1>2, ListTaken

\* The statement answered is the first one.
LEMMA AnsweredIs ==
  ASSUME Base, NEW do, Done(do)
  PROVE  /\ pending # <<>> /\ 1 \in DOMAIN pending /\ Answered = pending[1] /\ From(Rest, 1, {})
         /\ Answered.do = do /\ Answered \in Shaped /\ Answered.g <= created
         /\ Present(client, Answered)
<1>1. pending # <<>> /\ Answered.do = do
  BY DEF Done
<1>2. From(Rest, 1, {}) /\ Answered = pending[1] /\ Answered \in Shaped /\ Len(pending) >= 1
  BY <1>1, FromRest, BaseFacts
<1>3. 1 \in DOMAIN pending
  BY <1>2, BaseFacts
<1> QED BY <1>1, <1>2, <1>3 DEF Base, ListOK

\* A client who is given something stays.
LEMMA ClientGiven ==
  ASSUME Base, created' = created, NEW p \in Players, client[p].online,
         NEW c \in Clients, c.online, c.party <= created, c.invite <= created,
         client' = [client EXCEPT ![p] = c]
  PROVE  ClientsOK' /\ Stays({}) /\ client'[p] = c
BY ClientSet, SetStays DEF Base

\* What a callback gives to its client.
LEMMA NothingGiven ==
  ASSUME Base, UNCHANGED <<client, created>>
  PROVE  ClientsOK' /\ Stays({})
BY ClientsKept DEF Base, Stays

LEMMA InvitationGiven ==
  ASSUME Base, created' = created, NEW p \in Players, client[p].online,
         NEW g \in Parties \cup {NoParty}, g <= created, client' = [client EXCEPT ![p].invite = g]
  PROVE  ClientsOK' /\ Stays({})
<1> DEFINE c == [client[p] EXCEPT !.invite = g]
<1>1. client[p] \in Clients /\ client[p].party <= created
  BY OnlineParty
<1>2. c \in Clients /\ c.online /\ c.party <= created /\ c.invite <= created
  BY <1>1 DEF Clients
<1>3. client' = [client EXCEPT ![p] = c]
  OBVIOUS
<1> HIDE DEF c
<1> QED BY <1>2, <1>3, ClientGiven

LEMMA LoadPartySends ==
  ASSUME Base, DB_LoadPartyState
  PROVE  Base' /\ \E place, org : Taken(1, {}, place, org)
<1> DEFINE p == Answered.p
           mine == {g \in Parties : <<g, p>> \in members}
<1>1. Done("load_party") /\ Keep /\ UNCHANGED tables
  BY DEF DB_LoadPartyState
<1>2. /\ pending # <<>> /\ Answered = pending[1] /\ Answered \in Shaped /\ Answered.do = "load_party"
      /\ Present(client, Answered)
  BY <1>1, AnsweredIs
<1>3. created' = created /\ TablesOK'
  BY <1>1, TablesKept DEF tables, Base
<1>4. CASE Answered.known /\ mine # {} /\ \E g \in mine : client' = [client EXCEPT
                ![p].party = g, ![p].leader = (leaderOf[g] = p)] /\ Overtaken(p)
  <2>1. PICK g \in mine : client' = [client EXCEPT ![p].party = g, ![p].leader = (leaderOf[g] = p)]
    BY <1>4
  <2> DEFINE c == [client[p] EXCEPT !.party = g, !.leader = (leaderOf[g] = p)]
  <2>2. p \in Players /\ client[p].online
    BY <1>2, <1>4 DEF Present
  <2>3. g \in Parties /\ g <= created
    BY <2>1 DEF Base, TablesOK
  <2>4. client[p] \in Clients /\ client[p].invite <= created
    BY <2>2, OnlineParty
  <2>5. c \in Clients /\ c.online /\ c.party <= created /\ c.invite <= created
    BY <2>2, <2>3, <2>4 DEF Clients
  <2>6. client' = [client EXCEPT ![p] = c]
    BY <2>1
  <2> HIDE DEF c
  <2>7. ClientsOK' /\ Stays({})
    BY <1>3, <2>2, <2>5, <2>6, ClientGiven
  <2>8. CountsOK'
    BY <1>4, MayConfuse DEF Overtaken, Base
  <2> QED BY <1>1, <1>2, <1>3, <2>7, <2>8, KeepSends DEF Base
<1>5. CASE UNCHANGED <<client, history>>
  <2>1. CountsOK'
    BY <1>5, CountsKept DEF Base, history
  <2> QED BY <1>1, <1>2, <1>3, <1>5, <2>1, NothingGiven, KeepSends DEF Base
<1> QED BY <1>4, <1>5 DEF DB_LoadPartyState

LEMMA LoadInviteSends ==
  ASSUME Base, DB_LoadPendingInvite
  PROVE  Base' /\ \E place, org : Taken(1, {}, place, org)
<1> DEFINE p == Answered.p
           mine == {g \in Parties : <<g, p>> \in invites}
<1>1. Done("load_invite") /\ Keep /\ UNCHANGED tables
  BY DEF DB_LoadPendingInvite
<1>2. /\ pending # <<>> /\ Answered = pending[1] /\ Answered \in Shaped /\ Answered.do = "load_invite"
      /\ Present(client, Answered)
  BY <1>1, AnsweredIs
<1>3. created' = created /\ TablesOK'
  BY <1>1, TablesKept DEF tables, Base
<1>4. CASE Answered.known /\ mine # {} /\ \E g \in mine : client' = [client EXCEPT ![p].invite = g]
                                                         /\ Overtaken(p)
  <2>1. PICK g \in mine : client' = [client EXCEPT ![p].invite = g]
    BY <1>4
  <2>2. p \in Players /\ client[p].online
    BY <1>2, <1>4 DEF Present
  <2>3. g \in Parties /\ g <= created
    BY <2>1 DEF Base, TablesOK
  <2>7. ClientsOK' /\ Stays({})
    BY <1>3, <2>1, <2>2, <2>3, InvitationGiven
  <2>8. CountsOK'
    BY <1>4, MayConfuse DEF Overtaken, Base
  <2> QED BY <1>1, <1>2, <1>3, <2>7, <2>8, KeepSends DEF Base
<1>5. CASE UNCHANGED <<client, history>>
  <2>1. CountsOK'
    BY <1>5, CountsKept DEF Base, history
  <2> QED BY <1>1, <1>2, <1>3, <1>5, <2>1, NothingGiven, KeepSends DEF Base
<1> QED BY <1>4, <1>5 DEF DB_LoadPendingInvite

\* The statements that only touch the tables.
LEMMA StatementSends ==
  ASSUME Base, pending # <<>>, Keep, UNCHANGED <<client, created, tickets, sent>>,
         TablesOK', NEW more, confused' = (confused \/ more)
  PROVE  Base' /\ \E place, org : Taken(1, {}, place, org)
<1>1. ClientsOK' /\ Stays({})
  BY NothingGiven
<1>2. CountsOK'
  BY MayConfuse DEF Base
<1> QED BY <1>1, <1>2, KeepSends DEF Base

\* The statements without a callback.
LEMMA RemoveMemberSends ==
  ASSUME Base, RemoveMember PROVE Base' /\ \E place, org : Taken(1, {}, place, org)
<1>1. /\ Done("remove_member") /\ Keep /\ members' = members \ {<<Answered.g, Answered.p>>}
      /\ UNCHANGED <<client, leaderOf, invites, created, tickets, sent, confused>>
  BY DEF RemoveMember, history
<1>2. TablesOK'
  BY <1>1 DEF Base, TablesOK, Exists
<1>3. confused' = (confused \/ FALSE)
  BY <1>1 DEF Base, CountsOK
<1> QED BY <1>1, <1>2, <1>3, StatementSends DEF Done

LEMMA SetLeaderSends ==
  ASSUME Base, SetLeader PROVE Base' /\ \E place, org : Taken(1, {}, place, org)
<1> DEFINE g == Answered.g
           refused == \E h \in Parties \ {g} : leaderOf[h] = Answered.p
<1>1. /\ Done("set_leader") /\ Keep
      /\ leaderOf' = IF Exists(g) /\ ~refused THEN [leaderOf EXCEPT ![g] = Answered.p] ELSE leaderOf
      /\ confused' = (confused \/ (Exists(g) /\ refused))
      /\ UNCHANGED <<client, members, invites, created, tickets, sent>>
  BY DEF SetLeader
<1>2. Answered.p \in Players /\ g \in Parties
  BY <1>1, AnsweredIs DEF Shaped, OnParty
<1> HIDE DEF refused
<1>3. TablesOK'
  BY <1>1, <1>2, PartiesAssumption DEF Base, TablesOK, Exists
<1> QED BY <1>1, <1>3, StatementSends DEF Done

LEMMA DissolveSends ==
  ASSUME Base, Dissolve PROVE Base' /\ \E place, org : Taken(1, {}, place, org)
<1>1. /\ Done("dissolve") /\ Keep
      /\ leaderOf' = [leaderOf EXCEPT ![Answered.g] = Nobody]
      /\ members' = {m \in members : m[1] # Answered.g}
      /\ invites' = {i \in invites : i[1] # Answered.g}
      /\ UNCHANGED <<client, created, tickets, sent, confused>>
  BY DEF Dissolve, history
<1>2. TablesOK'
  BY <1>1 DEF Base, TablesOK, Exists
<1>3. confused' = (confused \/ FALSE)
  BY <1>1 DEF Base, CountsOK
<1> QED BY <1>1, <1>2, <1>3, StatementSends DEF Done

LEMMA AddInviteSends ==
  ASSUME Base, AddInvite PROVE Base' /\ \E place, org : Taken(1, {}, place, org)
<1>1. /\ Done("add_invite") /\ Keep
      /\ invites' = IF Exists(Answered.g) THEN invites \cup {<<Answered.g, Answered.p>>} ELSE invites
      /\ UNCHANGED <<client, leaderOf, members, created, tickets, sent, confused>>
  BY DEF AddInvite, history
<1>2. Answered.p \in Players /\ Answered.g <= created
  BY <1>1, AnsweredIs DEF Shaped, OnParty
<1>3. TablesOK'
  BY <1>1, <1>2 DEF Base, TablesOK, Exists
<1>4. confused' = (confused \/ FALSE)
  BY <1>1 DEF Base, CountsOK
<1> QED BY <1>1, <1>3, <1>4, StatementSends DEF Done

LEMMA RemoveInviteSends ==
  ASSUME Base, RemoveInvite PROVE Base' /\ \E place, org : Taken(1, {}, place, org)
<1>1. /\ Done("remove_invite") /\ Keep /\ invites' = invites \ {<<Answered.g, Answered.p>>}
      /\ UNCHANGED <<client, leaderOf, members, created, tickets, sent, confused>>
  BY DEF RemoveInvite, history
<1>2. TablesOK'
  BY <1>1 DEF Base, TablesOK, Exists
<1>3. confused' = (confused \/ FALSE)
  BY <1>1 DEF Base, CountsOK
<1> QED BY <1>1, <1>2, <1>3, StatementSends DEF Done

LEMMA ExpireSends ==
  ASSUME Base, Expire PROVE Base' /\ \E place, org : Taken(0, {}, place, org)
<1>1. /\ \E i \in invites : invites' = invites \ {i}
      /\ UNCHANGED <<client, leaderOf, members, created, pending, tickets, sent, confused>>
  BY DEF Expire, history
<1>2. TablesOK'
  BY <1>1 DEF Base, TablesOK, Exists
<1>3. CountsOK'
  BY <1>1, CountsKept DEF Base
<1>4. ClientsOK' /\ Stays({})
  BY <1>1, NothingGiven
<1>5. pending' = pending /\ From(pending, 0, {})
  BY <1>1, FromPending, BaseFacts
<1> QED BY <1>1, <1>2, <1>3, <1>4, <1>5, ListTaken DEF Base

\* An answer that sends statements, changes no table and founds no party.
LEMMA AnswerSends ==
  ASSUME Base, UNCHANGED <<tables, history>>, ClientsOK', ListOK'
  PROVE  Base'
<1>1. CountsOK'
  BY CountsKept DEF Base, history
<1>2. TablesOK'
  BY TablesKept DEF Base, tables
<1> QED BY <1>1, <1>2 DEF Base

\* A dissolution may be sent at either priority.
LEMMA DissolvePlain ==
  ASSUME NEW g \in Parties, g <= created
  PROVE  High("dissolve", g, Nobody) \in Plain /\ Normal("dissolve", g, Nobody) \in Plain
BY DEF High, Normal, Statement, Shaped, Statements, Plain, HighKinds, OnParty

\* The heir is told that he leads when he is still in the party.
LEMMA HeirTold ==
  ASSUME Base, created' = created, NEW heir \in Players, NEW g \in Parties,
         client' = [client EXCEPT ![heir].leader = @ \/ client[heir].party = g]
  PROVE  ClientsOK' /\ Stays({})
<1> DEFINE c == [client[heir] EXCEPT !.leader = @ \/ client[heir].party = g]
<1>1. client[heir] \in Clients /\ client[heir].party <= created /\ client[heir].invite <= created
  BY OnlineParty
<1>2. c \in Clients /\ c.party <= created /\ c.invite <= created /\ (c.online <=> client[heir].online)
  BY <1>1 DEF Clients
<1>3. client' = [client EXCEPT ![heir] = c]
  OBVIOUS
<1>6. ASSUME client[heir] = Offline PROVE c = Offline
  <2>1. g # NoParty
    BY PartyNumbers
  <2>2. (Offline.leader \/ Offline.party = g) = FALSE
    BY <2>1, OnlineIs
  <2>5. Offline.leader = FALSE
    BY DEF Offline
  <2>3. [Offline EXCEPT !.leader = FALSE] = Offline
    BY <2>5, OnlineIs DEF Clients
  <2>4. c = [Offline EXCEPT !.leader = (Offline.leader \/ Offline.party = g)]
    BY <1>6
  <2> QED BY <2>2, <2>3, <2>4
<1> HIDE DEF c
<1>4. CASE client[heir].online
  BY <1>2, <1>3, <1>4, ClientSet, SetStays DEF Base
<1>5. CASE ~client[heir].online
  <2>1. client[heir] = Offline
    BY <1>5 DEF Base, ClientsOK
  <2> QED BY <1>2, <1>3, <1>5, <1>6, <2>1, ClientSet, SetStays DEF Base
<1> QED BY <1>4, <1>5

\* Succession and the look whether a party is empty.
LEMMA TransferSends ==
  ASSUME Base, DB_TransferLeadership
  PROVE  /\ Base' /\ UNCHANGED <<tables, history>>
         /\ \/ /\ MembersOf(Answered.g) = {} /\ UNCHANGED client
               /\ \E place, org, j :
                    SentH(1, {}, place, org, j, High("dissolve", Answered.g, Nobody))
            \/ \E heir \in MembersOf(Answered.g) :
                 /\ client' = [client EXCEPT ![heir].leader = @ \/ client[heir].party = Answered.g]
                 /\ \E place, org, j :
                      SentH(1, {}, place, org, j, High("set_leader", Answered.g, heir))
<1> DEFINE g == Answered.g
<1>1. Done("transfer") /\ UNCHANGED <<tables, history>> /\ created' = created
  BY DEF DB_TransferLeadership, tables
<1>2. /\ pending # <<>> /\ Answered \in Shaped /\ Answered.do = "transfer" /\ g <= created
      /\ From(Rest, 1, {})
  BY <1>1, AnsweredIs
<1>3. g \in Parties
  BY <1>2 DEF Shaped, OnParty
<1>5. CASE MembersOf(g) = {}
  <2>1. Send(Rest, <<High("dissolve", g, Nobody)>>, <<>>) /\ UNCHANGED client
    BY <1>5 DEF DB_TransferLeadership
  <2> DEFINE s == High("dissolve", g, Nobody)
  <2>2. s \in Plain /\ Present(client', s)
    BY <1>2, <1>3, DissolvePlain, Anonymous
  <2>3. ClientsOK' /\ Stays({})
    BY <1>1, <2>1, NothingGiven
  <2> HIDE DEF s
  <2>4. ListOK' /\ \E place, org, j : SentH(1, {}, place, org, j, s)
    BY <1>1, <1>2, <2>1, <2>2, <2>3, ListHigh DEF s
  <2> QED BY <1>1, <1>5, <2>1, <2>3, <2>4, AnswerSends DEF s
<1>6. CASE MembersOf(g) # {}
  <2>1. PICK heir \in MembersOf(g) :
          /\ Send(Rest, <<High("set_leader", g, heir)>>, <<>>)
          /\ client' = [client EXCEPT ![heir].leader = @ \/ client[heir].party = g]
    BY <1>6 DEF DB_TransferLeadership
  <2> DEFINE s == High("set_leader", g, heir)
  <2>5. heir \in Players
    BY DEF MembersOf
  <2>2. s \in Plain /\ Present(client', s)
    BY <1>2, <1>3, <2>5, SentPlain, Anonymous
  <2>3. ClientsOK' /\ Stays({})
    BY <1>1, <1>3, <2>1, <2>5, HeirTold
  <2> HIDE DEF s
  <2>4. ListOK' /\ \E place, org, j : SentH(1, {}, place, org, j, s)
    BY <1>1, <1>2, <2>1, <2>2, <2>3, ListHigh DEF s
  <2>6. Base'
    BY <1>1, <2>3, <2>4, AnswerSends
  <2> QED BY <1>1, <2>1, <2>4, <2>6 DEF s
<1> QED BY <1>5, <1>6

LEMMA CheckSends ==
  ASSUME Base, DB_CheckPartyEmpty
  PROVE  /\ Base' /\ UNCHANGED <<client, tables, history>>
         /\ \/ /\ MembersOf(Answered.g) = {}
               /\ \E place, org, j :
                    SentN(1, {}, place, org, j, Normal("dissolve", Answered.g, Nobody))
            \/ /\ MembersOf(Answered.g) # {}
               /\ \E place, org : Taken(1, {}, place, org)
<1> DEFINE g == Answered.g
<1>1. /\ Done("check_empty") /\ UNCHANGED <<client, tables, history>> /\ created' = created
  BY DEF DB_CheckPartyEmpty, tables
<1>2. /\ pending # <<>> /\ Answered \in Shaped /\ Answered.do = "check_empty" /\ g <= created
      /\ From(Rest, 1, {})
  BY <1>1, AnsweredIs
<1>3. g \in Parties
  BY <1>2 DEF Shaped, OnParty
<1>4. ClientsOK' /\ Stays({})
  BY <1>1, NothingGiven
<1>5. CASE MembersOf(g) = {}
  <2>1. Send(Rest, <<>>, <<Normal("dissolve", g, Nobody)>>)
    BY <1>5 DEF DB_CheckPartyEmpty
  <2> DEFINE s == Normal("dissolve", g, Nobody)
  <2>2. s \in Plain /\ Present(client', s)
    BY <1>2, <1>3, DissolvePlain, Anonymous
  <2> HIDE DEF s
  <2>4. ListOK' /\ \E place, org, j : SentN(1, {}, place, org, j, s)
    BY <1>1, <1>2, <1>4, <2>1, <2>2, ListNormal DEF s
  <2> QED BY <1>1, <1>4, <1>5, <2>4, AnswerSends DEF s
<1>6. CASE MembersOf(g) # {}
  <2>1. Keep
    BY <1>6 DEF DB_CheckPartyEmpty
  <2>2. ListOK' /\ \E place, org : Taken(1, {}, place, org)
    BY <1>1, <1>2, <1>4, <2>1, KeepSends
  <2> QED BY <1>1, <1>4, <1>6, <2>2, AnswerSends
<1> QED BY <1>5, <1>6

\* An invitation is sent for.
LEMMA InviteSends ==
  ASSUME Base, NEW p \in Players, NEW q \in Players, Party_Invite(p, q)
  PROVE  /\ Base' /\ UNCHANGED <<client, tables, tickets, confused>> /\ p # q
         /\ \E place, org, j : SentH(0, {}, place, org, j,
              Statement("invite", TRUE, client[p].party, p, TRUE, q, TRUE))
<1> DEFINE s == Statement("invite", TRUE, client[p].party, p, TRUE, q, TRUE)
<1>1. /\ p # q /\ client[p].online /\ client[q].online
      /\ sent < MaxInvites /\ sent' = sent + 1
      /\ Send(pending, <<s>>, <<>>)
      /\ UNCHANGED <<client, tables, tickets, confused>> /\ created' = created
  BY DEF Party_Invite, tables
<1>2. s \in Plain
  <2>1. client[p].party \in Parties \cup {NoParty} /\ client[p].party <= created
    BY OnlineParty
  <2> QED BY <1>1, <2>1, SentPlain
<1>3. Present(client', s)
  BY <1>1 DEF Present, Statement
<1> HIDE DEF s
<1>4. ClientsOK' /\ Stays({})
  BY <1>1, NothingGiven
<1>5. ListOK' /\ \E place, org, j : SentH(0, {}, place, org, j, s)
  BY <1>1, <1>2, <1>3, <1>4, FromPending, BaseFacts, ListHigh
<1>6. TablesOK'
  BY <1>1, TablesKept DEF Base, tables
<1>7. CountsOK'
  BY <1>1, PartiesAssumption DEF Base, CountsOK
<1> QED BY <1>1, <1>4, <1>5, <1>6, <1>7 DEF s, Base

\* An invitation gives tickets and takes none.
LEMMA TicketGiven ==
  ASSUME CountsOK, NEW g \in Parties, NEW whom, Ticket(g, whom)
  PROVE  /\ tickets' \in [Parties -> [Players -> Int]]
         /\ \A h \in Parties, p \in Players :
              tickets'[h][p] = tickets[h][p] + IF h = g /\ p \in whom THEN 1 ELSE 0
<1> DEFINE more == [p \in Players |-> tickets[g][p] + IF p \in whom THEN 1 ELSE 0]
<1>1. tickets' = [tickets EXCEPT ![g] = more]
  BY DEF Ticket
<1>2. tickets \in [Parties -> [Players -> Int]] /\ more \in [Players -> Int]
  BY DEF CountsOK
<1>3. \A p \in Players : more[p] = tickets[g][p] + IF p \in whom THEN 1 ELSE 0
  OBVIOUS
<1> HIDE DEF more
<1> QED BY <1>1, <1>2, <1>3

\* DB_InviteCheckParty refuses, sends the invitation or has a party founded.
LEMMA InviteCheckSends ==
  ASSUME Base, DB_InviteCheckParty
  PROVE  /\ Base' /\ UNCHANGED <<tables, sent, confused>>
         /\ \/ UNCHANGED <<client, tickets>> /\ \E place, org : Taken(1, {}, place, org)
            \/ /\ Answered.known /\ Answered.toKnown
               /\ client' = [client EXCEPT ![Answered.to].invite = client[Answered.p].party]
               /\ IF client[Answered.p].party \in Parties
                    THEN Ticket(client[Answered.p].party, {Answered.to}) ELSE UNCHANGED tickets
               /\ \E place, org, j : SentH(1, {}, place, org, j,
                    High("add_invite", client[Answered.p].party, Answered.to))
            \/ /\ Answered.known /\ Answered.toKnown /\ UNCHANGED <<client, tickets>>
               /\ \E place, org, j : SentH(1, {}, place, org, j,
                    [Answered EXCEPT !.do = "found", !.g = NoParty])
<1> DEFINE s == Answered
           g == client[s.p].party
<1>1. /\ Done("invite") /\ UNCHANGED <<tables, sent, confused>> /\ created' = created
  BY DEF DB_InviteCheckParty, tables
<1>2. /\ pending # <<>> /\ s \in Shaped /\ s.do = "invite" /\ s.g <= created
      /\ From(Rest, 1, {}) /\ Present(client, s)
  BY <1>1, AnsweredIs
<1>3. s.p \in Players /\ s.to \in Players
  BY <1>2 DEF Shaped, OnParty
<1>4. TablesOK'
  BY <1>1, TablesKept DEF Base, tables
<1>5. CASE Keep /\ UNCHANGED <<client, tickets>>
  <2>1. ClientsOK' /\ Stays({})
    BY <1>1, <1>5, NothingGiven
  <2>2. CountsOK'
    BY <1>1, <1>5, CountsKept DEF Base
  <2>3. ListOK' /\ \E place, org : Taken(1, {}, place, org)
    BY <1>1, <1>2, <1>5, <2>1, KeepSends
  <2> QED BY <1>1, <1>4, <1>5, <2>1, <2>2, <2>3 DEF Base
<1>6. CASE /\ s.known /\ s.toKnown
           /\ Send(Rest, <<High("add_invite", g, s.to)>>, <<>>)
           /\ client' = [client EXCEPT ![s.to].invite = g]
           /\ IF g \in Parties THEN Ticket(g, {s.to}) ELSE UNCHANGED tickets
  <2> DEFINE t == High("add_invite", g, s.to)
  <2>1. g \in Parties \cup {NoParty} /\ g <= created
    BY <1>3, OnlineParty
  <2>2. ClientsOK' /\ Stays({})
    BY <1>1, <1>2, <1>3, <1>6, <2>1, InvitationGiven DEF Present
  <2>3. t \in Plain /\ Present(client', t)
    BY <1>3, <2>1, SentPlain, Anonymous
  <2>4. tickets' \in [Parties -> [Players -> Int]]
    BY <1>6, TicketGiven DEF Base, CountsOK
  <2>5. CountsOK'
    BY <1>1, <2>4 DEF Base, CountsOK
  <2> HIDE DEF t
  <2>6. ListOK' /\ \E place, org, j : SentH(1, {}, place, org, j, t)
    BY <1>1, <1>2, <1>6, <2>2, <2>3, ListHigh DEF t
  <2>7. Base'
    BY <1>4, <2>2, <2>5, <2>6 DEF Base
  <2> QED BY <1>1, <1>6, <2>6, <2>7 DEF t
<1>7. CASE /\ s.known /\ s.toKnown /\ UNCHANGED <<client, tickets>>
           /\ Send(Rest, <<[s EXCEPT !.do = "found", !.g = NoParty]>>, <<>>)
  <2> DEFINE t == [s EXCEPT !.do = "found", !.g = NoParty]
  <2>1. t \in Shaped /\ t.g = NoParty /\ t.do = "found"
        /\ t.p = s.p /\ t.known = s.known /\ t.to = s.to /\ t.toKnown = s.toKnown
    BY <1>2 DEF Shaped, Statements, HighKinds, OnParty
  <2>2. ClientsOK' /\ Stays({})
    BY <1>1, <1>7, NothingGiven
  <2>3. NoParty <= created
    BY BaseFacts DEF NoParty
  <2>4. t \in Plain
    BY <2>1, <2>3 DEF Plain
  <2>5. Present(client', t)
    BY <1>2, <1>7, <2>1 DEF Present
  <2> HIDE DEF t
  <2>6. ListOK' /\ \E place, org, j : SentH(1, {}, place, org, j, t)
    BY <1>1, <1>2, <1>7, <2>2, <2>4, <2>5, ListHigh DEF t
  <2>7. CountsOK'
    BY <1>1, <1>7, CountsKept DEF Base
  <2>8. Base'
    BY <1>4, <2>2, <2>6, <2>7 DEF Base
  <2> QED BY <1>1, <1>7, <2>6, <2>8 DEF t
<1> QED BY <1>5, <1>6, <1>7 DEF DB_InviteCheckParty

\* The expiry timer and its answer, declining and accepting.
LEMMA TimerSends ==
  ASSUME Base, NEW p \in Players, Timer_CleanupInvites(p)
  PROVE  /\ Base' /\ UNCHANGED <<client, tables, history>>
         /\ \E place, org, j : SentN(0, {}, place, org, j,
              For(p, Normal("check_invite", client[p].invite, p)))
<1> DEFINE s == For(p, Normal("check_invite", client[p].invite, p))
<1>1. /\ client[p].invite # NoParty /\ Send(pending, <<>>, <<s>>)
      /\ UNCHANGED <<client, tables, history>> /\ created' = created
  BY DEF Timer_CleanupInvites, tables
<1>2. s \in Plain /\ client[p].online
  BY <1>1, OnlineParty, SentPlain
<1>3. Present(client', s)
  BY <1>1, <1>2 DEF Present, For, Normal, Statement
<1> HIDE DEF s
<1>4. ClientsOK' /\ Stays({})
  BY <1>1, NothingGiven
<1>5. ListOK' /\ \E place, org, j : SentN(0, {}, place, org, j, s)
  BY <1>1, <1>2, <1>3, <1>4, FromPending, BaseFacts, ListNormal
<1> QED BY <1>1, <1>4, <1>5, AnswerSends DEF s

LEMMA InviteExpiredSends ==
  ASSUME Base, DB_InviteExpired
  PROVE  /\ Base' /\ UNCHANGED <<tables, history>>
         /\ \/ UNCHANGED client
            \/ Answered.p \in Players /\ client' = [client EXCEPT ![Answered.p].invite = NoParty]
         /\ \E place, org : Taken(1, {}, place, org)
<1>1. Done("check_invite") /\ Keep /\ UNCHANGED <<tables, history>> /\ created' = created
  BY DEF DB_InviteExpired, tables
<1>2. pending # <<>> /\ Present(client, Answered)
  BY <1>1, AnsweredIs
<1>3. CASE Answered.known /\ client' = [client EXCEPT ![Answered.p].invite = NoParty]
  <2>1. Answered.p \in Players /\ client[Answered.p].online
    BY <1>2, <1>3 DEF Present
  <2>2. ClientsOK' /\ Stays({})
    <3>1. NoParty <= created
      BY BaseFacts DEF NoParty
    <3> QED BY <1>1, <1>3, <2>1, <3>1, InvitationGiven
  <2>3. ListOK' /\ \E place, org : Taken(1, {}, place, org)
    BY <1>1, <1>2, <2>2, KeepSends
  <2> QED BY <1>1, <1>3, <2>1, <2>2, <2>3, AnswerSends
<1>4. CASE UNCHANGED client
  <2>2. ClientsOK' /\ Stays({})
    BY <1>1, <1>4, NothingGiven
  <2>3. ListOK' /\ \E place, org : Taken(1, {}, place, org)
    BY <1>1, <1>2, <2>2, KeepSends
  <2> QED BY <1>1, <1>4, <2>2, <2>3, AnswerSends
<1> QED BY <1>3, <1>4 DEF DB_InviteExpired

LEMMA DeclineSends ==
  ASSUME Base, NEW p \in Players, Party_Decline(p)
  PROVE  /\ Base' /\ UNCHANGED <<tables, history>>
         /\ client' = [client EXCEPT ![p].invite = NoParty]
         /\ \E place, org, j : SentN(0, {}, place, org, j,
              Normal("remove_invite", client[p].invite, p))
<1> DEFINE s == Normal("remove_invite", client[p].invite, p)
<1>1. /\ client[p].invite # NoParty /\ client' = [client EXCEPT ![p].invite = NoParty]
      /\ Send(pending, <<>>, <<s>>) /\ UNCHANGED <<tables, history>> /\ created' = created
  BY DEF Party_Decline, tables
<1>2. s \in Plain /\ client[p].online /\ Present(client', s)
  BY <1>1, OnlineParty, SentPlain, Anonymous
<1>3. NoParty <= created
  BY BaseFacts DEF NoParty
<1>4. ClientsOK' /\ Stays({})
  BY <1>1, <1>2, <1>3, InvitationGiven
<1> HIDE DEF s
<1>5. ListOK' /\ \E place, org, j : SentN(0, {}, place, org, j, s)
  BY <1>1, <1>2, <1>4, FromPending, BaseFacts, ListNormal
<1> QED BY <1>1, <1>4, <1>5, AnswerSends DEF s

LEMMA AcceptSends ==
  ASSUME Base, NEW p \in Players, Party_Accept(p)
  PROVE  /\ Base' /\ UNCHANGED <<client, tables, tickets>>
         /\ client[p].invite # NoParty /\ client[p].party = NoParty
         /\ ~confused' => ~confused /\ ~Accepting(p)
         /\ \E place, org, j : SentH(0, {}, place, org, j,
              For(p, High("verify", client[p].invite, p)))
<1> DEFINE s == For(p, High("verify", client[p].invite, p))
<1>1. /\ client[p].invite # NoParty /\ client[p].party = NoParty /\ Send(pending, <<s>>, <<>>)
      /\ confused' = (confused \/ Accepting(p))
      /\ UNCHANGED <<client, tables, tickets, sent>> /\ created' = created
  BY DEF Party_Accept, tables
<1>2. s \in Plain /\ client[p].online
  BY <1>1, OnlineParty, SentPlain
<1>3. Present(client', s)
  BY <1>1, <1>2 DEF Present, For, High, Statement
<1> HIDE DEF s
<1>4. ClientsOK' /\ Stays({})
  BY <1>1, NothingGiven
<1>5. ListOK' /\ \E place, org, j : SentH(0, {}, place, org, j, s)
  BY <1>1, <1>2, <1>3, <1>4, FromPending, BaseFacts, ListHigh
<1>6. TablesOK'
  BY <1>1, TablesKept DEF Base, tables
<1>7. CountsOK' /\ (~confused' => ~confused /\ ~Accepting(p))
  BY <1>1, MayConfuse DEF Base
<1> QED BY <1>1, <1>4, <1>5, <1>6, <1>7 DEF s, Base

\* A verified accept sends the insertion, another takes the invitation away.
LEMMA VerifySends ==
  ASSUME Base, DB_AcceptVerify
  PROVE  /\ Base' /\ UNCHANGED <<tables, history>> /\ Answered.p \in Players
         /\ \/ /\ \/ UNCHANGED client
                  \/ client' = [client EXCEPT ![Answered.p].invite = NoParty]
               /\ \E place, org : Taken(1, {}, place, org)
            \/ /\ Answered.known /\ UNCHANGED client
               /\ \E place, org, j, k : SentHH(1, {}, place, org,
                    j, For(Answered.p, High("join", client[Answered.p].invite, Answered.p)),
                    k, High("remove_invite", client[Answered.p].invite, Answered.p))
<1> DEFINE p == Answered.p
           g == client[p].invite
<1>1. Done("verify") /\ UNCHANGED <<tables, history>> /\ created' = created
  BY DEF DB_AcceptVerify, tables
<1>2. /\ pending # <<>> /\ Answered \in Shaped /\ Answered.do = "verify" /\ From(Rest, 1, {})
      /\ Present(client, Answered)
  BY <1>1, AnsweredIs
<1>3. p \in Players
  BY <1>2 DEF Shaped, OnParty
<1>4. CASE Keep /\ UNCHANGED client
  <2>2. ClientsOK' /\ Stays({})
    BY <1>1, <1>4, NothingGiven
  <2>3. ListOK' /\ \E place, org : Taken(1, {}, place, org)
    BY <1>1, <1>2, <1>4, <2>2, KeepSends
  <2> QED BY <1>1, <1>3, <1>4, <2>2, <2>3, AnswerSends
<1>5. CASE Answered.known /\ Keep /\ client' = [client EXCEPT ![p].invite = NoParty]
  <2>1. client[p].online
    BY <1>2, <1>5 DEF Present
  <2>2. ClientsOK' /\ Stays({})
    <3>1. NoParty <= created
      BY BaseFacts DEF NoParty
    <3> QED BY <1>1, <1>3, <1>5, <2>1, <3>1, InvitationGiven
  <2>3. ListOK' /\ \E place, org : Taken(1, {}, place, org)
    BY <1>1, <1>2, <1>5, <2>2, KeepSends
  <2> QED BY <1>1, <1>3, <1>5, <2>2, <2>3, AnswerSends
<1>6. CASE Answered.known /\ Send(Rest, Admission(g, p), <<>>) /\ UNCHANGED client
  <2> DEFINE s == For(p, High("join", g, p))
             t == High("remove_invite", g, p)
  <2>1. s \in Plain /\ t \in Plain
    BY <1>3, OnlineParty, SentPlain
  <2>2. ClientsOK' /\ Stays({})
    BY <1>1, <1>6, NothingGiven
  <2>3. Present(client', s) /\ Present(client', t)
    BY <1>2, <1>6, Anonymous DEF Present, For, High, Statement
  <2> HIDE DEF s, t
  <2>4. Send(Rest, <<s, t>>, <<>>)
    BY <1>6 DEF Admission, s, t
  <2>5. ListOK' /\ \E place, org, j, k : SentHH(1, {}, place, org, j, s, k, t)
    BY <1>1, <1>2, <2>1, <2>2, <2>3, <2>4, ListTwoHigh
  <2>6. Base'
    BY <1>1, <2>2, <2>5, AnswerSends
  <2> QED BY <1>1, <1>3, <1>6, <2>5, <2>6 DEF s, t
<1> QED BY <1>4, <1>5, <1>6 DEF DB_AcceptVerify

\* A kick takes the party from the kicked and sends for his row.
LEMMA KickSends ==
  ASSUME Base, NEW p \in Players, NEW q \in Players, Party_Kick(p, q)
  PROVE  /\ Base' /\ UNCHANGED <<tables, history>> /\ p # q
         /\ client[p].leader /\ client[p].party \in Parties /\ client[q].party = client[p].party
         /\ client' = [client EXCEPT ![q].party = NoParty, ![q].leader = FALSE]
         /\ \E place, org, j : SentH(0, {}, place, org, j,
              High("remove_member", client[p].party, q))
<1> DEFINE s == High("remove_member", client[p].party, q)
           c == [client[q] EXCEPT !.party = NoParty, !.leader = FALSE]
<1>1. /\ p # q /\ client[p].leader /\ client[p].party # NoParty
      /\ client[q].online /\ client[q].party = client[p].party
      /\ client' = [client EXCEPT ![q].party = NoParty, ![q].leader = FALSE]
      /\ Send(pending, <<s>>, <<>>) /\ UNCHANGED <<tables, history>> /\ created' = created
  BY DEF Party_Kick, tables
<1>2. client[p].party \in Parties /\ client[p].party <= created
  BY <1>1, OnlineParty
<1>3. s \in Plain /\ Present(client', s)
  BY <1>2, SentPlain, Anonymous
<1>4. c \in Clients /\ c.online /\ c.party <= created /\ c.invite <= created
  <2>1. client[q] \in Clients /\ client[q].invite <= created
    BY OnlineParty
  <2>2. NoParty <= created
    BY BaseFacts DEF NoParty
  <2> QED BY <1>1, <2>1, <2>2 DEF Clients
<1>5. client' = [client EXCEPT ![q] = c]
  BY <1>1
<1> HIDE DEF s, c
<1>6. ClientsOK' /\ Stays({})
  BY <1>1, <1>4, <1>5, ClientGiven
<1>7. ListOK' /\ \E place, org, j : SentH(0, {}, place, org, j, s)
  BY <1>1, <1>3, <1>6, FromPending, BaseFacts, ListHigh
<1>8. Base'
  BY <1>1, <1>6, <1>7, AnswerSends
<1> QED BY <1>1, <1>2, <1>7, <1>8 DEF s

Elsewhere(g, p) == \E h \in Parties \ {g} : <<h, p>> \in members

\* What confused forgets: nothing.
LEMMA Remembers ==
  ASSUME confused \in BOOLEAN, NEW more, confused' = (confused \/ more)
  PROVE  confused' \in BOOLEAN /\ (~confused' => ~confused /\ ~more)
<1>1. CASE more
  BY <1>1
<1>2. CASE ~more
  BY <1>2
<1> QED BY <1>1, <1>2

\* Inserting a member keeps the types, and says where else he is one.
LEMMA InsertTyped ==
  ASSUME Base, NEW g, NEW p \in Players, Insert(g, p)
  PROVE  /\ TablesOK' /\ CountsOK' /\ UNCHANGED <<leaderOf, invites, created, sent>>
         /\ ~confused' => ~confused /\ ~Elsewhere(g, p)
         /\ \/ /\ Exists(g) /\ <<g, p>> \notin members
               /\ members' = members \cup {<<g, p>>}
               /\ tickets' = [tickets EXCEPT ![g][p] = @ - 1]
            \/ ~(Exists(g) /\ <<g, p>> \notin members) /\ UNCHANGED <<members, tickets>>
<1>1. /\ confused' = (confused \/ Elsewhere(g, p))
      /\ UNCHANGED <<leaderOf, invites, created, sent>>
  BY DEF Insert, Elsewhere
<1>2. CASE /\ Exists(g) /\ <<g, p>> \notin members
           /\ members' = members \cup {<<g, p>>}
           /\ tickets' = [tickets EXCEPT ![g][p] = @ - 1]
  <2>1. g \in Parties
    BY <1>2 DEF Exists
  <2>2. TablesOK'
    BY <1>1, <1>2, <2>1 DEF Base, TablesOK, Exists
  <2>3. tickets' \in [Parties -> [Players -> Int]]
    BY <1>2, <2>1 DEF Base, CountsOK
  <2>4. confused' \in BOOLEAN /\ (~confused' => ~confused /\ ~Elsewhere(g, p))
    BY <1>1, Remembers DEF Base, CountsOK
  <2> QED BY <1>1, <1>2, <2>2, <2>3, <2>4 DEF Base, CountsOK
<1>3. CASE ~(Exists(g) /\ <<g, p>> \notin members) /\ UNCHANGED <<members, tickets>>
  <2>1. TablesOK'
    BY <1>1, <1>3, TablesKept DEF Base
  <2>2. CountsOK' /\ (~confused' => ~confused /\ ~Elsewhere(g, p))
    BY <1>1, <1>3, MayConfuse DEF Base
  <2> QED BY <1>1, <1>3, <2>1, <2>2
<1> QED BY <1>2, <1>3 DEF Insert

\* The two statements that insert members.
LEMMA JoinedSends ==
  ASSUME Base, DB_AcceptJoined
  PROVE  /\ Base' /\ Answered.p \in Players /\ Insert(Answered.g, Answered.p)
         /\ client' = IF Answered.known
              THEN [client EXCEPT ![Answered.p] = [Online EXCEPT !.party = Answered.g]] ELSE client
         /\ \E place, org : Taken(1, {}, place, org)
<1> DEFINE g == Answered.g
           p == Answered.p
           c == [Online EXCEPT !.party = g]
<1>1. /\ Done("join") /\ Keep /\ Insert(g, p)
      /\ client' = IF Answered.known THEN [client EXCEPT ![p] = c] ELSE client
  BY DEF DB_AcceptJoined
<1>2. /\ pending # <<>> /\ Answered \in Shaped /\ Answered.do = "join" /\ g <= created
      /\ Present(client, Answered)
  BY <1>1, AnsweredIs
<1>3. p \in Players /\ g \in Parties \cup {NoParty}
  BY <1>2 DEF Shaped, OnParty, Statements
<1>4. TablesOK' /\ CountsOK' /\ created' = created
  BY <1>1, <1>3, InsertTyped
<1>5. ClientsOK' /\ Stays({})
  <2>1. CASE Answered.known
    <3>1. client[p].online
      BY <1>2, <2>1 DEF Present
    <3>2. c \in Clients /\ c.online /\ c.party <= created /\ c.invite <= created
      <4>1. NoParty <= created
        BY BaseFacts DEF NoParty
      <4> QED BY <1>2, <1>3, <4>1, OnlineIs DEF Clients
    <3> HIDE DEF c
    <3> QED BY <1>1, <1>3, <1>4, <2>1, <3>1, <3>2, ClientGiven
  <2>2. CASE ~Answered.known
    BY <1>1, <1>4, <2>2, NothingGiven
  <2> QED BY <2>1, <2>2
<1>6. ListOK' /\ \E place, org : Taken(1, {}, place, org)
  BY <1>1, <1>2, <1>4, <1>5, KeepSends
<1> QED BY <1>1, <1>3, <1>4, <1>5, <1>6 DEF Base

LEMMA AddMemberSends ==
  ASSUME Base, AddMember
  PROVE  /\ Base' /\ Answered.p \in Players /\ Insert(Answered.g, Answered.p) /\ UNCHANGED client
         /\ \E place, org : Taken(1, {}, place, org)
<1>1. Done("add_member") /\ Keep /\ Insert(Answered.g, Answered.p) /\ UNCHANGED client
  BY DEF AddMember
<1>2. pending # <<>> /\ Answered \in Shaped /\ Answered.do = "add_member"
  BY <1>1, AnsweredIs
<1>3. Answered.p \in Players
  BY <1>2 DEF Shaped, OnParty
<1>4. TablesOK' /\ CountsOK' /\ created' = created
  BY <1>1, <1>3, InsertTyped
<1>5. ClientsOK' /\ Stays({})
  BY <1>1, <1>4, NothingGiven
<1>6. ListOK' /\ \E place, org : Taken(1, {}, place, org)
  BY <1>1, <1>2, <1>4, <1>5, KeepSends
<1> QED BY <1>1, <1>3, <1>4, <1>5, <1>6 DEF Base

\* DB_PartyCreated fails on the key, or gives the party the next number.
Founds(s, g) ==
  /\ ~Leads(s.p) /\ g \in Parties /\ s.p \in Players /\ s.to \in Players /\ s.p # s.to
  /\ created' = g /\ leaderOf' = [leaderOf EXCEPT ![g] = s.p]
  /\ Ticket(g, {s.p, s.to})
  /\ client' = [client EXCEPT
       ![s.p] = IF s.known THEN [@ EXCEPT !.party = g, !.leader = TRUE] ELSE @,
       ![s.to] = IF s.toKnown THEN [@ EXCEPT !.invite = g] ELSE @]
  /\ ~confused' => ~confused /\ ~(s.known /\ Accepting(s.p))

\* A party is founded, or not.
LEMMA CreatedSends ==
  ASSUME Base, DB_PartyCreated
  PROVE  /\ Base' /\ UNCHANGED <<members, invites, sent>>
         /\ \/ /\ UNCHANGED <<client, leaderOf, created, tickets, confused>>
               /\ \E place, org : Taken(1, {}, place, org)
            \/ /\ Founds(Answered, created + 1)
               /\ \E place, org, j, k : SentHH(1, {}, place, org,
                    j, High("add_member", created + 1, Answered.p),
                    k, High("add_invite", created + 1, Answered.to))
<1> DEFINE s == Answered
           g == created + 1
<1>1. Done("found") /\ UNCHANGED <<members, invites, sent>>
  BY DEF DB_PartyCreated
<1>2. /\ pending # <<>> /\ s \in Shaped /\ s.do = "found" /\ From(Rest, 1, {})
      /\ Present(client, s)
  BY <1>1, AnsweredIs
<1>3. s.p \in Players /\ s.to \in Players /\ s.p # s.to
  BY <1>2 DEF Shaped, OnParty
<1>4. CASE Keep /\ UNCHANGED <<client, leaderOf, created, tickets, confused>>
  <2>1. ClientsOK' /\ Stays({})
    BY <1>4, NothingGiven
  <2>2. ListOK' /\ \E place, org : Taken(1, {}, place, org)
    BY <1>2, <1>4, <2>1, KeepSends
  <2>3. TablesOK'
    BY <1>1, <1>4, TablesKept DEF Base
  <2>4. CountsOK'
    BY <1>1, <1>4, CountsKept DEF Base
  <2> QED BY <1>1, <1>4, <2>1, <2>2, <2>3, <2>4 DEF Base
<1>5. CASE /\ ~Leads(s.p) /\ g \in Parties
           /\ created' = g
           /\ leaderOf' = [leaderOf EXCEPT ![g] = s.p]
           /\ Send(Rest, <<High("add_member", g, s.p), High("add_invite", g, s.to)>>, <<>>)
           /\ Ticket(g, {s.p, s.to})
           /\ client' = [client EXCEPT
                ![s.p] = IF s.known THEN [@ EXCEPT !.party = g, !.leader = TRUE] ELSE @,
                ![s.to] = IF s.toKnown THEN [@ EXCEPT !.invite = g] ELSE @]
           /\ confused' = (confused \/ (s.known /\ Accepting(s.p)))
  <2>0. created \in Nat /\ g \in Nat /\ created < g
    BY BaseFacts
  <2>1. /\ tickets' \in [Parties -> [Players -> Int]]
    BY <1>5, TicketGiven DEF Base
  <2>2. confused' \in BOOLEAN /\ (~confused' => ~confused /\ ~(s.known /\ Accepting(s.p)))
    BY <1>5, Remembers DEF Base, CountsOK
  <2>3. CountsOK'
    BY <1>1, <2>1, <2>2 DEF Base, CountsOK
  <2>4. TablesOK'
    <3>1. g \in 0..Cardinality(Parties)
      BY <1>5, <2>0, PartyNumbers
    <3>2. \A h \in Parties : h \in Nat
      BY PartyNumbers
    <3>3. \A h \in Parties : Exists(h)' => h <= created'
      BY <1>3, <1>5, <2>0, <3>2 DEF Base, TablesOK, Exists
    <3>4. \A h : Exists(h) => Exists(h)'
      BY <1>3, <1>5, PartiesAssumption DEF Base, TablesOK, Exists
    <3>5. \A i \in invites : i[1] <= created'
      BY <1>5, <2>0, <3>2 DEF Base, TablesOK
    <3> QED BY <1>1, <1>3, <1>5, <3>1, <3>3, <3>4, <3>5 DEF Base, TablesOK
  <2>5. ClientsOK' /\ Stays({})
    <3>1. /\ client \in [Players -> Clients]
          /\ \A p \in Players : /\ client[p].online \/ client[p] = Offline
                                /\ client[p].party <= created /\ client[p].invite <= created
                                /\ client[p].party \in Nat /\ client[p].invite \in Nat
      BY PartyNumbers DEF Base, ClientsOK, Clients, NoParty
    <3> DEFINE a == IF s.known THEN [client[s.p] EXCEPT !.party = g, !.leader = TRUE] ELSE client[s.p]
               b == IF s.toKnown THEN [client[s.to] EXCEPT !.invite = g] ELSE client[s.to]
    <3>2. a \in Clients /\ (a.online \/ a = Offline) /\ a.party <= g /\ a.invite <= g
          /\ (client[s.p].online => a.online)
      <4>1. CASE s.known
        <5>1. client[s.p].online
          BY <1>2, <4>1 DEF Present
        <5>2. client[s.p] \in Clients /\ client[s.p].invite <= g
          BY <1>3, <2>0, <3>1
        <5>3. a = [client[s.p] EXCEPT !.party = g, !.leader = TRUE]
          BY <4>1
        <5> HIDE DEF a
        <5>4. a.party = g /\ a.invite = client[s.p].invite /\ a.online = client[s.p].online
          BY <5>2, <5>3 DEF Clients
        <5>5. a \in Clients
          BY <1>5, <5>2, <5>3 DEF Clients
        <5> QED BY <2>0, <5>1, <5>2, <5>4, <5>5
      <4> QED BY <1>3, <2>0, <3>1, <4>1
    <3>3. b \in Clients /\ (b.online \/ b = Offline) /\ b.party <= g /\ b.invite <= g
          /\ (client[s.to].online => b.online)
      <4>1. CASE s.toKnown
        <5>1. client[s.to].online
          BY <1>2, <4>1 DEF Present
        <5> QED BY <1>3, <1>5, <2>0, <3>1, <4>1, <5>1 DEF Clients
      <4> QED BY <1>3, <2>0, <3>1, <4>1
    <3>4. client' = [client EXCEPT ![s.p] = a, ![s.to] = b]
      BY <1>3, <1>5
    <3> HIDE DEF a, b
    <3>5. \A p \in Players : client'[p] = IF p = s.to THEN b ELSE IF p = s.p THEN a ELSE client[p]
      BY <1>3, <3>1, <3>4
    <3>6. client' \in [Players -> Clients]
      BY <1>3, <3>1, <3>2, <3>3, <3>4
    <3>7. \A p \in Players : client[p].party <= g /\ client[p].invite <= g
      BY <2>0, <3>1
    <3>8. ClientsOK'
      BY <1>5, <3>1, <3>2, <3>3, <3>5, <3>6, <3>7 DEF ClientsOK
    <3> QED BY <3>2, <3>3, <3>5, <3>8 DEF Stays
  <2> DEFINE a == High("add_member", g, s.p)
             i == High("add_invite", g, s.to)
  <2>6. /\ a \in Shaped /\ a.g = g /\ a.do = "add_member"
        /\ i \in Shaped /\ i.g = g /\ i.do = "add_invite"
    BY <1>3, <1>5 DEF High, Statement, Shaped, Statements, HighKinds, OnParty
  <2>7. Present(client', a) /\ Present(client', i)
    BY Anonymous
  <2> HIDE DEF a, i
  <2>8. Send(Rest, <<a, i>>, <<>>)
    BY <1>5 DEF a, i
  <2>9. /\ pending' \in Seq(Shaped) /\ Len(pending') <= MaxPending
        /\ \E place, org, j, k : SentHH(1, {}, place, org, j, a, k, i)
    BY <1>2, <2>6, <2>8, TwoHigh, BaseFacts
  <2>10. ListOK'
    <3>1. PICK place, org, j, k : SentHH(1, {}, place, org, j, a, k, i)
      BY <2>9
    <3>2. /\ Follows(1, {}, place, org) /\ Only(org, {j, k}) /\ pending'[j] = a /\ pending'[k] = i
      BY <3>1 DEF SentHH, NewHigh
    <3>3. \A x \in DOMAIN pending : pending[x].g <= created /\ pending[x].g \in Int
          /\ Present(client, pending[x])
      <4>1. \A x \in DOMAIN pending : pending[x].g \in Parties \cup {NoParty}
        BY BaseFacts DEF Shaped, Statements
      <4> QED BY <4>1, PartyNumbers DEF NoParty, Base, ListOK
    <3>4. ASSUME NEW x \in DOMAIN pending', org[x] # 0
          PROVE  /\ org[x] \in DOMAIN pending /\ place[org[x]] = x
                 /\ Still(pending'[x], pending[org[x]], {})
      <4>1. org[x] \in 0..Len(pending) /\ org[x] # 0
        BY <3>2, <3>4 DEF Follows
      <4> QED BY <3>2, <3>4, <4>1, BaseFacts DEF Follows
    <3>5. ASSUME NEW x \in DOMAIN pending', org[x] # 0
          PROVE  pending'[x].g <= created /\ pending'[x].g \in Int /\ Present(client', pending'[x])
      <4>1. Present(client, pending[org[x]]) /\ Still(pending'[x], pending[org[x]], {})
        BY <3>3, <3>4, <3>5
      <4>2. Present(client', pending'[x])
        BY <2>5, <4>1 DEF Still, Present, Stays
      <4>3. pending'[x].g = pending[org[x]].g
        BY <4>1 DEF Still
      <4> QED BY <3>3, <3>4, <3>5, <4>2, <4>3
    <3>6. ASSUME NEW x \in DOMAIN pending' PROVE pending'[x].g <= g /\ Present(client', pending'[x])
      <4>1. CASE org[x] # 0
        BY <2>0, <3>5, <4>1
      <4>2. CASE org[x] = 0
        BY <2>0, <2>6, <2>7, <3>2, <4>2 DEF Only
      <4> QED BY <4>1, <4>2
    <3>7. ASSUME NEW h \in Parties, NEW x \in DOMAIN pending', NEW y \in DOMAIN pending',
                 pending'[x].do = "add_member", pending'[x].g = h,
                 pending'[y].do = "add_member", pending'[y].g = h
          PROVE  x = y
      <4>1. CASE org[x] # 0 /\ org[y] # 0
        <5>1. org[x] = org[y]
          BY <3>4, <3>7, <4>1 DEF Still, Base, ListOK
        <5> QED BY <3>4, <4>1, <5>1
      <4>2. CASE org[x] = 0 /\ org[y] = 0
        BY <2>6, <3>2, <3>7, <4>2 DEF Only
      <4>3. CASE org[x] = 0 /\ org[y] # 0
        BY <2>0, <2>6, <3>2, <3>5, <3>7, <4>3 DEF Only
      <4>4. CASE org[x] # 0 /\ org[y] = 0
        BY <2>0, <2>6, <3>2, <3>5, <3>7, <4>4 DEF Only
      <4> QED BY <4>1, <4>2, <4>3, <4>4
    <3> QED BY <1>5, <2>9, <3>6, <3>7 DEF ListOK
  <2>11. Founds(s, g)
    BY <1>3, <1>5, <2>2 DEF Founds
  <2>12. Base'
    BY <2>3, <2>4, <2>5, <2>10 DEF Base
  <2> QED BY <1>1, <2>9, <2>11, <2>12 DEF a, i
<1> QED BY <1>4, <1>5 DEF DB_PartyCreated

\* Every step keeps Base.
LEMMA BaseStep == Base /\ [Next]_vars => Base'
<1> SUFFICES ASSUME Base, [Next]_vars PROVE Base'
  OBVIOUS
<1>1. CASE Command
  BY <1>1, ConnectSends, DisconnectSends, LeaveSends, AcceptSends, DeclineSends, TimerSends,
     InviteSends, KickSends, ExpireSends DEF Command
<1>2. CASE Callback
  BY <1>2, LoadPartySends, LoadInviteSends, InviteCheckSends, CreatedSends, VerifySends,
     JoinedSends, TransferSends, CheckSends, InviteExpiredSends, AddMemberSends,
     RemoveMemberSends, SetLeaderSends, DissolveSends, AddInviteSends, RemoveInviteSends
  DEF Callback
<1>3. CASE UNCHANGED vars
  <2>1. UNCHANGED <<client, tables, history, pending>>
    BY <1>3 DEF vars
  <2>2. created' = created
    BY <2>1 DEF tables
  <2>3. ClientsOK' /\ Stays({})
    BY <2>1, <2>2, NothingGiven
  <2>4. ListOK'
    BY <2>1, <2>2, <2>3, FromPending, BaseFacts, ListTaken
  <2> QED BY <2>1, <2>3, <2>4, AnswerSends
<1> QED BY <1>1, <1>2, <1>3 DEF Next

\* The plugin's arrays and the tables keep their types, and a client who is gone has
\* left nothing in the arrays.
THEOREM PartiesTyped == Spec => []TypeOK
<1>1. Init => Base
  BY BaseInit
<1>2. Base /\ [Next]_vars => Base'
  BY BaseStep
<1>3. Base => TypeOK
  BY BaseIsTypeOK
<1> QED BY <1>1, <1>2, <1>3, PTL DEF Spec

-----------------------------------------------------------------------------
\* The places of the list, by what stands there.
Of(i, do, p) == i \in DOMAIN pending /\ pending[i].do = do /\ pending[i].p = p
In(i, do, g) == i \in DOMAIN pending /\ pending[i].do = do /\ pending[i].g = g
At(i, do, g, p) == Of(i, do, p) /\ pending[i].g = g
Admits(i, p) == (Of(i, "verify", p) \/ Of(i, "join", p)) /\ pending[i].known

\* A step leaves the statements in their order; a client may be lost on the way.
LEMMA Order ==
  ASSUME Base, Base', NEW gone, NEW lost, NEW place, NEW org, Follows(gone, lost, place, org)
  PROVE  /\ gone \in {0, 1} /\ gone <= Len(pending)
         /\ DOMAIN pending = 1..Len(pending) /\ Len(pending) \in Nat
         /\ DOMAIN pending' = 1..Len(pending') /\ Len(pending') \in Nat
         /\ \A j \in DOMAIN pending' : org[j] # 0 =>
              /\ org[j] \in DOMAIN pending /\ org[j] > gone /\ place[org[j]] = j
              /\ pending'[j].do = pending[org[j]].do /\ pending'[j].high = pending[org[j]].high
              /\ pending'[j].g = pending[org[j]].g
              /\ pending'[j].p = pending[org[j]].p
              /\ pending'[j].known = (pending[org[j]].known /\ pending[org[j]].p \notin lost)
         /\ \A i \in DOMAIN pending : i > gone =>
              place[i] \in DOMAIN pending' /\ org[place[i]] = i
         /\ \A i, k \in DOMAIN pending : i > gone /\ k > gone /\ i < k => place[i] < place[k]
<1>1. /\ DOMAIN pending = 1..Len(pending) /\ Len(pending) \in Nat
      /\ DOMAIN pending' = 1..Len(pending') /\ Len(pending') \in Nat
  BY BaseFacts, ListOf DEF Base, ListOK
<1>2. gone \in {0, 1} /\ gone <= Len(pending)
  BY DEF Follows
<1>3. ASSUME NEW j \in DOMAIN pending', org[j] # 0
      PROVE  /\ org[j] \in DOMAIN pending /\ org[j] > gone /\ place[org[j]] = j
             /\ Still(pending'[j], pending[org[j]], lost)
  <2>1. org[j] \in 0..Len(pending)
    BY DEF Follows
  <2> QED BY <1>1, <1>3, <2>1 DEF Follows
<1>4. ASSUME NEW i \in DOMAIN pending, i > gone
      PROVE  place[i] \in DOMAIN pending' /\ org[place[i]] = i
  <2>1. i \in (gone + 1)..Len(pending)
    BY <1>1, <1>2, <1>4
  <2> QED BY <2>1 DEF Follows
<1>5. ASSUME NEW i \in DOMAIN pending, NEW k \in DOMAIN pending, i > gone, k > gone, i < k
      PROVE  place[i] < place[k]
  <2>1. i \in (gone + 1)..Len(pending) /\ k \in (gone + 1)..Len(pending)
    BY <1>1, <1>2, <1>5
  <2> QED BY <1>5, <2>1 DEF Follows
<1> QED BY <1>1, <1>2, <1>3, <1>4, <1>5 DEF Still

\* The same, for statements behind one another.
LEMMA InOrder ==
  ASSUME Base, Base', NEW gone, NEW lost, NEW place, NEW org, Follows(gone, lost, place, org)
  PROVE  \A j, k \in DOMAIN pending' : org[j] # 0 /\ org[k] # 0 =>
           /\ j < k <=> org[j] < org[k]
           /\ j = k <=> org[j] = org[k]
<1> SUFFICES ASSUME NEW j \in DOMAIN pending', NEW k \in DOMAIN pending', org[j] # 0, org[k] # 0
             PROVE  (j < k <=> org[j] < org[k]) /\ (j = k <=> org[j] = org[k])
  OBVIOUS
<1>1. /\ org[j] \in DOMAIN pending /\ org[j] > gone /\ place[org[j]] = j
      /\ org[k] \in DOMAIN pending /\ org[k] > gone /\ place[org[k]] = k
  BY Order
<1>2. org[j] < org[k] => j < k
  BY <1>1, Order
<1>3. org[k] < org[j] => k < j
  BY <1>1, Order
<1>4. org[j] \in Int /\ org[k] \in Int /\ j \in Int /\ k \in Int
  BY <1>1, Order
<1> QED BY <1>1, <1>2, <1>3, <1>4

\* A High statement that is sent stands behind the High ones that wait.
LEMMA Behind ==
  ASSUME Base, Base', NEW gone, NEW lost, NEW place, NEW org, Follows(gone, lost, place, org),
         NEW j, NEW s, NewHigh(gone, place, org, j, s) \/ NewNormal(gone, place, org, j, s)
  PROVE  /\ j \in DOMAIN pending' /\ org[j] = 0 /\ pending'[j] = s
         /\ \A i \in DOMAIN pending' : org[i] # 0 /\ pending'[i].do \in HighKinds => i < j
<1>1. j \in DOMAIN pending' /\ org[j] = 0 /\ pending'[j] = s
  BY DEF NewHigh, NewNormal
<1>2. ASSUME NEW i \in DOMAIN pending', org[i] # 0, pending'[i].do \in HighKinds PROVE i < j
  <2>1. /\ org[i] \in DOMAIN pending /\ org[i] > gone /\ place[org[i]] = i
        /\ pending'[i].high = pending[org[i]].high
        /\ gone \in {0, 1} /\ DOMAIN pending = 1..Len(pending) /\ Len(pending) \in Nat
    BY <1>2, Order
  <2>2. pending'[i] \in Shaped
    BY BaseFacts, ListOf DEF Base, ListOK
  <2>3. pending'[i].high
    BY <1>2, <2>2 DEF Shaped
  <2>4. org[i] \in (gone + 1)..Len(pending)
    BY <2>1
  <2> QED BY <2>1, <2>3, <2>4 DEF NewHigh, NewNormal
<1> QED BY <1>1, <1>2

-----------------------------------------------------------------------------
(* Joining *)

\* Whoever has an accept under way is in no party and has only that one; an accept
\* that has lost its client comes before what the client does when he is back; a
\* member has no row still to come; whoever left before has his row removed first.
Joining ==
  /\ \A p \in Players, i \in DOMAIN pending : Admits(i, p) => client[p].party = NoParty
  /\ \A p \in Players, i, j \in DOMAIN pending : Admits(i, p) /\ Admits(j, p) => i = j
  /\ \A p \in Players, i, j \in DOMAIN pending : Of(i, "join", p) /\ Of(j, "join", p) => i = j
  /\ \A p \in Players, i, j \in DOMAIN pending :
       /\ Of(i, "join", p) /\ ~pending[i].known
       /\ Of(j, "verify", p) \/ Of(j, "found", p)
       /\ pending[j].known
       => i < j
  /\ \A p \in Players, i \in DOMAIN pending :
       Of(i, "join", p) => client[p].party = NoParty
  /\ \A p \in Players, i, j \in DOMAIN pending :
       Of(i, "remove_member", p) /\ Of(j, "join", p) => i < j

\* What keeps it: nobody enters a party while he has an accept under way, and each
\* new statement fits to those that wait.
Admitting(org) ==
  /\ \A p \in Players : client'[p].party # NoParty /\ client[p].party = NoParty =>
       \A i \in DOMAIN pending' : ~Admits(i, p)' /\ ~Of(i, "join", p)'
  /\ \A p \in Players, j \in DOMAIN pending' : org[j] = 0 =>
       /\ Of(j, "verify", p)' \/ Of(j, "join", p)' =>
            /\ pending'[j].known /\ client'[p].party = NoParty
            /\ \A i \in DOMAIN pending' : Admits(i, p)' => i = j
       /\ Of(j, "join", p)' =>
            /\ \A i \in DOMAIN pending' : Of(i, "join", p)' => i = j
            /\ \A i \in DOMAIN pending' : Of(i, "remove_member", p)' => i < j
       /\ Of(j, "verify", p)' \/ Of(j, "found", p)' =>
            \A i \in DOMAIN pending' : Of(i, "join", p)' => i < j
       /\ Of(j, "remove_member", p)' =>
            \A i \in DOMAIN pending' : ~Of(i, "join", p)'

\* A statement that waited before is the same, except that it may have lost its client.
LEMMA Waited ==
  ASSUME Base, Base', NEW gone, NEW lost, NEW place, NEW org, Follows(gone, lost, place, org),
         NEW j \in DOMAIN pending', org[j] # 0
  PROVE  /\ org[j] \in DOMAIN pending /\ org[j] > gone /\ place[org[j]] = j
         /\ pending'[j].g = pending[org[j]].g
         /\ \A p : Admits(j, p)' => Admits(org[j], p)
         /\ \A do, p : Of(j, do, p)' <=> Of(org[j], do, p)
         /\ \A do, g : In(j, do, g)' <=> In(org[j], do, g)
         /\ \A do, g, p : At(j, do, g, p)' <=> At(org[j], do, g, p)
         /\ pending'[j].known <=> pending[org[j]].known /\ pending[org[j]].p \notin lost
<1>1. /\ org[j] \in DOMAIN pending /\ org[j] > gone /\ place[org[j]] = j
      /\ pending'[j].do = pending[org[j]].do
      /\ pending'[j].g = pending[org[j]].g
      /\ pending'[j].p = pending[org[j]].p
      /\ pending'[j].known = (pending[org[j]].known /\ pending[org[j]].p \notin lost)
  BY Order
<1>2. pending'[j].known <=> pending[org[j]].known /\ pending[org[j]].p \notin lost
  BY <1>1
<1>3. \A p : Admits(j, p)' => Admits(org[j], p)
  BY <1>1, <1>2 DEF Admits, Of
<1> QED BY <1>1, <1>2, <1>3 DEF Of, In, At

\* A step that admits nobody twice keeps Joining.
LEMMA JoiningStep ==
  ASSUME Base, Base', Joining, NEW gone, NEW lost, NEW place, NEW org,
         Follows(gone, lost, place, org), Admitting(org)
  PROVE  Joining'
<1>0. \A j \in DOMAIN pending' : org[j] # 0 =>
        /\ org[j] \in DOMAIN pending
        /\ \A p : Admits(j, p)' => Admits(org[j], p)
        /\ \A do, p : Of(j, do, p)' <=> Of(org[j], do, p)
        /\ pending'[j].known <=> pending[org[j]].known /\ pending[org[j]].p \notin lost
  BY Waited
<1>1. ASSUME NEW p \in Players, NEW i \in DOMAIN pending', Admits(i, p)'
      PROVE  client'[p].party = NoParty
  <2>1. CASE org[i] = 0
    BY <1>1, <2>1 DEF Admits, Admitting
  <2>2. CASE org[i] # 0
    <3>1. org[i] \in DOMAIN pending /\ Admits(org[i], p)
      BY <1>1, <2>2, <1>0
    <3>2. client[p].party = NoParty
      BY <3>1 DEF Joining
    <3> QED BY <1>1, <3>2 DEF Admitting
  <2> QED BY <2>1, <2>2
<1>2. ASSUME NEW p \in Players, NEW i \in DOMAIN pending', NEW j \in DOMAIN pending',
             Admits(i, p)', Admits(j, p)'
      PROVE  i = j
  <2>1. CASE org[i] = 0 \/ org[j] = 0
    BY <1>2, <2>1 DEF Admits, Admitting
  <2>2. CASE org[i] # 0 /\ org[j] # 0
    <3>1. /\ org[i] \in DOMAIN pending /\ Admits(org[i], p)
          /\ org[j] \in DOMAIN pending /\ Admits(org[j], p)
      BY <1>2, <2>2, <1>0
    <3>2. org[i] = org[j]
      BY <3>1 DEF Joining
    <3> QED BY <2>2, <3>2, InOrder
  <2> QED BY <2>1, <2>2
<1>3. ASSUME NEW p \in Players, NEW i \in DOMAIN pending', NEW j \in DOMAIN pending',
             Of(i, "join", p)', Of(j, "join", p)'
      PROVE  i = j
  <2>1. CASE org[i] = 0 \/ org[j] = 0
    BY <1>3, <2>1 DEF Admitting
  <2>2. CASE org[i] # 0 /\ org[j] # 0
    <3>1. /\ org[i] \in DOMAIN pending /\ Of(org[i], "join", p)
          /\ org[j] \in DOMAIN pending /\ Of(org[j], "join", p)
      BY <1>3, <2>2, <1>0
    <3>2. org[i] = org[j]
      BY <3>1 DEF Joining
    <3> QED BY <2>2, <3>2, InOrder
  <2> QED BY <2>1, <2>2
<1>4. ASSUME NEW p \in Players, NEW i \in DOMAIN pending', NEW j \in DOMAIN pending',
             Of(i, "join", p)', ~pending'[i].known, Of(j, "verify", p)' \/ Of(j, "found", p)',
             pending'[j].known
      PROVE  i < j
  <2>1. CASE org[j] = 0
    BY <1>4, <2>1 DEF Admitting
  <2>2. CASE org[i] = 0
    BY <1>4, <2>2 DEF Admitting
  <2>3. CASE org[i] # 0 /\ org[j] # 0
    <3>1. /\ org[i] \in DOMAIN pending /\ Of(org[i], "join", p)
          /\ org[j] \in DOMAIN pending /\ (Of(org[j], "verify", p) \/ Of(org[j], "found", p))
          /\ pending[org[j]].known /\ p \notin lost /\ ~pending[org[i]].known
      BY <1>4, <2>3, <1>0 DEF Of
    <3>2. org[i] < org[j]
      BY <3>1 DEF Joining
    <3> QED BY <2>3, <3>2, InOrder
  <2> QED BY <2>1, <2>2, <2>3
<1>5. ASSUME NEW p \in Players, NEW i \in DOMAIN pending', Of(i, "join", p)'
      PROVE  client'[p].party = NoParty
  <2>1. CASE org[i] = 0
    BY <1>5, <2>1 DEF Admitting
  <2>2. CASE org[i] # 0
    <3>1. org[i] \in DOMAIN pending /\ Of(org[i], "join", p)
      BY <1>5, <2>2, <1>0
    <3>2. client[p].party = NoParty
      BY <3>1 DEF Joining
    <3> QED BY <1>5, <3>2 DEF Admitting
  <2> QED BY <2>1, <2>2
<1>6. ASSUME NEW p \in Players, NEW i \in DOMAIN pending', NEW j \in DOMAIN pending',
             Of(i, "remove_member", p)', Of(j, "join", p)'
      PROVE  i < j
  <2>1. CASE org[i] = 0 \/ org[j] = 0
    BY <1>6, <2>1 DEF Admitting
  <2>2. CASE org[i] # 0 /\ org[j] # 0
    <3>1. /\ org[i] \in DOMAIN pending /\ Of(org[i], "remove_member", p)
          /\ org[j] \in DOMAIN pending /\ Of(org[j], "join", p)
      BY <1>6, <2>2, <1>0
    <3>2. org[i] < org[j]
      BY <3>1 DEF Joining
    <3> QED BY <2>2, <3>2, InOrder
  <2> QED BY <2>1, <2>2
<1> QED BY <1>1, <1>2, <1>3, <1>4, <1>5, <1>6 DEF Joining

-----------------------------------------------------------------------------
(* Membership *)

\* p is a member of g once the statements under way are done: his row is there or
\* comes, and what removes him comes before.
Stayer(g, p) ==
  \/ <<g, p>> \in members /\ \A i \in DOMAIN pending : ~At(i, "remove_member", g, p)
  \/ \E k \in DOMAIN pending :
       /\ At(k, "add_member", g, p)
       /\ \A i \in DOMAIN pending : At(i, "remove_member", g, p) => i < k

\* Behind all who leave, somebody looks whether g is empty.
LookedAt(g) ==
  \E j \in DOMAIN pending :
    /\ \E do \in OnParty : In(j, do, g)
    /\ \A i \in DOMAIN pending : In(i, "remove_member", g) => i < j

Alive(g) == (\E p \in Players : Stayer(g, p)) \/ LookedAt(g)

Membership ==
  /\ \A p \in Players, g \in Parties : client[p].party = g /\ Exists(g) => Stayer(g, p)
  /\ \A g \in Parties : Exists(g) => Alive(g)

\* The rows follow the statements that are answered.
RowsFollow(gone) ==
  \A g \in Parties, p \in Players : Exists(g)' =>
    /\ <<g, p>> \in members => <<g, p>> \in members' \/ (gone = 1 /\ At(1, "remove_member", g, p))
    /\ gone = 1 /\ At(1, "add_member", g, p) => <<g, p>> \in members'

\* Who stays, stays, unless a new statement removes him.
LEMMA StayerKept ==
  ASSUME Base, Base', NEW gone, NEW lost, NEW place, NEW org, Follows(gone, lost, place, org),
         RowsFollow(gone), NEW g \in Parties, NEW p \in Players, Exists(g)', Stayer(g, p),
         \A j \in DOMAIN pending' : org[j] = 0 => ~At(j, "remove_member", g, p)'
  PROVE  Stayer(g, p)'
<1>0. \A j \in DOMAIN pending' : org[j] # 0 =>
        /\ org[j] \in DOMAIN pending /\ org[j] > gone /\ place[org[j]] = j
        /\ At(j, "remove_member", g, p)' => At(org[j], "remove_member", g, p)
        /\ At(org[j], "add_member", g, p) => At(j, "add_member", g, p)'
  BY Waited
<1>1. /\ gone \in {0, 1} /\ DOMAIN pending = 1..Len(pending) /\ Len(pending) \in Nat
      /\ gone <= Len(pending)
      /\ \A i \in DOMAIN pending : i > gone => place[i] \in DOMAIN pending' /\ org[place[i]] = i
  BY Order
<1>2. CASE <<g, p>> \in members /\ \A i \in DOMAIN pending : ~At(i, "remove_member", g, p)
  <2>1. <<g, p>> \in members'
    <3>1. gone = 1 => 1 \in DOMAIN pending
      BY <1>1
    <3> QED BY <1>2, <3>1 DEF RowsFollow
  <2>2. \A j \in DOMAIN pending' : ~At(j, "remove_member", g, p)'
    BY <1>0, <1>2
  <2> QED BY <2>1, <2>2 DEF Stayer
<1>3. CASE \E k \in DOMAIN pending :
             /\ At(k, "add_member", g, p)
             /\ \A i \in DOMAIN pending : At(i, "remove_member", g, p) => i < k
  <2>1. PICK k \in DOMAIN pending :
             /\ At(k, "add_member", g, p)
             /\ \A i \in DOMAIN pending : At(i, "remove_member", g, p) => i < k
    BY <1>3
  <2>2. CASE k > gone
    <3>1. place[k] \in DOMAIN pending' /\ org[place[k]] = k /\ k # 0
      BY <1>1, <2>2
    <3>2. At(place[k], "add_member", g, p)'
      BY <1>0, <2>1, <3>1
    <3>3. ASSUME NEW j \in DOMAIN pending', At(j, "remove_member", g, p)' PROVE j < place[k]
      <4>1. org[j] # 0 /\ At(org[j], "remove_member", g, p) /\ org[j] \in DOMAIN pending
        BY <1>0, <3>3
      <4>2. org[j] < org[place[k]]
        BY <2>1, <3>1, <4>1
      <4> QED BY <3>1, <4>1, <4>2, InOrder
    <3> QED BY <3>1, <3>2, <3>3 DEF Stayer
  <2>3. CASE ~(k > gone)
    <3>1. gone = 1 /\ k = 1
      BY <1>1, <2>3
    <3>2. <<g, p>> \in members'
      BY <2>1, <3>1 DEF RowsFollow
    <3>3. \A i \in DOMAIN pending : ~At(i, "remove_member", g, p)
      <4>1. \A i \in DOMAIN pending : ~(i < 1)
        BY <1>1
      <4> QED BY <2>1, <3>1, <4>1
    <3>4. \A j \in DOMAIN pending' : ~At(j, "remove_member", g, p)'
      BY <1>0, <3>3
    <3> QED BY <3>2, <3>4 DEF Stayer
  <2> QED BY <2>2, <2>3
<1> QED BY <1>2, <1>3 DEF Stayer

\* A party that will be looked at will still be, unless it is looked at now.
LEMMA LookedAtKept ==
  ASSUME Base, Base', NEW gone, NEW lost, NEW place, NEW org, Follows(gone, lost, place, org),
         NEW g \in Parties, LookedAt(g),
         gone = 1 /\ (\E do \in OnParty : In(1, do, g)) =>
           \E i \in DOMAIN pending : In(i, "remove_member", g),
         \A j \in DOMAIN pending' : org[j] = 0 => ~In(j, "remove_member", g)'
  PROVE  LookedAt(g)'
<1>0. \A j \in DOMAIN pending' : org[j] # 0 =>
        /\ org[j] \in DOMAIN pending
        /\ In(j, "remove_member", g)' => In(org[j], "remove_member", g)
        /\ \A do : In(org[j], do, g) => In(j, do, g)'
  BY Waited
<1>1. /\ gone \in {0, 1} /\ DOMAIN pending = 1..Len(pending) /\ Len(pending) \in Nat
      /\ gone <= Len(pending)
      /\ \A i \in DOMAIN pending : i > gone => place[i] \in DOMAIN pending' /\ org[place[i]] = i
  BY Order
<1>2. PICK k \in DOMAIN pending :
        /\ \E do \in OnParty : In(k, do, g)
        /\ \A i \in DOMAIN pending : In(i, "remove_member", g) => i < k
  BY DEF LookedAt
<1>3. k > gone
  BY <1>1, <1>2
<1>4. place[k] \in DOMAIN pending' /\ org[place[k]] = k /\ k # 0
  BY <1>1, <1>3
<1>5. \E do \in OnParty : In(place[k], do, g)'
  BY <1>0, <1>2, <1>4
<1>6. ASSUME NEW j \in DOMAIN pending', In(j, "remove_member", g)' PROVE j < place[k]
  <2>1. org[j] # 0 /\ In(org[j], "remove_member", g) /\ org[j] \in DOMAIN pending
    BY <1>0, <1>6
  <2>2. org[j] < org[place[k]]
    BY <1>2, <1>4, <2>1
  <2> QED BY <1>4, <2>1, <2>2, InOrder
<1> QED BY <1>4, <1>5, <1>6 DEF LookedAt

\* A step keeps the members and the parties they keep alive when whoever enters a
\* party stays, nobody is removed who is in it, and whoever removes a member or
\* looks whether the party is empty leaves it alive.
Populating(gone, org) ==
  /\ RowsFollow(gone)
  /\ \A g \in Parties : Exists(g)' /\ ~Exists(g) =>
       Alive(g)' /\ \A p \in Players : client[p].party # g
  /\ \A g \in Parties, p \in Players :
       client'[p].party = g /\ client[p].party # g /\ Exists(g)' => Stayer(g, p)'
  /\ \A g \in Parties, p \in Players, j \in DOMAIN pending' :
       org[j] = 0 /\ At(j, "remove_member", g, p)' /\ Exists(g)' =>
         client'[p].party # g /\ Alive(g)'
  /\ \A g \in Parties, do \in OnParty :
       gone = 1 /\ In(1, do, g) /\ (\A i \in DOMAIN pending : ~In(i, "remove_member", g))
       /\ Exists(g)'
         => Alive(g)'

\* The step keeps members and parties as Populating says.
LEMMA MembershipStep ==
  ASSUME Base, Base', Membership, NEW gone, NEW lost, NEW place, NEW org,
         Follows(gone, lost, place, org), Populating(gone, org)
  PROVE  Membership'
<1>0. DOMAIN pending = 1..Len(pending) /\ Len(pending) \in Nat /\ gone \in {0, 1} /\ gone <= Len(pending)
  BY Order
<1>1. ASSUME NEW p \in Players, NEW g \in Parties, client'[p].party = g, Exists(g)'
      PROVE  Stayer(g, p)'
  <2>1. CASE client[p].party = g /\ Exists(g)
    <3>1. Stayer(g, p)
      BY <2>1 DEF Membership
    <3>2. \A j \in DOMAIN pending' : org[j] = 0 => ~At(j, "remove_member", g, p)'
      BY <1>1 DEF Populating
    <3>3. RowsFollow(gone)
      BY DEF Populating
    <3> QED BY <1>1, <3>1, <3>2, <3>3, StayerKept
  <2>2. CASE ~(client[p].party = g /\ Exists(g))
    BY <1>1, <2>2 DEF Populating
  <2> QED BY <2>1, <2>2
<1>2. ASSUME NEW g \in Parties, Exists(g)' PROVE Alive(g)'
  <2>1. CASE ~Exists(g)
    BY <1>2, <2>1 DEF Populating
  <2>2. CASE \E j \in DOMAIN pending' : org[j] = 0 /\ In(j, "remove_member", g)'
    <3>1. PICK j \in DOMAIN pending' : org[j] = 0 /\ In(j, "remove_member", g)'
      BY <2>2
    <3>2. pending'[j] \in Shaped /\ pending'[j].do = "remove_member"
      BY <3>1, BaseFacts, ListOf DEF Base, ListOK, In
    <3>3. pending'[j].p \in Players
      BY <3>2 DEF Shaped, OnParty
    <3>4. \E p \in Players : At(j, "remove_member", g, p)'
      BY <3>1, <3>3 DEF In, At, Of
    <3> QED BY <1>2, <3>1, <3>4 DEF Populating
  <2>3. CASE Exists(g) /\ ~\E j \in DOMAIN pending' : org[j] = 0 /\ In(j, "remove_member", g)'
    <3>1. CASE \E p \in Players : Stayer(g, p)
      <4>1. PICK p \in Players : Stayer(g, p)
        BY <3>1
      <4>2. \A j \in DOMAIN pending' : org[j] = 0 => ~At(j, "remove_member", g, p)'
        BY <2>3 DEF At, In, Of
      <4>3. RowsFollow(gone)
        BY DEF Populating
      <4>4. Stayer(g, p)'
        BY <1>2, <4>1, <4>2, <4>3, StayerKept
      <4> QED BY <4>4 DEF Alive
    <3>2. CASE LookedAt(g)
      <4>1. CASE /\ gone = 1 /\ \E do \in OnParty : In(1, do, g)
                 /\ \A i \in DOMAIN pending : ~In(i, "remove_member", g)
        BY <1>2, <4>1 DEF Populating
      <4>2. CASE ~(/\ gone = 1 /\ \E do \in OnParty : In(1, do, g)
                   /\ \A i \in DOMAIN pending : ~In(i, "remove_member", g))
        <5>1. LookedAt(g)'
          BY <2>3, <3>2, <4>2, LookedAtKept
        <5> QED BY <5>1 DEF Alive
      <4> QED BY <4>1, <4>2
    <3>3. Alive(g)
      BY <2>3 DEF Membership
    <3> QED BY <3>1, <3>2, <3>3 DEF Alive
  <2> QED BY <2>1, <2>2, <2>3
<1> QED BY <1>1, <1>2 DEF Membership

-----------------------------------------------------------------------------
(* Succession *)

\* p's client is the leader of g.
Heads(g, p) == client[p].leader /\ client[p].party = g

\* The leader of g once the set_leader under way is done.
Holder(g, x) ==
  \/ \E j \in DOMAIN pending : In(j, "set_leader", g) /\ pending[j].p = x
  \/ leaderOf[g] = x /\ \A j \in DOMAIN pending : ~In(j, "set_leader", g)

\* x is no member of g when the statement at i comes, and has not joined since.
Gone(g, x, i) ==
  /\ <<g, x>> \in members => \E k \in DOMAIN pending : At(k, "remove_member", g, x) /\ k < i
  /\ \A k \in DOMAIN pending : At(k, "add_member", g, x) =>
       \E l \in DOMAIN pending : At(l, "remove_member", g, x) /\ k < l /\ l < i
  /\ \A k \in DOMAIN pending : ~Of(k, "join", x)
  /\ \A k \in DOMAIN pending : Of(k, "verify", x) /\ pending[k].known => i < k

\* x is no member of g, and will be none before the statement at j is done.
Out(g, x, j) ==
  /\ <<g, x>> \notin members
  /\ \A k \in DOMAIN pending : ~At(k, "add_member", g, x)
  /\ \A k \in DOMAIN pending : At(k, "join", g, x) => j < k

\* One succession at a time: no leader is left when it begins, and who held the party
\* has left it.  A leader in memory is the one the table has or will have.
Succession(g) ==
  /\ \A i, j \in DOMAIN pending : In(i, "transfer", g) /\ In(j, "transfer", g) => i = j
  /\ \A i, j \in DOMAIN pending : In(i, "set_leader", g) /\ In(j, "set_leader", g) => i = j
  /\ \A i, j \in DOMAIN pending : In(i, "set_leader", g) /\ In(j, "transfer", g) => i < j
  /\ \A i \in DOMAIN pending, p \in Players : In(i, "transfer", g) => ~Heads(g, p)
  /\ \A p, q \in Players : Heads(g, p) /\ Heads(g, q) => p = q
  /\ \A p \in Players : Exists(g) /\ Heads(g, p) => Holder(g, p)
  /\ \A i \in DOMAIN pending, x \in Players :
       Exists(g) /\ In(i, "transfer", g) /\ Holder(g, x) => Gone(g, x, i)
  /\ \A j \in DOMAIN pending : Exists(g) /\ In(j, "set_leader", g) =>
       leaderOf[g] # pending[j].p /\ Out(g, leaderOf[g], j)

\* New statements stand behind the High ones that waited.
Fresh(org) ==
  \A i, j \in DOMAIN pending' :
    org[j] = 0 /\ org[i] # 0 /\ pending'[i].do \in HighKinds => i < j

\* Rows come from the statements that insert them, and who joins was verified.
Entering(gone, org) ==
  /\ \A g \in Parties, x \in Players : Exists(g)' /\ <<g, x>> \in members' =>
       /\ \/ <<g, x>> \in members
          \/ gone = 1 /\ (At(1, "add_member", g, x) \/ At(1, "join", g, x))
       /\ ~(gone = 1 /\ At(1, "remove_member", g, x))
  /\ \A j \in DOMAIN pending', x \in Players : org[j] = 0 /\ Of(j, "join", x)' =>
       gone = 1 /\ Of(1, "verify", x) /\ pending[1].known
  /\ \A j \in DOMAIN pending', g \in Parties, x \in Players :
       org[j] = 0 /\ At(j, "add_member", g, x)' => created < g

\* Whoever is gone from a party when a succession comes is still gone one step later.
LEMMA GoneKept ==
  ASSUME Base, Base', NEW gone, NEW lost, NEW place, NEW org, Follows(gone, lost, place, org),
         Fresh(org), Entering(gone, org), NEW g \in Parties, g <= created, Exists(g)', NEW x \in Players,
         NEW i \in DOMAIN pending, i > gone, pending[i].do \in HighKinds, Gone(g, x, i)
  PROVE  Gone(g, x, place[i])'
<1>0. \A j \in DOMAIN pending' : org[j] # 0 =>
        /\ org[j] \in DOMAIN pending /\ org[j] > gone /\ place[org[j]] = j
        /\ At(j, "remove_member", g, x)' <=> At(org[j], "remove_member", g, x)
        /\ At(j, "add_member", g, x)' <=> At(org[j], "add_member", g, x)
        /\ Of(j, "join", x)' <=> Of(org[j], "join", x)
        /\ Of(j, "verify", x)' <=> Of(org[j], "verify", x)
        /\ pending'[j].known => pending[org[j]].known
  BY Waited
<1>1. /\ gone \in {0, 1} /\ DOMAIN pending = 1..Len(pending) /\ Len(pending) \in Nat
      /\ \A k \in DOMAIN pending : k > gone => place[k] \in DOMAIN pending' /\ org[place[k]] = k
  BY Order
<1>2. /\ place[i] \in DOMAIN pending' /\ org[place[i]] = i /\ org[place[i]] # 0
      /\ pending'[place[i]].do \in HighKinds
  BY <1>1, Order
<1>3. \A j, k \in DOMAIN pending' : org[j] # 0 /\ org[k] # 0 => (j < k <=> org[j] < org[k])
  BY InOrder
<1>4. ASSUME NEW l \in DOMAIN pending, At(l, "remove_member", g, x), l < i, l > gone
      PROVE  /\ place[l] \in DOMAIN pending' /\ org[place[l]] = l /\ At(place[l], "remove_member", g, x)'
             /\ place[l] < place[i]
  <2>1. place[l] \in DOMAIN pending' /\ org[place[l]] = l /\ org[place[l]] # 0
    BY <1>1, <1>4
  <2> QED BY <1>0, <1>2, <1>3, <1>4, <2>1
<1>5. ASSUME <<g, x>> \in members'
      PROVE  \E k \in DOMAIN pending' : At(k, "remove_member", g, x)' /\ k < place[i]
  <2>1. CASE <<g, x>> \in members
    <3>1. PICK l \in DOMAIN pending : At(l, "remove_member", g, x) /\ l < i
      BY <2>1 DEF Gone
    <3>2. l > gone
      <4>1. ~(gone = 1 /\ At(1, "remove_member", g, x))
        BY <1>5 DEF Entering
      <4> QED BY <1>1, <3>1, <4>1
    <3> QED BY <1>4, <3>1, <3>2
  <2>2. CASE gone = 1 /\ At(1, "add_member", g, x)
    <3>1. 1 \in DOMAIN pending
      BY <2>2 DEF At, Of
    <3>2. PICK l \in DOMAIN pending : At(l, "remove_member", g, x) /\ 1 < l /\ l < i
      BY <2>2, <3>1 DEF Gone
    <3> QED BY <1>4, <2>2, <3>2
  <2>3. ~At(1, "join", g, x)
    BY DEF Gone, At, Of
  <2> QED BY <1>5, <2>1, <2>2, <2>3 DEF Entering
<1>6. ASSUME NEW k \in DOMAIN pending', At(k, "add_member", g, x)'
      PROVE  \E l \in DOMAIN pending' : At(l, "remove_member", g, x)' /\ k < l /\ l < place[i]
  <2>1. org[k] # 0
    <3>1. g \in Int /\ created \in Int
      BY PartyNumbers, BaseFacts
    <3> QED BY <1>6, <3>1 DEF Entering
  <2>2. PICK l \in DOMAIN pending : At(l, "remove_member", g, x) /\ org[k] < l /\ l < i
    BY <1>0, <1>6, <2>1 DEF Gone
  <2>3. l > gone
    BY <1>0, <1>1, <2>1, <2>2
  <2>5. place[l] \in DOMAIN pending' /\ org[place[l]] = l /\ l # 0
    BY <1>1, <1>4, <2>2, <2>3
  <2>4. k < place[l]
    BY <1>3, <2>1, <2>2, <2>5
  <2> QED BY <1>4, <2>2, <2>3, <2>4
<1>7. ASSUME NEW k \in DOMAIN pending', Of(k, "join", x)' PROVE FALSE
  <2>1. CASE org[k] = 0
    <3>1. gone = 1 /\ Of(1, "verify", x) /\ pending[1].known
      BY <1>7, <2>1 DEF Entering
    <3>2. 1 \in DOMAIN pending
      BY <3>1 DEF Of
    <3>3. i < 1
      BY <3>1, <3>2 DEF Gone
    <3> QED BY <1>1, <3>3
  <2>2. CASE org[k] # 0
    BY <1>0, <1>7, <2>2 DEF Gone
  <2> QED BY <2>1, <2>2
<1>8. ASSUME NEW k \in DOMAIN pending', Of(k, "verify", x)', pending'[k].known PROVE place[i] < k
  <2>1. CASE org[k] = 0
    BY <1>2, <2>1 DEF Fresh
  <2>2. CASE org[k] # 0
    <3>1. i < org[k]
      BY <1>0, <1>8, <2>2 DEF Gone
    <3> QED BY <1>2, <1>3, <2>2, <3>1
  <2> QED BY <2>1, <2>2
<1> QED BY <1>5, <1>6, <1>7, <1>8 DEF Gone

\* The same for the leader a set_leader is to replace.
LEMMA OutKept ==
  ASSUME Base, Base', NEW gone, NEW lost, NEW place, NEW org, Follows(gone, lost, place, org),
         Fresh(org), Entering(gone, org), NEW g \in Parties, g <= created, Exists(g)', NEW x \in Players,
         NEW i \in DOMAIN pending, i > gone, pending[i].do \in HighKinds, Out(g, x, i)
  PROVE  Out(g, x, place[i])'
<1>0. \A j \in DOMAIN pending' : org[j] # 0 =>
        /\ org[j] \in DOMAIN pending /\ org[j] > gone /\ place[org[j]] = j
        /\ At(j, "add_member", g, x)' <=> At(org[j], "add_member", g, x)
        /\ At(j, "join", g, x)' <=> At(org[j], "join", g, x)
  BY Waited
<1>1. /\ gone \in {0, 1} /\ DOMAIN pending = 1..Len(pending) /\ Len(pending) \in Nat
      /\ \A k \in DOMAIN pending : k > gone => place[k] \in DOMAIN pending' /\ org[place[k]] = k
  BY Order
<1>2. /\ place[i] \in DOMAIN pending' /\ org[place[i]] = i /\ org[place[i]] # 0
      /\ pending'[place[i]].do \in HighKinds
  BY <1>1, Order
<1>3. \A j, k \in DOMAIN pending' : org[j] # 0 /\ org[k] # 0 => (j < k <=> org[j] < org[k])
  BY InOrder
<1>4. <<g, x>> \notin members'
  <2>1. ~At(1, "add_member", g, x) /\ (gone = 1 => ~At(1, "join", g, x))
    BY <1>1 DEF Out, At, Of
  <2> QED BY <2>1 DEF Entering, Out
<1>5. ASSUME NEW k \in DOMAIN pending' PROVE ~At(k, "add_member", g, x)'
  <2>1. g \in Int /\ created \in Int
    BY PartyNumbers, BaseFacts
  <2> QED BY <1>0, <2>1 DEF Out, Entering
<1>6. ASSUME NEW k \in DOMAIN pending', At(k, "join", g, x)' PROVE place[i] < k
  <2>1. CASE org[k] = 0
    BY <1>2, <2>1 DEF Fresh
  <2>2. CASE org[k] # 0
    <3>1. i < org[k]
      BY <1>0, <1>6, <2>2 DEF Out
    <3> QED BY <1>2, <1>3, <2>2, <3>1
  <2> QED BY <2>1, <2>2
<1> QED BY <1>4, <1>5, <1>6 DEF Out

\* What a step has to see to when it begins or goes on with a succession of g, makes
\* a client the leader, or changes the table.
Succeeding(gone, org, g) ==
  /\ \A j \in DOMAIN pending' : org[j] = 0 /\ In(j, "transfer", g)' =>
       /\ \A i \in DOMAIN pending' : In(i, "transfer", g)' => i = j
       /\ \A i \in DOMAIN pending' : In(i, "set_leader", g)' => i < j
       /\ \A p \in Players : ~Heads(g, p)'
       /\ \A x \in Players : Exists(g)' /\ Holder(g, x)' => Gone(g, x, j)'
  /\ \A j \in DOMAIN pending' : org[j] = 0 /\ In(j, "set_leader", g)' =>
       /\ \A i \in DOMAIN pending' : In(i, "set_leader", g)' => i = j
       /\ \A i \in DOMAIN pending' : ~In(i, "transfer", g)'
       /\ \A p \in Players : Heads(g, p)' => pending'[j].p = p
       /\ Exists(g)' => leaderOf'[g] # pending'[j].p /\ Out(g, leaderOf[g], j)'
  /\ \A p \in Players : Heads(g, p)' /\ ~Heads(g, p) =>
       /\ \A i \in DOMAIN pending' : ~In(i, "transfer", g)'
       /\ Exists(g)' => Holder(g, p)'
       /\ \A q \in Players : Heads(g, q)' => p = q
  /\ Exists(g)' => Exists(g) \/ created < g
  /\ Exists(g) /\ Exists(g)' =>
       IF gone = 1 /\ In(1, "set_leader", g) THEN leaderOf'[g] = pending[1].p
                                             ELSE leaderOf'[g] = leaderOf[g]

\* The holder changes with a new set_leader only.
LEMMA HolderKept ==
  ASSUME Base, Base', NEW gone, NEW lost, NEW place, NEW org, Follows(gone, lost, place, org),
         NEW g \in Parties, Exists(g), Exists(g)', Succession(g), Succeeding(gone, org, g),
         \A j \in DOMAIN pending' : org[j] = 0 => ~In(j, "set_leader", g)',
         NEW x
  PROVE  Holder(g, x)' <=> Holder(g, x)
<1>0. \A j \in DOMAIN pending' : org[j] # 0 =>
        /\ org[j] \in DOMAIN pending /\ org[j] > gone /\ place[org[j]] = j
        /\ In(j, "set_leader", g)' <=> In(org[j], "set_leader", g)
  BY Waited
<1>1. /\ gone \in {0, 1} /\ DOMAIN pending = 1..Len(pending) /\ Len(pending) \in Nat
      /\ gone <= Len(pending)
      /\ \A k \in DOMAIN pending : k > gone => place[k] \in DOMAIN pending' /\ org[place[k]] = k
      /\ \A j \in DOMAIN pending' : org[j] # 0 => pending'[j].p = pending[org[j]].p
  BY Order
<1>2. CASE gone = 1 /\ In(1, "set_leader", g)
  <2>1. leaderOf'[g] = pending[1].p
    BY <1>2 DEF Succeeding
  <2>2. \A j \in DOMAIN pending : In(j, "set_leader", g) => j = 1
    BY <1>2 DEF Succession, In
  <2>3. \A j \in DOMAIN pending' : ~In(j, "set_leader", g)'
    <3>1. \A j \in DOMAIN pending' : org[j] # 0 => org[j] # 1
      BY <1>0, <1>2
    <3> QED BY <1>0, <2>2, <3>1
  <2>4. Holder(g, x)' <=> leaderOf'[g] = x
    BY <2>3 DEF Holder
  <2>5. Holder(g, x) <=> pending[1].p = x
    BY <1>2, <2>2 DEF Holder, In
  <2> QED BY <2>1, <2>4, <2>5
<1>3. CASE ~(gone = 1 /\ In(1, "set_leader", g))
  <2>1. leaderOf'[g] = leaderOf[g]
    BY <1>3 DEF Succeeding
  <2>2. \A j \in DOMAIN pending : In(j, "set_leader", g) =>
          /\ place[j] \in DOMAIN pending' /\ org[place[j]] = j /\ j # 0
          /\ In(place[j], "set_leader", g)' /\ pending'[place[j]].p = pending[j].p
    <3>1. \A j \in DOMAIN pending : In(j, "set_leader", g) => j > gone /\ j # 0
      BY <1>1, <1>3
    <3> QED BY <1>0, <1>1, <3>1
  <2>3. \A j \in DOMAIN pending' : In(j, "set_leader", g)' =>
          org[j] \in DOMAIN pending /\ In(org[j], "set_leader", g) /\ pending'[j].p = pending[org[j]].p
    BY <1>0, <1>1
  <2>4. (\E j \in DOMAIN pending' : In(j, "set_leader", g)' /\ pending'[j].p = x)
         <=> \E j \in DOMAIN pending : In(j, "set_leader", g) /\ pending[j].p = x
    BY <2>2, <2>3
  <2>5. (\A j \in DOMAIN pending' : ~In(j, "set_leader", g)')
         <=> \A j \in DOMAIN pending : ~In(j, "set_leader", g)
    BY <2>2, <2>3
  <2> QED BY <2>1, <2>4, <2>5 DEF Holder
<1> QED BY <1>2, <1>3

\* Succession is kept by a step that sees to what is new in it.
LEMMA SuccessionStep ==
  ASSUME Base, Base', NEW gone, NEW lost, NEW place, NEW org, Follows(gone, lost, place, org),
         Fresh(org), Entering(gone, org), NEW g \in Parties, Succession(g), Succeeding(gone, org, g)
  PROVE  Succession(g)'
<1>0. \A j \in DOMAIN pending' : org[j] # 0 =>
        /\ org[j] \in DOMAIN pending /\ org[j] > gone /\ place[org[j]] = j
        /\ \A do : In(j, do, g)' <=> In(org[j], do, g)
  BY Waited
<1>1. /\ gone \in {0, 1} /\ DOMAIN pending = 1..Len(pending) /\ Len(pending) \in Nat
      /\ \A j \in DOMAIN pending' : org[j] # 0 => pending'[j].p = pending[org[j]].p
  BY Order
<1>2. \A j, k \in DOMAIN pending' : org[j] # 0 /\ org[k] # 0 =>
        (j < k <=> org[j] < org[k]) /\ (j = k <=> org[j] = org[k])
  BY InOrder
<1>3. g \in Int /\ created \in Int /\ \A i \in DOMAIN pending : pending[i].g <= created
  BY PartyNumbers, BaseFacts DEF Base, ListOK
<1>4. ASSUME Exists(g)', NEW j \in DOMAIN pending', org[j] # 0, NEW do, In(j, do, g)'
      PROVE  Exists(g) /\ g <= created /\ org[j] \in DOMAIN pending /\ In(org[j], do, g) /\ org[j] > gone
  <2>1. In(org[j], do, g) /\ org[j] \in DOMAIN pending /\ org[j] > gone
    BY <1>0, <1>4
  <2>2. g <= created
    BY <1>3, <2>1 DEF In
  <2> QED BY <1>3, <1>4, <2>1, <2>2 DEF Succeeding
<1>5. ASSUME NEW i \in DOMAIN pending', NEW j \in DOMAIN pending',
             In(i, "transfer", g)', In(j, "transfer", g)'
      PROVE  i = j
  <2>1. CASE org[i] = 0
    BY <1>5, <2>1 DEF Succeeding
  <2>2. CASE org[j] = 0
    BY <1>5, <2>2 DEF Succeeding
  <2>3. CASE org[i] # 0 /\ org[j] # 0
    <3>1. org[i] = org[j]
      BY <1>0, <1>5, <2>3 DEF Succession
    <3> QED BY <1>2, <2>3, <3>1
  <2> QED BY <2>1, <2>2, <2>3
<1>6. ASSUME NEW i \in DOMAIN pending', NEW j \in DOMAIN pending',
             In(i, "set_leader", g)', In(j, "set_leader", g)'
      PROVE  i = j
  <2>1. CASE org[i] = 0
    BY <1>6, <2>1 DEF Succeeding
  <2>2. CASE org[j] = 0
    BY <1>6, <2>2 DEF Succeeding
  <2>3. CASE org[i] # 0 /\ org[j] # 0
    <3>1. org[i] = org[j]
      BY <1>0, <1>6, <2>3 DEF Succession
    <3> QED BY <1>2, <2>3, <3>1
  <2> QED BY <2>1, <2>2, <2>3
<1>7. ASSUME NEW i \in DOMAIN pending', NEW j \in DOMAIN pending',
             In(i, "set_leader", g)', In(j, "transfer", g)'
      PROVE  i < j
  <2>1. CASE org[i] = 0
    BY <1>7, <2>1 DEF Succeeding
  <2>2. CASE org[j] = 0
    BY <1>7, <2>2 DEF Succeeding
  <2>3. CASE org[i] # 0 /\ org[j] # 0
    <3>1. org[i] < org[j]
      BY <1>0, <1>7, <2>3 DEF Succession
    <3> QED BY <1>2, <2>3, <3>1
  <2> QED BY <2>1, <2>2, <2>3
<1>8. ASSUME NEW i \in DOMAIN pending', NEW p \in Players, In(i, "transfer", g)', Heads(g, p)'
      PROVE  FALSE
  <2>1. CASE org[i] = 0
    BY <1>8, <2>1 DEF Succeeding
  <2>2. CASE ~Heads(g, p)
    BY <1>8, <2>2 DEF Succeeding
  <2>3. CASE org[i] # 0 /\ Heads(g, p)
    BY <1>0, <1>8, <2>3 DEF Succession
  <2> QED BY <2>1, <2>2, <2>3
<1>9. ASSUME NEW p \in Players, NEW q \in Players, Heads(g, p)', Heads(g, q)' PROVE p = q
  <2>1. CASE ~Heads(g, p)
    BY <1>9, <2>1 DEF Succeeding
  <2>2. CASE ~Heads(g, q)
    BY <1>9, <2>2 DEF Succeeding
  <2>3. CASE Heads(g, p) /\ Heads(g, q)
    BY <2>3 DEF Succession
  <2> QED BY <2>1, <2>2, <2>3
<1>10. ASSUME NEW p \in Players, Exists(g)', Heads(g, p)' PROVE Holder(g, p)'
  <2>1. CASE ~Heads(g, p)
    BY <1>10, <2>1 DEF Succeeding
  <2>2. CASE \E j \in DOMAIN pending' : org[j] = 0 /\ In(j, "set_leader", g)'
    <3>1. PICK j \in DOMAIN pending' : org[j] = 0 /\ In(j, "set_leader", g)'
      BY <2>2
    <3>2. pending'[j].p = p
      BY <1>10, <3>1 DEF Succeeding
    <3> QED BY <3>1, <3>2 DEF Holder
  <2>3. CASE Heads(g, p) /\ ~\E j \in DOMAIN pending' : org[j] = 0 /\ In(j, "set_leader", g)'
    <3>1. g <= created
      BY <2>3, OnlineParty DEF Heads
    <3>2. Exists(g)
      BY <1>3, <1>10, <3>1 DEF Succeeding
    <3>3. Holder(g, p)
      BY <2>3, <3>2 DEF Succession
    <3> QED BY <1>10, <2>3, <3>2, <3>3, HolderKept
  <2> QED BY <2>1, <2>2, <2>3
<1>11. ASSUME NEW i \in DOMAIN pending', NEW x \in Players, Exists(g)', In(i, "transfer", g)',
              Holder(g, x)'
       PROVE  Gone(g, x, i)'
  <2>1. CASE org[i] = 0
    BY <1>11, <2>1 DEF Succeeding
  <2>2. CASE org[i] # 0
    <3>1. Exists(g) /\ g <= created /\ org[i] \in DOMAIN pending /\ In(org[i], "transfer", g)
          /\ org[i] > gone
      BY <1>4, <1>11, <2>2
    <3>2. \A j \in DOMAIN pending' : org[j] = 0 => ~In(j, "set_leader", g)'
      BY <1>11 DEF Succeeding
    <3>3. Holder(g, x)
      BY <1>11, <3>1, <3>2, HolderKept
    <3>4. Gone(g, x, org[i])
      BY <3>1, <3>3 DEF Succession
    <3>5. pending[org[i]].do \in HighKinds
      BY <3>1 DEF In, HighKinds
    <3>6. Gone(g, x, place[org[i]])'
      BY <1>11, <3>1, <3>4, <3>5, GoneKept
    <3>7. place[org[i]] = i
      BY <1>0, <2>2
    <3> QED BY <3>6, <3>7
  <2> QED BY <2>1, <2>2
<1>12. ASSUME NEW j \in DOMAIN pending', Exists(g)', In(j, "set_leader", g)'
       PROVE  leaderOf'[g] # pending'[j].p /\ Out(g, leaderOf[g], j)'
  <2>1. CASE org[j] = 0
    BY <1>12, <2>1 DEF Succeeding
  <2>2. CASE org[j] # 0
    <3>1. Exists(g) /\ g <= created /\ org[j] \in DOMAIN pending /\ In(org[j], "set_leader", g)
          /\ org[j] > gone
      BY <1>4, <1>12, <2>2
    <3>2. leaderOf[g] # pending[org[j]].p /\ Out(g, leaderOf[g], org[j])
      BY <3>1 DEF Succession
    <3>3. ~(gone = 1 /\ In(1, "set_leader", g))
      <4>1. ASSUME gone = 1, In(1, "set_leader", g) PROVE FALSE
        <5>1. org[j] = 1
          BY <3>1, <4>1 DEF Succession, In
        <5> QED BY <3>1, <4>1, <5>1
      <4> QED BY <4>1
    <3>4. leaderOf'[g] = leaderOf[g]
      BY <1>12, <3>1, <3>3 DEF Succeeding
    <3>5. leaderOf[g] \in Players
      BY <3>1 DEF Base, TablesOK, Exists
    <3>6. pending[org[j]].do \in HighKinds
      BY <3>1 DEF In, HighKinds
    <3>10. PICK x \in Players : x = leaderOf[g]
      BY <3>5
    <3>7. Out(g, x, org[j])
      BY <3>2, <3>10 DEF Out
    <3>8. Out(g, x, place[org[j]])'
      BY <1>12, <3>1, <3>6, <3>7, OutKept
    <3>9. place[org[j]] = j /\ pending'[j].p = pending[org[j]].p
      BY <1>0, <1>1, <2>2
    <3> QED BY <3>2, <3>4, <3>8, <3>9, <3>10 DEF Out
  <2> QED BY <2>1, <2>2
<1> QED BY <1>5, <1>6, <1>7, <1>8, <1>9, <1>10, <1>11, <1>12 DEF Succession

-----------------------------------------------------------------------------
(* Tickets *)

One(b) == IF b THEN 1 ELSE 0

Joins(g, p) == \E i \in DOMAIN pending : At(i, "join", g, p)
Adds(g, p) == \E i \in DOMAIN pending : At(i, "add_member", g, p)

\* p can accept an invitation to g: he is shown one and has no accept on the way, or
\* the row is there, or will be, behind all that remove it.
Shown(g, p) ==
  client[p].invite = g /\ \A i \in DOMAIN pending : ~(Of(i, "join", p) /\ pending[i].known)
Row(g, p) == <<g, p>> \in invites /\ \A i \in DOMAIN pending : ~At(i, "remove_invite", g, p)
Coming(g, p) ==
  \E k \in DOMAIN pending :
    /\ At(k, "add_invite", g, p)
    /\ \A i \in DOMAIN pending : At(i, "remove_invite", g, p) => i < k
Claim(g, p) == Shown(g, p) \/ Row(g, p) \/ Coming(g, p)

Owed(g, p) == One(Joins(g, p)) + One(Adds(g, p)) + One(Claim(g, p))

\* Every invitation that can still be used has a ticket of its own.
Covered == \A g \in Parties, p \in Players : tickets[g][p] >= Owed(g, p)

\* What is shown was an invitation before, and rows come from the statements.
Inviting(gone, lost, g, p) ==
  /\ client'[p].invite = g =>
       /\ client[p].invite = g \/ Claim(g, p)
       /\ p \notin lost
       /\ ~(gone = 1 /\ Of(1, "join", p) /\ pending[1].known)
  /\ <<g, p>> \in invites' =>
       /\ <<g, p>> \in invites \/ (gone = 1 /\ At(1, "add_invite", g, p))
       /\ ~(gone = 1 /\ At(1, "remove_invite", g, p))

\* No claim to an invitation comes from nowhere.
LEMMA ClaimKept ==
  ASSUME Base, Base', NEW gone, NEW lost, NEW place, NEW org, Follows(gone, lost, place, org),
         NEW g \in Parties, NEW p \in Players, Inviting(gone, lost, g, p), Claim(g, p)',
         \A j \in DOMAIN pending' : org[j] = 0 => ~At(j, "add_invite", g, p)'
  PROVE  Claim(g, p)
<1>0. \A j \in DOMAIN pending' : org[j] # 0 =>
        /\ org[j] \in DOMAIN pending /\ org[j] > gone /\ place[org[j]] = j
        /\ At(j, "remove_invite", g, p)' <=> At(org[j], "remove_invite", g, p)
        /\ At(j, "add_invite", g, p)' <=> At(org[j], "add_invite", g, p)
        /\ Of(j, "join", p)' <=> Of(org[j], "join", p)
        /\ pending'[j].known <=> pending[org[j]].known /\ pending[org[j]].p \notin lost
  BY Waited
<1>1. /\ gone \in {0, 1} /\ DOMAIN pending = 1..Len(pending) /\ Len(pending) \in Nat
      /\ \A k \in DOMAIN pending : k > gone => place[k] \in DOMAIN pending' /\ org[place[k]] = k
  BY Order
<1>2. \A i \in DOMAIN pending : i > gone \/ (gone = 1 /\ i = 1)
  BY <1>1
<1>3. \A i \in DOMAIN pending : i > gone =>
        /\ place[i] \in DOMAIN pending' /\ org[place[i]] = i /\ org[place[i]] # 0
        /\ At(i, "remove_invite", g, p) => At(place[i], "remove_invite", g, p)'
        /\ Of(i, "join", p) /\ pending[i].known /\ p \notin lost =>
             Of(place[i], "join", p)' /\ pending'[place[i]].known
  <2> SUFFICES ASSUME NEW i \in DOMAIN pending, i > gone
               PROVE  /\ place[i] \in DOMAIN pending' /\ org[place[i]] = i /\ org[place[i]] # 0
                      /\ At(i, "remove_invite", g, p) => At(place[i], "remove_invite", g, p)'
                      /\ Of(i, "join", p) /\ pending[i].known /\ p \notin lost =>
                           Of(place[i], "join", p)' /\ pending'[place[i]].known
    OBVIOUS
  <2>1. place[i] \in DOMAIN pending' /\ org[place[i]] = i /\ org[place[i]] # 0
    BY <1>1
  <2>2. At(i, "remove_invite", g, p) => At(place[i], "remove_invite", g, p)'
    BY <1>0, <2>1
  <2>3. Of(i, "join", p) => pending[i].p = p
    BY DEF Of
  <2> QED BY <1>0, <2>1, <2>2, <2>3
<1>4. CASE Shown(g, p)'
  <2>1. client'[p].invite = g /\ \A i \in DOMAIN pending' : ~(Of(i, "join", p)' /\ pending'[i].known)
    BY <1>4 DEF Shown
  <2>2. CASE client[p].invite = g
    <3>1. ASSUME NEW i \in DOMAIN pending, Of(i, "join", p), pending[i].known PROVE FALSE
      BY <1>2, <1>3, <2>1, <3>1 DEF Inviting
    <3> QED BY <2>2, <3>1 DEF Claim, Shown
  <2> QED BY <2>1, <2>2 DEF Inviting
<1>5. CASE Row(g, p)'
  <2>1. <<g, p>> \in invites' /\ \A i \in DOMAIN pending' : ~At(i, "remove_invite", g, p)'
    BY <1>5 DEF Row
  <2>2. \A i \in DOMAIN pending : ~At(i, "remove_invite", g, p)
    BY <1>2, <1>3, <2>1 DEF Inviting
  <2>3. CASE <<g, p>> \in invites
    BY <2>2, <2>3 DEF Claim, Row
  <2>4. CASE At(1, "add_invite", g, p)
    <3>1. 1 \in DOMAIN pending
      BY <2>4 DEF At, Of
    <3> QED BY <2>2, <2>4, <3>1 DEF Claim, Coming
  <2> QED BY <2>1, <2>3, <2>4 DEF Inviting
<1>6. CASE Coming(g, p)'
  <2>1. PICK k \in DOMAIN pending' :
          /\ At(k, "add_invite", g, p)'
          /\ \A i \in DOMAIN pending' : At(i, "remove_invite", g, p)' => i < k
    BY <1>6 DEF Coming
  <2>2. org[k] # 0 /\ org[k] \in DOMAIN pending /\ org[k] > gone /\ At(org[k], "add_invite", g, p)
    BY <1>0, <2>1
  <2>3. ASSUME NEW i \in DOMAIN pending, At(i, "remove_invite", g, p) PROVE i < org[k]
    <3>1. CASE i > gone
      <4>1. place[i] \in DOMAIN pending' /\ org[place[i]] = i /\ org[place[i]] # 0 /\ place[i] < k
        BY <1>3, <2>1, <2>3, <3>1
      <4> QED BY <2>2, <4>1, InOrder
    <3>2. CASE gone = 1 /\ i = 1
      BY <2>2, <3>2
    <3> QED BY <1>2, <3>1, <3>2
  <2> QED BY <2>2, <2>3 DEF Claim, Coming
<1> QED BY <1>4, <1>5, <1>6 DEF Claim

\* Counting what a player can still use.
LEMMA Ones == ASSUME NEW b PROVE One(b) \in {0, 1} /\ (b => One(b) = 1) /\ (~b => One(b) = 0)
BY DEF One

\* Nothing about g and p comes new.
NoneNew(org, g, p) ==
  \A j \in DOMAIN pending' : org[j] = 0 =>
    ~At(j, "join", g, p)' /\ ~At(j, "add_member", g, p)' /\ ~At(j, "add_invite", g, p)'

LEMMA JoinsKept ==
  ASSUME Base, Base', NEW gone, NEW lost, NEW place, NEW org, Follows(gone, lost, place, org),
         NEW g, NEW p
  PROVE  /\ (\A j \in DOMAIN pending' : org[j] = 0 => ~At(j, "join", g, p)') =>
              (Joins(g, p)' => Joins(g, p))
         /\ (\A j \in DOMAIN pending' : org[j] = 0 => ~At(j, "add_member", g, p)') =>
              (Adds(g, p)' => Adds(g, p))
<1>0. \A j \in DOMAIN pending' : org[j] # 0 =>
        /\ org[j] \in DOMAIN pending
        /\ \A do : At(j, do, g, p)' <=> At(org[j], do, g, p)
  BY Waited
<1> QED BY <1>0 DEF Joins, Adds

\* What is owed does not grow unless something new can be used.
LEMMA OwedKept ==
  ASSUME Base, Base', NEW gone, NEW lost, NEW place, NEW org, Follows(gone, lost, place, org),
         NEW g \in Parties, NEW p \in Players, Inviting(gone, lost, g, p), NoneNew(org, g, p)
  PROVE  /\ Joins(g, p)' => Joins(g, p)
         /\ Adds(g, p)' => Adds(g, p)
         /\ Claim(g, p)' => Claim(g, p)
<1>1. (Joins(g, p)' => Joins(g, p)) /\ (Adds(g, p)' => Adds(g, p))
  BY JoinsKept DEF NoneNew
<1>3. Claim(g, p)' => Claim(g, p)
  BY ClaimKept DEF NoneNew
<1> QED BY <1>1, <1>3

\* Tickets still cover what is owed.
LEMMA CoveredStep ==
  ASSUME Base, Base', Covered, NEW gone, NEW lost, NEW place, NEW org,
         Follows(gone, lost, place, org),
         \A g \in Parties, p \in Players :
           \/ /\ NoneNew(org, g, p) /\ Inviting(gone, lost, g, p)
              /\ tickets'[g][p] >= tickets[g][p]
           \/ tickets'[g][p] >= Owed(g, p)'
  PROVE  Covered'
<1> SUFFICES ASSUME NEW g \in Parties, NEW p \in Players,
                    NoneNew(org, g, p), Inviting(gone, lost, g, p), tickets'[g][p] >= tickets[g][p]
             PROVE  tickets'[g][p] >= Owed(g, p)'
  BY DEF Covered
<1>1. tickets[g][p] >= One(Joins(g, p)) + One(Adds(g, p)) + One(Claim(g, p))
  BY DEF Covered, Owed
<1>2. /\ One(Joins(g, p))' <= One(Joins(g, p)) /\ One(Adds(g, p))' <= One(Adds(g, p))
      /\ One(Claim(g, p))' <= One(Claim(g, p))
  BY OwedKept DEF One
<1>3. /\ One(Joins(g, p)) \in Int /\ One(Adds(g, p)) \in Int /\ One(Claim(g, p)) \in Int
      /\ One(Joins(g, p))' \in Int /\ One(Adds(g, p))' \in Int /\ One(Claim(g, p))' \in Int
  BY DEF One
<1>4. tickets[g][p] \in Int /\ tickets'[g][p] \in Int
  BY DEF Base, CountsOK
<1> DEFINE j == One(Joins(g, p))  a == One(Adds(g, p))  c == One(Claim(g, p))
<1>5. Owed(g, p)' = j' + a' + c'
  BY DEF Owed
<1> HIDE DEF j, a, c
<1> QED BY <1>1, <1>2, <1>3, <1>4, <1>5 DEF j, a, c

-----------------------------------------------------------------------------
\* The list after a step, all that is new in it taken from new.
Sends(gone, lost, place, org, new) ==
  /\ Follows(gone, lost, place, org) /\ Fresh(org)
  /\ \A j \in DOMAIN pending' : org[j] = 0 => pending'[j] \in new

\* Nothing new, one new statement, two.
LEMMA SendsNothing ==
  ASSUME NEW gone, NEW lost, NEW place, NEW org, Taken(gone, lost, place, org)
  PROVE  Sends(gone, lost, place, org, {})
BY DEF Taken, Only, Sends, Fresh

LEMMA SendsOne ==
  ASSUME Base, Base', NEW gone, NEW lost, NEW place, NEW org, NEW j, NEW s,
         SentH(gone, lost, place, org, j, s) \/ SentN(gone, lost, place, org, j, s)
  PROVE  Sends(gone, lost, place, org, {s})
<1>1. /\ Follows(gone, lost, place, org) /\ Only(org, {j})
      /\ NewHigh(gone, place, org, j, s) \/ NewNormal(gone, place, org, j, s)
  BY DEF SentH, SentN
<1>2. /\ pending'[j] = s
      /\ \A i \in DOMAIN pending' : org[i] # 0 /\ pending'[i].do \in HighKinds => i < j
  BY <1>1, Behind
<1> QED BY <1>1, <1>2 DEF Sends, Fresh, Only

LEMMA SendsTwo ==
  ASSUME Base, Base', NEW gone, NEW lost, NEW place, NEW org, NEW j, NEW s, NEW k, NEW t,
         \/ SentHH(gone, lost, place, org, j, s, k, t) \/ SentHN(gone, lost, place, org, j, s, k, t)
         \/ SentNN(gone, lost, place, org, j, s, k, t)
  PROVE  /\ Sends(gone, lost, place, org, {s, t}) /\ Only(org, {j, k}) /\ j < k
         /\ j \in DOMAIN pending' /\ k \in DOMAIN pending' /\ org[j] = 0 /\ org[k] = 0
         /\ pending'[j] = s /\ pending'[k] = t
<1>1. /\ Follows(gone, lost, place, org) /\ Only(org, {j, k}) /\ j < k
      /\ NewHigh(gone, place, org, j, s) \/ NewNormal(gone, place, org, j, s)
      /\ NewHigh(gone, place, org, k, t) \/ NewNormal(gone, place, org, k, t)
  BY DEF SentHH, SentHN, SentNN
<1>2. /\ j \in DOMAIN pending' /\ org[j] = 0 /\ pending'[j] = s
      /\ \A i \in DOMAIN pending' : org[i] # 0 /\ pending'[i].do \in HighKinds => i < j
  BY <1>1, Behind
<1>3. /\ k \in DOMAIN pending' /\ org[k] = 0 /\ pending'[k] = t
      /\ \A i \in DOMAIN pending' : org[i] # 0 /\ pending'[i].do \in HighKinds => i < k
  BY <1>1, Behind
<1> QED BY <1>1, <1>2, <1>3 DEF Sends, Fresh, Only

-----------------------------------------------------------------------------
(* What the steps keep *)

Regular ==
  Joining /\ Membership /\ (\A g \in Parties : Succession(g)) /\ Covered

\* The four invariants of a step, together.
LEMMA RegularStep ==
  ASSUME Base, Base', Regular, NEW gone, NEW lost, NEW place, NEW org, NEW new,
         Sends(gone, lost, place, org, new), Entering(gone, org), Admitting(org),
         Populating(gone, org), \A g \in Parties : Succeeding(gone, org, g), Covered'
  PROVE  Regular'
<1>1. Follows(gone, lost, place, org) /\ Fresh(org)
  BY DEF Sends
<1>2. Joining'
  BY <1>1, JoiningStep DEF Regular
<1>3. Membership'
  BY <1>1, MembershipStep DEF Regular
<1>4. ASSUME NEW g \in Parties PROVE Succession(g)'
  BY <1>1, SuccessionStep DEF Regular
<1> QED BY <1>2, <1>3, <1>4 DEF Regular

Harmless == {"load_party", "load_invite", "invite", "found", "add_invite", "remove_invite",
             "check_invite"}

\* Nobody enters or leaves a party, and no row of a member or a party changes.
Quiet(gone, new) ==
  /\ UNCHANGED <<leaderOf, members, created>>
  /\ \A s \in new : s.do \in Harmless
  /\ gone = 1 => pending[1].do \in Harmless \cup {"verify"}
  /\ \A p \in Players : /\ client'[p].party = client[p].party
                        /\ client'[p].leader => client[p].leader

\* A quiet step keeps the first three.
LEMMA QuietStep ==
  ASSUME Base, Base', Regular, NEW gone, NEW lost, NEW place, NEW org, NEW new,
         Sends(gone, lost, place, org, new), Quiet(gone, new), Covered'
  PROVE  Regular'
<1>1. \A j \in DOMAIN pending' : org[j] = 0 => pending'[j].do \in Harmless
  BY DEF Sends, Quiet
<1>2. \A j \in DOMAIN pending' : org[j] = 0 =>
        /\ \A p : /\ ~Of(j, "verify", p)' /\ ~Of(j, "join", p)' /\ ~Of(j, "remove_member", p)'
        /\ \A g : /\ ~In(j, "transfer", g)' /\ ~In(j, "set_leader", g)' /\ ~In(j, "remove_member", g)'
        /\ \A g, p : ~At(j, "add_member", g, p)' /\ ~At(j, "remove_member", g, p)'
  BY <1>1 DEF Of, In, At, Harmless
<1>3. gone = 1 =>
        /\ \A g, p : /\ ~At(1, "add_member", g, p) /\ ~At(1, "remove_member", g, p)
                     /\ ~At(1, "join", g, p)
        /\ \A g : /\ ~In(1, "transfer", g) /\ ~In(1, "set_leader", g)
                  /\ ~In(1, "check_empty", g) /\ ~In(1, "dissolve", g)
  BY DEF Quiet, Of, In, At, Harmless
<1>4. \A g : Exists(g)' <=> Exists(g)
  BY DEF Quiet, Exists
<1>5. Entering(gone, org)
  BY <1>2, <1>3 DEF Entering, Quiet
<1>6. ASSUME NEW p \in Players, NEW j \in DOMAIN pending', org[j] = 0, Of(j, "found", p)',
             NEW i \in DOMAIN pending', Of(i, "join", p)'
      PROVE  i < j
  <2>1. org[i] # 0
    BY <1>2, <1>6
  <2>2. pending'[i].do \in HighKinds
    BY <1>6 DEF Of, HighKinds
  <2> QED BY <1>6, <2>1, <2>2 DEF Sends, Fresh
<1>7. Admitting(org)
  BY <1>2, <1>6 DEF Admitting, Quiet
<1>8. Populating(gone, org)
  <2>1. RowsFollow(gone)
    BY <1>3 DEF RowsFollow, Quiet
  <2> QED BY <1>2, <1>3, <1>4, <2>1 DEF Populating, Quiet, OnParty
<1>9. ASSUME NEW g \in Parties PROVE Succeeding(gone, org, g)
  <2>1. \A p \in Players : Heads(g, p)' => Heads(g, p)
    BY DEF Quiet, Heads
  <2>2. leaderOf'[g] = leaderOf[g]
    BY DEF Quiet
  <2> QED BY <1>2, <1>3, <1>4, <2>1, <2>2 DEF Succeeding
<1> QED BY <1>5, <1>7, <1>8, <1>9, RegularStep

\* No invitation comes up or is used up.
Idle(gone, lost, new) ==
  /\ tickets' = tickets
  /\ \A g \in Parties, p \in Players : Inviting(gone, lost, g, p)
  /\ \A s \in new : s.do \notin {"join", "add_member", "add_invite"}

\* An idle step keeps the fourth.
LEMMA IdleStep ==
  ASSUME Base, Base', Covered, NEW gone, NEW lost, NEW place, NEW org, NEW new,
         Sends(gone, lost, place, org, new), Idle(gone, lost, new)
  PROVE  Covered'
<1>1. /\ Follows(gone, lost, place, org)
      /\ \A g \in Parties, p \in Players : Inviting(gone, lost, g, p)
  BY DEF Sends, Idle
<1>2. \A j \in DOMAIN pending' : org[j] = 0 => pending'[j].do \notin {"join", "add_member", "add_invite"}
  BY DEF Sends, Idle
<1>3. \A g \in Parties, p \in Players : NoneNew(org, g, p)
  BY <1>2 DEF NoneNew, At, Of
<1>4. \A g \in Parties, p \in Players : tickets'[g][p] >= tickets[g][p]
  BY DEF Idle, Base, CountsOK
<1> QED BY <1>1, <1>3, <1>4, CoveredStep

\* The invitations shown and their rows do not grow.
LEMMA NoMoreInvitations ==
  ASSUME Base, NEW gone, NEW lost,
         \A p \in Players : client'[p].invite = client[p].invite \/ client'[p].invite = NoParty,
         \A p \in Players \cap lost : client'[p].invite = NoParty,
         invites' \subseteq invites,
         gone = 1 => ~\E p \in Players : Of(1, "join", p),
         gone = 1 /\ pending[1].do = "remove_invite" => <<pending[1].g, pending[1].p>> \notin invites'
  PROVE  \A g \in Parties, p \in Players : Inviting(gone, lost, g, p)
<1> SUFFICES ASSUME NEW g \in Parties, NEW p \in Players
             PROVE  /\ client'[p].invite = g =>
                       /\ client[p].invite = g \/ Claim(g, p)
                       /\ p \notin lost
                       /\ ~(gone = 1 /\ Of(1, "join", p) /\ pending[1].known)
                    /\ <<g, p>> \in invites' =>
                         /\ <<g, p>> \in invites \/ (gone = 1 /\ At(1, "add_invite", g, p))
                         /\ ~(gone = 1 /\ At(1, "remove_invite", g, p))
  BY DEF Inviting
<1>1. g # NoParty
  BY PartyNumbers
<1>2. At(1, "remove_invite", g, p) => pending[1].do = "remove_invite" /\ pending[1].g = g /\ pending[1].p = p
  BY DEF At, Of
<1> QED BY <1>1, <1>2

\* A step that sends harmless statements, changes no party and shows no invitation.
LEMMA PlainStep ==
  ASSUME Base, Base', Regular, NEW gone, NEW lost, NEW place, NEW org, NEW new,
         Sends(gone, lost, place, org, new), UNCHANGED <<leaderOf, members, created, tickets>>,
         invites' \subseteq invites,
         \A s \in new : s.do \in Harmless \ {"add_invite"},
         gone = 1 => pending[1].do \in (Harmless \ {"remove_invite"}) \cup {"verify"},
         \A p \in Players : /\ client'[p].party = client[p].party
                            /\ client'[p].leader => client[p].leader
                            /\ client'[p].invite = client[p].invite \/ client'[p].invite = NoParty,
         \A p \in Players \cap lost : client'[p].invite = NoParty
  PROVE  Regular'
<1>1. \A g \in Parties, p \in Players : Inviting(gone, lost, g, p)
  <2>1. gone = 1 => ~\E p \in Players : Of(1, "join", p)
    BY DEF Of, Harmless
  <2>2. gone = 1 => pending[1].do # "remove_invite"
    OBVIOUS
  <2> QED BY <2>1, <2>2, NoMoreInvitations
<1>2. Idle(gone, lost, new)
  BY <1>1 DEF Idle, Harmless
<1>3. Covered'
  BY <1>2, IdleStep DEF Regular
<1>4. Quiet(gone, new)
  BY DEF Quiet
<1> QED BY <1>3, <1>4, QuietStep

\* The handlers that only ask or take an invitation away.
LEMMA ConnectKeeps ==
  ASSUME Base, Regular, NEW p \in Players, OnClientPostAdminCheck(p) PROVE Regular'
<1> DEFINE s == For(p, Normal("load_party", NoParty, p))
           t == For(p, Normal("load_invite", NoParty, p))
<1>1. Base' /\ \E place, org, j, k : SentNN(0, {}, place, org, j, s, k, t)
  BY ConnectSends
<1>2. s.do = "load_party" /\ t.do = "load_invite"
  BY DEF For, Normal, Statement
<1> HIDE DEF s, t
<1>3. PICK place, org, j, k : SentNN(0, {}, place, org, j, s, k, t)
  BY <1>1
<1>4. Sends(0, {}, place, org, {s, t})
  BY <1>1, <1>3, SendsTwo
<1>5. ~client[p].online /\ client' = [client EXCEPT ![p] = Online] /\ UNCHANGED <<tables, history>>
  BY DEF OnClientPostAdminCheck
<1>6. client[p] = Offline
  BY <1>5 DEF Base, ClientsOK
<1>7. \A q \in Players : /\ client'[q].party = client[q].party
                         /\ client'[q].leader => client[q].leader
                         /\ client'[q].invite = client[q].invite
  <2>1. \A q \in Players : client'[q] = IF q = p THEN Online ELSE client[q]
    BY <1>5 DEF Base, ClientsOK
  <2> QED BY <1>6, <2>1, OnlineIs
<1> QED BY <1>1, <1>2, <1>4, <1>5, <1>7, PlainStep DEF tables, history, Harmless

LEMMA InviteKeeps ==
  ASSUME Base, Regular, NEW p \in Players, NEW q \in Players, Party_Invite(p, q) PROVE Regular'
<1> DEFINE s == Statement("invite", TRUE, client[p].party, p, TRUE, q, TRUE)
<1>1. /\ Base' /\ UNCHANGED <<client, tables, tickets>>
      /\ \E place, org, j : SentH(0, {}, place, org, j, s)
  BY InviteSends
<1>2. s.do = "invite"
  BY DEF Statement
<1> HIDE DEF s
<1>3. PICK place, org, j : SentH(0, {}, place, org, j, s)
  BY <1>1
<1>4. Sends(0, {}, place, org, {s})
  BY <1>1, <1>3, SendsOne
<1> QED BY <1>1, <1>2, <1>4, PlainStep DEF tables, Harmless

LEMMA TimerKeeps ==
  ASSUME Base, Regular, NEW p \in Players, Timer_CleanupInvites(p) PROVE Regular'
<1> DEFINE s == For(p, Normal("check_invite", client[p].invite, p))
<1>1. /\ Base' /\ UNCHANGED <<client, tables, history>>
      /\ \E place, org, j : SentN(0, {}, place, org, j, s)
  BY TimerSends
<1>2. s.do = "check_invite"
  BY DEF For, Normal, Statement
<1> HIDE DEF s
<1>3. PICK place, org, j : SentN(0, {}, place, org, j, s)
  BY <1>1
<1>4. Sends(0, {}, place, org, {s})
  BY <1>1, <1>3, SendsOne
<1> QED BY <1>1, <1>2, <1>4, PlainStep DEF tables, history, Harmless

LEMMA DeclineKeeps ==
  ASSUME Base, Regular, NEW p \in Players, Party_Decline(p) PROVE Regular'
<1> DEFINE s == Normal("remove_invite", client[p].invite, p)
<1>1. /\ Base' /\ client' = [client EXCEPT ![p].invite = NoParty] /\ UNCHANGED <<tables, history>>
      /\ \E place, org, j : SentN(0, {}, place, org, j, s)
  BY DeclineSends
<1>2. s.do = "remove_invite"
  BY DEF Normal, Statement
<1> HIDE DEF s
<1>3. PICK place, org, j : SentN(0, {}, place, org, j, s)
  BY <1>1
<1>4. Sends(0, {}, place, org, {s})
  BY <1>1, <1>3, SendsOne
<1>5. \A q \in Players : /\ client'[q].party = client[q].party
                         /\ client'[q].leader = client[q].leader
                         /\ client'[q].invite = client[q].invite \/ client'[q].invite = NoParty
  BY <1>1 DEF Base, ClientsOK, Clients
<1> QED BY <1>1, <1>2, <1>4, <1>5, PlainStep DEF tables, history, Harmless

\* The answers that only clear an invitation.
LEMMA ClearKeeps ==
  ASSUME Base, Base', Regular, NEW do \in {"load_party", "load_invite", "check_invite", "verify", "invite", "found"},
         Done(do), UNCHANGED <<tables, tickets>>,
         UNCHANGED client \/ client' = [client EXCEPT ![Answered.p].invite = NoParty],
         \E place, org : Taken(1, {}, place, org)
  PROVE  Regular'
<1>1. PICK place, org : Taken(1, {}, place, org)
  OBVIOUS
<1>2. Sends(1, {}, place, org, {})
  BY <1>1, SendsNothing
<1>3. \A q \in Players : /\ client'[q].party = client[q].party
                         /\ client'[q].leader = client[q].leader
                         /\ client'[q].invite = client[q].invite \/ client'[q].invite = NoParty
  BY DEF Base, ClientsOK, Clients
<1>4. pending[1].do = do
  BY AnsweredIs
<1> QED BY <1>2, <1>3, <1>4, PlainStep DEF tables, Harmless

\* Invitations that run out, are declined, or are written.
LEMMA InviteExpiredKeeps ==
  ASSUME Base, Regular, DB_InviteExpired PROVE Regular'
<1>1. /\ Base' /\ UNCHANGED <<tables, history>>
      /\ UNCHANGED client \/ client' = [client EXCEPT ![Answered.p].invite = NoParty]
      /\ \E place, org : Taken(1, {}, place, org)
  BY InviteExpiredSends
<1>2. Done("check_invite")
  BY DEF DB_InviteExpired
<1> QED BY <1>1, <1>2, ClearKeeps DEF history

LEMMA ExpireKeeps == ASSUME Base, Regular, Expire PROVE Regular'
<1>1. Base' /\ \E place, org : Taken(0, {}, place, org)
  BY ExpireSends
<1>2. PICK place, org : Taken(0, {}, place, org)
  BY <1>1
<1>3. Sends(0, {}, place, org, {})
  BY <1>2, SendsNothing
<1>4. invites' \subseteq invites /\ UNCHANGED <<client, leaderOf, members, created, tickets>>
  BY DEF Expire, history
<1> QED BY <1>1, <1>3, <1>4, PlainStep

LEMMA RemoveInviteKeeps == ASSUME Base, Regular, RemoveInvite PROVE Regular'
<1>1. Base' /\ \E place, org : Taken(1, {}, place, org)
  BY RemoveInviteSends
<1>2. PICK place, org : Taken(1, {}, place, org)
  BY <1>1
<1>3. Sends(1, {}, place, org, {})
  BY <1>2, SendsNothing
<1>4. /\ Done("remove_invite") /\ invites' = invites \ {<<Answered.g, Answered.p>>}
      /\ UNCHANGED <<client, leaderOf, members, created, tickets>>
  BY DEF RemoveInvite, history
<1>5. pending[1].do = "remove_invite" /\ Answered = pending[1]
  BY <1>4, AnsweredIs
<1>6. \A g \in Parties, p \in Players : Inviting(1, {}, g, p)
  <2>1. ~\E p \in Players : Of(1, "join", p)
    BY <1>5 DEF Of
  <2>2. <<pending[1].g, pending[1].p>> \notin invites' /\ invites' \subseteq invites
    BY <1>4, <1>5
  <2> QED BY <1>4, <2>1, <2>2, NoMoreInvitations
<1>7. Covered'
  <2>1. Idle(1, {}, {})
    BY <1>4, <1>6 DEF Idle
  <2> QED BY <1>1, <1>3, <2>1, IdleStep DEF Regular
<1>8. Quiet(1, {})
  BY <1>4, <1>5 DEF Quiet, Harmless
<1> QED BY <1>1, <1>3, <1>7, <1>8, QuietStep

LEMMA AddInviteKeeps == ASSUME Base, Regular, AddInvite PROVE Regular'
<1>1. Base' /\ \E place, org : Taken(1, {}, place, org)
  BY AddInviteSends
<1>2. PICK place, org : Taken(1, {}, place, org)
  BY <1>1
<1>3. Sends(1, {}, place, org, {})
  BY <1>2, SendsNothing
<1>4. /\ Done("add_invite")
      /\ invites' \subseteq invites \cup {<<Answered.g, Answered.p>>}
      /\ UNCHANGED <<client, leaderOf, members, created, tickets>>
  BY DEF AddInvite, history
<1>5. pending[1].do = "add_invite" /\ Answered = pending[1] /\ 1 \in DOMAIN pending
  BY <1>4, AnsweredIs
<1>6. \A g \in Parties, p \in Players : Inviting(1, {}, g, p)
  <2>1. \A p : ~Of(1, "join", p)
    BY <1>5 DEF Of
  <2>2. \A g, p : ~At(1, "remove_invite", g, p)
    BY <1>5 DEF Of, At
  <2>3. \A g, p : <<g, p>> \in invites' => <<g, p>> \in invites \/ At(1, "add_invite", g, p)
    BY <1>4, <1>5 DEF Of, At
  <2> QED BY <1>4, <2>1, <2>2, <2>3 DEF Inviting
<1>7. Covered'
  <2>1. Idle(1, {}, {})
    BY <1>4, <1>6 DEF Idle
  <2> QED BY <1>1, <1>3, <2>1, IdleStep DEF Regular
<1>8. Quiet(1, {})
  BY <1>4, <1>5 DEF Quiet, Harmless
<1> QED BY <1>1, <1>3, <1>7, <1>8, QuietStep

\* An invitation is loaded for a client only who has nothing under way that the row
\* could come from or go with.
LEMMA LoadInviteKeeps ==
  ASSUME Base, Regular, DB_LoadPendingInvite, ~confused' PROVE Regular'
<1>1. Base' /\ \E place, org : Taken(1, {}, place, org)
  BY LoadInviteSends
<1>2. PICK place, org : Taken(1, {}, place, org)
  BY <1>1
<1>3. Sends(1, {}, place, org, {})
  BY <1>2, SendsNothing
<1>4. Done("load_invite") /\ UNCHANGED tables
  BY DEF DB_LoadPendingInvite
<1>5. pending[1].do = "load_invite" /\ Answered = pending[1] /\ Present(client, Answered)
  BY <1>4, AnsweredIs
<1> DEFINE p == Answered.p
<1>6. CASE UNCHANGED <<client, history>>
  BY <1>1, <1>4, <1>6, ClearKeeps DEF history
<1>7. CASE /\ Answered.known /\ Overtaken(p)
           /\ \E g \in Parties : <<g, p>> \in invites /\ client' = [client EXCEPT ![p].invite = g]
  <2>1. PICK g \in Parties : <<g, p>> \in invites /\ client' = [client EXCEPT ![p].invite = g]
    BY <1>7
  <2>2. p \in Players
    BY <1>5, <1>7 DEF Present
  <2>3. ~HasActed(p) /\ tickets' = tickets
    BY <1>1, <1>7, MayConfuse DEF Overtaken, Base
  <2>4. \A i \in DOMAIN pending : pending[i].p = p =>
          pending[i].do \in {"load_party", "load_invite", "check_invite"}
    BY <2>3 DEF HasActed
  <2>5. Row(g, p)
    BY <2>1, <2>4 DEF Row, At, Of
  <2>6. \A q \in Players : /\ client'[q].party = client[q].party
                           /\ client'[q].leader = client[q].leader
                           /\ client'[q].invite = IF q = p THEN g ELSE client[q].invite
    BY <2>1, <2>2 DEF Base, ClientsOK, Clients
  <2>7. \A h \in Parties, q \in Players : Inviting(1, {}, h, q)
    <3> SUFFICES ASSUME NEW h \in Parties, NEW q \in Players
                 PROVE  /\ client'[q].invite = h =>
                           /\ client[q].invite = h \/ Claim(h, q)
                           /\ q \notin {}
                           /\ ~(Of(1, "join", q) /\ pending[1].known)
                        /\ <<h, q>> \in invites' =>
                             /\ <<h, q>> \in invites \/ At(1, "add_invite", h, q)
                             /\ ~At(1, "remove_invite", h, q)
      BY DEF Inviting
    <3>1. ~Of(1, "join", q) /\ ~At(1, "remove_invite", h, q)
      BY <1>5 DEF Of, At
    <3>2. client'[q].invite = h => client[q].invite = h \/ Claim(h, q)
      BY <2>5, <2>6 DEF Claim
    <3> QED BY <1>4, <3>1, <3>2 DEF tables
  <2>8. Covered'
    <3>1. Idle(1, {}, {})
      BY <2>3, <2>7 DEF Idle
    <3> QED BY <1>1, <1>3, <3>1, IdleStep DEF Regular
  <2>9. Quiet(1, {})
    BY <1>4, <1>5, <2>6 DEF Quiet, Harmless, tables
  <2> QED BY <1>1, <1>3, <2>8, <2>9, QuietStep
<1> QED BY <1>6, <1>7 DEF DB_LoadPendingInvite

\* A covered player has a ticket for each use.
LEMMA CoveredIs ==
  ASSUME Base, Covered, NEW g \in Parties, NEW p \in Players
  PROVE  /\ tickets[g][p] \in Int /\ tickets[g][p] >= One(Joins(g, p)) + One(Adds(g, p)) + One(Claim(g, p))
         /\ tickets[g][p] >= 0
         /\ One(Joins(g, p)) \in {0, 1} /\ One(Adds(g, p)) \in {0, 1} /\ One(Claim(g, p)) \in {0, 1}
<1>1. tickets[g][p] \in Int /\ tickets[g][p] >= One(Joins(g, p)) + One(Adds(g, p)) + One(Claim(g, p))
  BY DEF Covered, Owed, Base, CountsOK
<1>2. One(Joins(g, p)) \in {0, 1} /\ One(Adds(g, p)) \in {0, 1} /\ One(Claim(g, p)) \in {0, 1}
  BY DEF One
<1> QED BY <1>1, <1>2

\* DoSendInvite: the invited is shown the invitation now and has its row later, on one
\* ticket for both.
LEMMA InviteCheckKeeps ==
  ASSUME Base, Regular, DB_InviteCheckParty PROVE Regular'
<1>1. Base' /\ UNCHANGED tables
  BY InviteCheckSends
<1>2. Done("invite")
  BY DEF DB_InviteCheckParty
<1>3. /\ pending[1].do = "invite" /\ Answered = pending[1] /\ Present(client, Answered)
      /\ Answered \in Shaped
  BY <1>2, AnsweredIs
<1>4. CASE UNCHANGED <<client, tickets>> /\ \E place, org : Taken(1, {}, place, org)
  BY <1>1, <1>2, <1>4, ClearKeeps
<1>5. CASE /\ UNCHANGED <<client, tickets>>
           /\ \E place, org, j : SentH(1, {}, place, org, j, [Answered EXCEPT !.do = "found", !.g = NoParty])
  <2> DEFINE s == [Answered EXCEPT !.do = "found", !.g = NoParty]
  <2>1. s.do = "found"
    BY <1>3 DEF Shaped, Statements
  <2> HIDE DEF s
  <2>2. PICK place, org, j : SentH(1, {}, place, org, j, s)
    BY <1>5 DEF s
  <2>3. Sends(1, {}, place, org, {s})
    BY <1>1, <2>2, SendsOne
  <2> QED BY <1>1, <1>3, <1>5, <2>1, <2>3, PlainStep DEF tables, Harmless
<1>6. CASE /\ Answered.known /\ Answered.toKnown
           /\ client' = [client EXCEPT ![Answered.to].invite = client[Answered.p].party]
           /\ IF client[Answered.p].party \in Parties
                THEN Ticket(client[Answered.p].party, {Answered.to}) ELSE UNCHANGED tickets
           /\ \E place, org, j : SentH(1, {}, place, org, j,
                High("add_invite", client[Answered.p].party, Answered.to))
  <2>1. Answered.p \in Players /\ Answered.to \in Players
    BY <1>3, <1>6 DEF Present
  <2>2. PICK to \in Players : to = Answered.to
    BY <2>1
  <2>3. PICK g \in Parties \cup {NoParty} : g = client[Answered.p].party
    BY <2>1, OnlineParty
  <2> DEFINE s == High("add_invite", g, to)
  <2>4. s.do = "add_invite" /\ s.g = g /\ s.p = to
    BY DEF High, Statement
  <2>5. PICK place, org, j : SentH(1, {}, place, org, j, s)
    BY <1>6, <2>2, <2>3
  <2> HIDE DEF s
  <2>6. Sends(1, {}, place, org, {s}) /\ Follows(1, {}, place, org)
    BY <1>1, <2>5, SendsOne DEF Sends
  <2>7. \A k \in DOMAIN pending' : org[k] = 0 => pending'[k] = s
    BY <2>6 DEF Sends
  <2>8. \A q \in Players : /\ client'[q].party = client[q].party
                           /\ client'[q].leader = client[q].leader
                           /\ client'[q].invite = IF q = to THEN g ELSE client[q].invite
    BY <1>6, <2>2, <2>3 DEF Base, ClientsOK, Clients
  <2>9. \A h \in Parties, q \in Players :
          tickets'[h][q] = tickets[h][q] + IF h = g /\ q = to THEN 1 ELSE 0
    <3>1. CASE g \in Parties
      <4>1. Ticket(g, {to})
        BY <1>6, <2>2, <2>3, <3>1
      <4> QED BY <3>1, <4>1, TicketGiven DEF Base
    <3>2. CASE g \notin Parties
      <4>1. tickets' = tickets
        BY <1>6, <2>3, <3>2
      <4> QED BY <3>2, <4>1 DEF Base, CountsOK
    <3> QED BY <3>1, <3>2
  <2>10. ASSUME NEW h \in Parties, NEW q \in Players, ~(h = g /\ q = to)
         PROVE  /\ NoneNew(org, h, q) /\ Inviting(1, {}, h, q)
                /\ tickets'[h][q] >= tickets[h][q]
    <3>1. NoneNew(org, h, q)
      BY <2>4, <2>7, <2>10 DEF NoneNew, At, Of
    <3>2. ~Of(1, "join", q) /\ ~At(1, "remove_invite", h, q)
      BY <1>3 DEF Of, At
    <3>3. Inviting(1, {}, h, q)
      BY <1>1, <2>8, <2>10, <3>2 DEF Inviting, tables
    <3>4. tickets[h][q] \in Int
      BY DEF Base, CountsOK
    <3> QED BY <2>9, <2>10, <3>1, <3>3, <3>4
  <2>11. ASSUME NEW h \in Parties, NEW q \in Players, h = g, q = to
         PROVE  tickets'[h][q] >= Owed(h, q)'
    <3>1. \A k \in DOMAIN pending' : org[k] = 0 => ~At(k, "join", h, q)' /\ ~At(k, "add_member", h, q)'
      BY <2>4, <2>7 DEF At, Of
    <3>2. (Joins(h, q)' => Joins(h, q)) /\ (Adds(h, q)' => Adds(h, q))
      BY <1>1, <2>6, <3>1, JoinsKept
    <3>3. tickets'[h][q] = tickets[h][q] + 1
      BY <2>9, <2>11
    <3>4. /\ tickets[h][q] \in Int
          /\ tickets[h][q] >= One(Joins(h, q)) + One(Adds(h, q)) + One(Claim(h, q))
      BY CoveredIs DEF Regular
    <3>5. Owed(h, q)' = One(Joins(h, q))' + One(Adds(h, q))' + One(Claim(h, q))'
      BY DEF Owed
    <3>6. /\ One(Joins(h, q))' <= One(Joins(h, q)) /\ One(Adds(h, q))' <= One(Adds(h, q))
          /\ One(Claim(h, q))' \in {0, 1}
          /\ One(Joins(h, q))' \in {0, 1} /\ One(Adds(h, q))' \in {0, 1}
          /\ One(Joins(h, q)) \in {0, 1} /\ One(Adds(h, q)) \in {0, 1} /\ One(Claim(h, q)) \in {0, 1}
      BY <3>2 DEF One
    <3> QED BY <3>3, <3>4, <3>5, <3>6
  <2>12. Covered'
    BY <1>1, <2>6, <2>10, <2>11, CoveredStep DEF Regular
  <2>13. Quiet(1, {s})
    BY <1>1, <1>3, <2>4, <2>8 DEF Quiet, Harmless, tables
  <2> QED BY <1>1, <2>6, <2>12, <2>13, QuietStep
<1> QED BY <1>4, <1>5, <1>6, InviteCheckSends

-----------------------------------------------------------------------------
\* Steps that only verify and admit.
LEMMA AdmitStep ==
  ASSUME Base, Base', Regular, NEW gone, NEW lost, NEW place, NEW org, NEW new,
         Sends(gone, lost, place, org, new), UNCHANGED <<client, leaderOf, members, created>>,
         \A s \in new : s.do \in {"verify", "join", "remove_invite"},
         gone = 1 => pending[1].do = "verify",
         \A j \in DOMAIN pending', x \in Players : org[j] = 0 /\ Of(j, "join", x)' =>
           gone = 1 /\ Of(1, "verify", x) /\ pending[1].known,
         Admitting(org), Covered'
  PROVE  Regular'
<1>1. \A j \in DOMAIN pending' : org[j] = 0 => pending'[j].do \in {"verify", "join", "remove_invite"}
  BY DEF Sends
<1>2. \A j \in DOMAIN pending' : org[j] = 0 =>
        /\ \A g : /\ ~In(j, "transfer", g)' /\ ~In(j, "set_leader", g)'
        /\ \A g, p : ~At(j, "add_member", g, p)' /\ ~At(j, "remove_member", g, p)'
  BY <1>1 DEF Of, In, At
<1>3. gone = 1 =>
        /\ \A g, p : /\ ~At(1, "add_member", g, p) /\ ~At(1, "remove_member", g, p)
                     /\ ~At(1, "join", g, p)
        /\ \A g : /\ ~In(1, "transfer", g) /\ ~In(1, "set_leader", g)
                  /\ ~In(1, "check_empty", g) /\ ~In(1, "dissolve", g)
  BY DEF Of, In, At
<1>4. \A g : Exists(g)' <=> Exists(g)
  BY DEF Exists
<1>5. Entering(gone, org)
  BY <1>2, <1>3 DEF Entering
<1>8. Populating(gone, org)
  <2>1. RowsFollow(gone)
    BY <1>3 DEF RowsFollow
  <2> QED BY <1>2, <1>3, <1>4, <2>1 DEF Populating, OnParty
<1>9. ASSUME NEW g \in Parties PROVE Succeeding(gone, org, g)
  <2>1. \A p \in Players : Heads(g, p)' => Heads(g, p)
    BY DEF Heads
  <2> QED BY <1>2, <1>3, <1>4, <2>1 DEF Succeeding
<1> QED BY <1>5, <1>8, <1>9, RegularStep

\* An accept, the only one of its player.
LEMMA AcceptKeeps ==
  ASSUME Base, Regular, NEW p \in Players, Party_Accept(p), ~confused' PROVE Regular'
<1>1. /\ Base' /\ UNCHANGED <<client, tables, tickets>>
      /\ client[p].party = NoParty /\ ~Accepting(p)
      /\ \E place, org, j : SentH(0, {}, place, org, j, For(p, High("verify", client[p].invite, p)))
  BY AcceptSends
<1> DEFINE s == For(p, High("verify", client[p].invite, p))
<1>2. s.do = "verify" /\ s.p = p /\ s.known
  BY DEF For, High, Statement
<1> HIDE DEF s
<1>3. PICK place, org, j : SentH(0, {}, place, org, j, s)
  BY <1>1 DEF s
<1>4. Sends(0, {}, place, org, {s}) /\ Only(org, {j}) /\ Follows(0, {}, place, org)
  BY <1>1, <1>3, SendsOne DEF SentH, Sends
<1>5. \A k \in DOMAIN pending' : org[k] = 0 => k = j /\ pending'[k] = s
  BY <1>4 DEF Sends, Only
<1>6. \A k \in DOMAIN pending' : ~(org[k] # 0 /\ Admits(k, p)')
  <2> SUFFICES ASSUME NEW k \in DOMAIN pending', org[k] # 0, Admits(k, p)' PROVE FALSE
    OBVIOUS
  <2>1. org[k] \in DOMAIN pending /\ Admits(org[k], p)
    BY <1>1, <1>4, Waited
  <2> QED BY <1>1, <2>1 DEF Accepting, Admits, Of
<1>7. Admitting(org)
  <2>1. ASSUME NEW q \in Players, NEW k \in DOMAIN pending', org[k] = 0
        PROVE  /\ ~Of(k, "join", q)' /\ ~Of(k, "found", q)' /\ ~Of(k, "remove_member", q)'
               /\ Of(k, "verify", q)' => q = p /\ k = j /\ pending'[k].known
    BY <1>2, <1>5, <2>1 DEF Of
  <2>2. ASSUME NEW k \in DOMAIN pending', org[k] = 0
        PROVE  /\ \A i \in DOMAIN pending' : Admits(i, p)' => i = k
               /\ \A i \in DOMAIN pending' : Of(i, "join", p)' => i < k
    <3>1. \A i \in DOMAIN pending' : org[i] = 0 => i = k
      BY <1>5, <2>2
    <3>2. ASSUME NEW i \in DOMAIN pending', Of(i, "join", p)' PROVE i < k
      <4>1. org[i] # 0 /\ pending'[i].do \in HighKinds
        BY <2>1, <3>2 DEF Of, HighKinds
      <4> QED BY <1>4, <2>2, <4>1 DEF Sends, Fresh
    <3> QED BY <1>6, <3>1, <3>2
  <2> QED BY <1>1, <2>1, <2>2 DEF Admitting
<1>8. Covered'
  <2>1. \A h \in Parties, q \in Players : Inviting(0, {}, h, q)
    BY <1>1, NoMoreInvitations DEF tables
  <2>2. Idle(0, {}, {s})
    BY <1>1, <1>2, <2>1 DEF Idle
  <2> QED BY <1>1, <1>4, <2>2, IdleStep DEF Regular
<1>9. \A k \in DOMAIN pending', x \in Players : ~(org[k] = 0 /\ Of(k, "join", x)')
  BY <1>2, <1>5 DEF Of
<1> QED BY <1>1, <1>2, <1>4, <1>7, <1>8, <1>9, AdmitStep DEF tables

\* A party is founded: its number is new, so nothing that waits is about it.
LEMMA NewNumber ==
  ASSUME Base, NEW g \in Parties, created < g
  PROVE  /\ ~Exists(g)
         /\ \A x \in Players : client[x].party # g /\ client[x].invite # g
         /\ \A x : <<g, x>> \notin members /\ <<g, x>> \notin invites
         /\ \A i \in DOMAIN pending : pending[i].g # g
<1>1. g \in Nat /\ created \in Nat
  BY PartyNumbers, BaseFacts
<1>2. \A h : h <= created => h # g
  BY <1>1
<1>3. ~Exists(g)
  BY <1>2 DEF Base, TablesOK
<1>4. \A x \in Players : client[x].party # g /\ client[x].invite # g
  BY <1>2 DEF Base, ClientsOK
<1>5. \A x : <<g, x>> \notin members /\ <<g, x>> \notin invites
  <2>1. ASSUME NEW x, <<g, x>> \in members PROVE FALSE
    <3>1. Exists(<<g, x>>[1])
      BY <2>1 DEF Base, TablesOK
    <3> QED BY <1>3, <3>1
  <2>2. ASSUME NEW x, <<g, x>> \in invites PROVE FALSE
    <3>1. <<g, x>>[1] <= created
      BY <2>2 DEF Base, TablesOK
    <3> QED BY <1>2, <3>1
  <2> QED BY <2>1, <2>2
<1>6. \A i \in DOMAIN pending : pending[i].g # g
  BY <1>2 DEF Base, ListOK
<1> QED BY <1>3, <1>4, <1>5, <1>6

\* The founder and the invited get a ticket each, and the new party has its founder's
\* row on the way.
LEMMA CreatedKeeps ==
  ASSUME Base, Regular, DB_PartyCreated, ~confused' PROVE Regular'
<1>1. Base' /\ UNCHANGED <<members, invites>>
  BY CreatedSends
<1>2. Done("found")
  BY DEF DB_PartyCreated
<1>3. /\ pending[1].do = "found" /\ Answered = pending[1] /\ Present(client, Answered)
      /\ 1 \in DOMAIN pending
  BY <1>2, AnsweredIs
<1>4. CASE /\ UNCHANGED <<client, leaderOf, created, tickets, confused>>
           /\ \E place, org : Taken(1, {}, place, org)
  BY <1>1, <1>2, <1>4, ClearKeeps DEF tables
<1>5. CASE /\ Founds(Answered, created + 1)
           /\ \E place, org, j, k : SentHH(1, {}, place, org,
                j, High("add_member", created + 1, Answered.p),
                k, High("add_invite", created + 1, Answered.to))
  <2>1. PICK p \in Players : p = Answered.p
    BY <1>5 DEF Founds
  <2>2. PICK q \in Players : q = Answered.to
    BY <1>5 DEF Founds
  <2>3. PICK g \in Parties : g = created + 1
    BY <1>5 DEF Founds
  <2>4. created < g /\ p # q
    BY <1>5, <2>1, <2>2, <2>3, BaseFacts DEF Founds
  <2> DEFINE a == High("add_member", g, p)
             b == High("add_invite", g, q)
  <2>5. /\ a.do = "add_member" /\ a.g = g /\ a.p = p
        /\ b.do = "add_invite" /\ b.g = g /\ b.p = q
    BY DEF High, Statement
  <2>6. PICK place, org, j, k : SentHH(1, {}, place, org, j, a, k, b)
    BY <1>5, <2>1, <2>2, <2>3
  <2> HIDE DEF a, b
  <2>7. /\ Sends(1, {}, place, org, {a, b}) /\ Follows(1, {}, place, org)
        /\ j \in DOMAIN pending' /\ k \in DOMAIN pending' /\ org[j] = 0 /\ org[k] = 0
        /\ pending'[j] = a /\ pending'[k] = b
    <3>1. Follows(1, {}, place, org)
      BY <2>6 DEF SentHH
    <3>2. Sends(1, {}, place, org, {a, b})
      BY <1>1, <2>6, SendsTwo
    <3>3. /\ j \in DOMAIN pending' /\ k \in DOMAIN pending' /\ org[j] = 0 /\ org[k] = 0
          /\ pending'[j] = a /\ pending'[k] = b
      BY <2>6 DEF SentHH, NewHigh
    <3> QED BY <3>1, <3>2, <3>3
  <2>8. \A i \in DOMAIN pending' : org[i] = 0 => pending'[i] = a \/ pending'[i] = b
    BY <2>7 DEF Sends
  <2>9. \A x \in Players :
          /\ client'[x].party = IF x = p /\ pending[1].known THEN g ELSE client[x].party
          /\ client'[x].leader = IF x = p /\ pending[1].known THEN TRUE ELSE client[x].leader
          /\ client'[x].invite = IF x = q /\ pending[1].toKnown THEN g ELSE client[x].invite
    <3>1. client' = [client EXCEPT
             ![p] = IF pending[1].known THEN [@ EXCEPT !.party = g, !.leader = TRUE] ELSE @,
             ![q] = IF pending[1].toKnown THEN [@ EXCEPT !.invite = g] ELSE @]
      BY <1>3, <1>5, <2>1, <2>2, <2>3 DEF Founds
    <3>2. client \in [Players -> Clients]
      BY DEF Base, ClientsOK
    <3> DEFINE c == IF pending[1].known THEN [client[p] EXCEPT !.party = g, !.leader = TRUE]
                                        ELSE client[p]
               d == IF pending[1].toKnown THEN [client[q] EXCEPT !.invite = g] ELSE client[q]
    <3>3. \A x \in Players : client'[x] = IF x = p THEN c ELSE IF x = q THEN d ELSE client[x]
      BY <2>4, <3>1, <3>2
    <3>4. /\ c.party = IF pending[1].known THEN g ELSE client[p].party
          /\ c.leader = IF pending[1].known THEN TRUE ELSE client[p].leader
          /\ c.invite = client[p].invite
      BY <3>2 DEF Clients
    <3>5. /\ d.party = client[q].party /\ d.leader = client[q].leader
          /\ d.invite = IF pending[1].toKnown THEN g ELSE client[q].invite
      BY <3>2 DEF Clients
    <3> HIDE DEF c, d
    <3> QED BY <2>4, <3>3, <3>4, <3>5
  <2>10. \A h \in Parties : leaderOf'[h] = IF h = g THEN p ELSE leaderOf[h]
    BY <1>5, <2>1, <2>3 DEF Founds, Base, TablesOK
  <2>11. \A h \in Parties, x \in Players :
           tickets'[h][x] = tickets[h][x] + IF h = g /\ x \in {p, q} THEN 1 ELSE 0
    <3>1. Ticket(g, {p, q})
      BY <1>5, <2>1, <2>2, <2>3 DEF Founds
    <3> QED BY <3>1, TicketGiven DEF Base
  <2>12. ~(pending[1].known /\ Accepting(p))
    BY <1>3, <1>5, <2>1 DEF Founds
  <2>13. /\ ~Exists(g)
         /\ \A x \in Players : client[x].party # g /\ client[x].invite # g
         /\ \A x : <<g, x>> \notin members /\ <<g, x>> \notin invites
         /\ \A i \in DOMAIN pending : pending[i].g # g
    BY <2>4, NewNumber
  <2>14. \A i \in DOMAIN pending' : org[i] # 0 =>
           /\ org[i] \in DOMAIN pending /\ org[i] > 1
           /\ pending'[i].g # g
           /\ \A x : Admits(i, x)' => Admits(org[i], x)
           /\ \A x : Of(i, "join", x)' => Of(org[i], "join", x)
    <3>1. \A i \in DOMAIN pending' : org[i] # 0 =>
           /\ org[i] \in DOMAIN pending /\ org[i] > 1
           /\ pending'[i].g = pending[org[i]].g
           /\ \A x : Admits(i, x)' => Admits(org[i], x)
           /\ \A do, x : Of(i, do, x)' <=> Of(org[i], do, x)
      BY <1>1, <2>7, Waited
    <3> QED BY <2>13, <3>1
  <2>15. \A h \in Parties : Exists(h)' <=> h = g \/ Exists(h)
    <3>1. p # Nobody
      BY PartiesAssumption
    <3> QED BY <2>10, <3>1 DEF Exists
  <2>16. \A i \in DOMAIN pending' : pending'[i].g = g => pending'[i].do \in {"add_member", "add_invite"}
    BY <2>5, <2>8, <2>14
  <2>17. Entering(1, org)
    <3>1. \A h, x : ~At(1, "remove_member", h, x)
      BY <1>3 DEF At, Of
    <3>2. \A i \in DOMAIN pending', h \in Parties, x \in Players :
            org[i] = 0 /\ At(i, "add_member", h, x)' => created < h
      BY <2>4, <2>5, <2>8 DEF At, Of
    <3>3. \A i \in DOMAIN pending', x \in Players : ~(org[i] = 0 /\ Of(i, "join", x)')
      BY <2>5, <2>8 DEF Of
    <3> QED BY <1>1, <3>1, <3>2, <3>3 DEF Entering
  <2>18. Admitting(org)
    <3>1. ASSUME NEW x \in Players, client'[x].party # NoParty, client[x].party = NoParty,
                 NEW i \in DOMAIN pending'
          PROVE  ~Admits(i, x)' /\ ~Of(i, "join", x)'
      <4>1. x = p /\ pending[1].known
        BY <2>9, <3>1
      <4>2. CASE org[i] = 0
        BY <2>5, <2>8, <4>2 DEF Admits, Of
      <4>3. CASE org[i] # 0
        <5>1. \A l \in DOMAIN pending : ~Admits(l, p)
          BY <2>12, <4>1 DEF Accepting, Admits, Of
        <5>2. ~Of(org[i], "join", p)
          <6>1. ASSUME Of(org[i], "join", p) PROVE FALSE
            <7>1. ~pending[org[i]].known
              BY <2>14, <4>3, <5>1, <6>1 DEF Admits
            <7>2. Of(1, "found", p)
              BY <1>3, <2>1 DEF Of
            <7>3. org[i] < 1
              BY <1>3, <2>14, <4>1, <4>3, <6>1, <7>1, <7>2 DEF Regular, Joining
            <7>4. org[i] > 1 /\ org[i] \in Int
              BY <2>14, <4>3, BaseFacts
            <7> QED BY <7>3, <7>4
          <6> QED BY <6>1
        <5> QED BY <2>14, <4>1, <4>3, <5>1, <5>2
      <4> QED BY <4>2, <4>3
    <3>2. \A x \in Players, i \in DOMAIN pending' : org[i] = 0 =>
            /\ ~Of(i, "verify", x)' /\ ~Of(i, "join", x)' /\ ~Of(i, "found", x)'
            /\ ~Of(i, "remove_member", x)'
      BY <2>5, <2>8 DEF Of
    <3> QED BY <3>1, <3>2 DEF Admitting
  <2>19. Stayer(g, p)'
    <3>1. At(j, "add_member", g, p)'
      BY <2>5, <2>7 DEF At, Of
    <3>2. \A i \in DOMAIN pending' : ~At(i, "remove_member", g, p)'
      BY <2>16 DEF At, Of
    <3> QED BY <2>7, <3>1, <3>2 DEF Stayer
  <2>20. Populating(1, org)
    <3>1. RowsFollow(1)
      BY <1>1, <1>3 DEF RowsFollow, At, Of
    <3>2. \A i \in DOMAIN pending', h \in Parties, x \in Players : ~(org[i] = 0 /\ At(i, "remove_member", h, x)')
      BY <2>5, <2>8 DEF At, Of
    <3>3. \A h \in Parties, do \in OnParty : ~In(1, do, h)
      BY <1>3 DEF In, OnParty
    <3>4. Alive(g)'
      BY <2>19 DEF Alive
    <3>5. \A h \in Parties, x \in Players :
            client'[x].party = h /\ client[x].party # h => h = g /\ x = p
      BY <2>9
    <3> QED BY <2>13, <2>15, <2>19, <3>1, <3>2, <3>3, <3>4, <3>5 DEF Populating
  <2>21. ASSUME NEW h \in Parties PROVE Succeeding(1, org, h)
    <3>1. \A i \in DOMAIN pending' : org[i] = 0 => ~In(i, "transfer", h)' /\ ~In(i, "set_leader", h)'
      BY <2>5, <2>8 DEF In
    <3>2. ASSUME NEW x \in Players, Heads(h, x)', ~Heads(h, x)
          PROVE  /\ \A i \in DOMAIN pending' : ~In(i, "transfer", h)'
                 /\ Exists(h)' => Holder(h, x)'
                 /\ \A y \in Players : Heads(h, y)' => x = y
      <4>1. x = p /\ h = g
        BY <2>9, <3>2 DEF Heads
      <4>2. \A i \in DOMAIN pending' : ~In(i, "transfer", g)' /\ ~In(i, "set_leader", g)'
        BY <2>16 DEF In
      <4>3. leaderOf'[g] = p
        BY <2>10
      <4>4. \A y \in Players : Heads(g, y)' => y = p
        BY <2>9, <2>13 DEF Heads
      <4>5. Holder(g, p)'
        BY <4>2, <4>3 DEF Holder
      <4> QED BY <4>1, <4>2, <4>4, <4>5
    <3>3. Exists(h)' => Exists(h) \/ created < h
      BY <2>4, <2>15
    <3>4. Exists(h) => leaderOf'[h] = leaderOf[h]
      BY <2>10, <2>13
    <3>5. ~In(1, "set_leader", h)
      BY <1>3 DEF In
    <3> QED BY <3>1, <3>2, <3>3, <3>4, <3>5 DEF Succeeding
  <2>22. ASSUME NEW h \in Parties, NEW x \in Players, h # g
         PROVE  /\ NoneNew(org, h, x) /\ Inviting(1, {}, h, x) /\ tickets'[h][x] >= tickets[h][x]
    <3>1. NoneNew(org, h, x)
      BY <2>5, <2>8, <2>22 DEF NoneNew, At, Of
    <3>2. ~Of(1, "join", x) /\ ~At(1, "remove_invite", h, x)
      BY <1>3 DEF Of, At
    <3>3. Inviting(1, {}, h, x)
      BY <1>1, <2>9, <2>22, <3>2 DEF Inviting
    <3>4. tickets[h][x] \in Int
      BY DEF Base, CountsOK
    <3> QED BY <2>11, <2>22, <3>1, <3>3, <3>4
  <2>23. ASSUME NEW x \in Players PROVE tickets'[g][x] >= Owed(g, x)'
    <3>1. ~Joins(g, x)'
      BY <2>16 DEF Joins, At, Of
    <3>2. Adds(g, x)' => x = p
      BY <2>5, <2>8, <2>14 DEF Adds, At, Of
    <3>3. Claim(g, x)' => x = q
      <4>1. Shown(g, x)' => x = q
        BY <2>9, <2>13 DEF Shown
      <4>2. ~Row(g, x)'
        BY <1>1, <2>13 DEF Row
      <4>3. Coming(g, x)' => x = q
        BY <2>5, <2>8, <2>14 DEF Coming, At, Of
      <4> QED BY <4>1, <4>2, <4>3 DEF Claim
    <3>4. Owed(g, x)' = One(Joins(g, x))' + One(Adds(g, x))' + One(Claim(g, x))'
      BY DEF Owed
    <3>5. /\ One(Joins(g, x))' = 0
          /\ One(Adds(g, x))' \in {0, 1} /\ One(Claim(g, x))' \in {0, 1}
          /\ x # p => One(Adds(g, x))' = 0
          /\ x # q => One(Claim(g, x))' = 0
      BY <3>1, <3>2, <3>3 DEF One
    <3>6. tickets[g][x] \in Int /\ tickets[g][x] >= 0
      BY CoveredIs DEF Regular
    <3>7. tickets'[g][x] = tickets[g][x] + IF x \in {p, q} THEN 1 ELSE 0
      BY <2>11
    <3>8. One(Adds(g, x))' + One(Claim(g, x))' <= IF x \in {p, q} THEN 1 ELSE 0
      BY <2>4, <3>5
    <3> QED BY <3>4, <3>5, <3>6, <3>7, <3>8
  <2>24. Covered'
    <3>1. \A h \in Parties, x \in Players :
            \/ /\ NoneNew(org, h, x) /\ Inviting(1, {}, h, x)
               /\ tickets'[h][x] >= tickets[h][x]
            \/ tickets'[h][x] >= Owed(h, x)'
      BY <2>22, <2>23
    <3> QED BY <1>1, <2>7, <3>1, CoveredStep DEF Regular
  <2> QED BY <1>1, <2>7, <2>17, <2>18, <2>20, <2>21, <2>24, RegularStep
<1> QED BY <1>4, <1>5, CreatedSends

\* Whoever is admitted uses the invitation he is shown, and shows none from then on.
LEMMA VerifyKeeps ==
  ASSUME Base, Regular, DB_AcceptVerify PROVE Regular'
<1>1. Base' /\ UNCHANGED <<tables, history>>
  BY VerifySends
<1>2. Done("verify")
  BY DEF DB_AcceptVerify
<1>3. /\ pending[1].do = "verify" /\ Answered = pending[1] /\ 1 \in DOMAIN pending
  BY <1>2, AnsweredIs
<1>4. CASE /\ \/ UNCHANGED client
              \/ client' = [client EXCEPT ![Answered.p].invite = NoParty]
           /\ \E place, org : Taken(1, {}, place, org)
  BY <1>1, <1>2, <1>4, ClearKeeps DEF history
<1>5. CASE /\ Answered.known /\ UNCHANGED client
           /\ \E place, org, j, k : SentHH(1, {}, place, org,
                j, For(Answered.p, High("join", client[Answered.p].invite, Answered.p)),
                k, High("remove_invite", client[Answered.p].invite, Answered.p))
  <2>1. PICK p \in Players : p = Answered.p
    BY VerifySends
  <2>2. PICK g \in Parties \cup {NoParty} : g = client[p].invite
    BY OnlineParty
  <2> DEFINE s == For(p, High("join", g, p))
             t == High("remove_invite", g, p)
  <2>3. /\ s.do = "join" /\ s.g = g /\ s.p = p /\ s.known
        /\ t.do = "remove_invite" /\ t.g = g /\ t.p = p
    BY DEF For, High, Statement
  <2>4. PICK place, org, j, k : SentHH(1, {}, place, org, j, s, k, t)
    BY <1>5, <2>1, <2>2
  <2> HIDE DEF s, t
  <2>5. Sends(1, {}, place, org, {s, t})
    BY <1>1, <2>4, SendsTwo
  <2>6. /\ Follows(1, {}, place, org) /\ Fresh(org) /\ Only(org, {j, k}) /\ j < k
        /\ j \in DOMAIN pending' /\ k \in DOMAIN pending' /\ org[j] = 0 /\ org[k] = 0
        /\ pending'[j] = s /\ pending'[k] = t
    BY <2>4, <2>5 DEF SentHH, NewHigh, Sends
  <2>7. \A i \in DOMAIN pending' : org[i] = 0 =>
          (i = j /\ pending'[i] = s) \/ (i = k /\ pending'[i] = t)
    BY <2>6 DEF Only
  <2>8. Admits(1, p) /\ client[p].party = NoParty
    <3>1. Admits(1, p)
      BY <1>3, <1>5, <2>1 DEF Admits, Of
    <3> QED BY <1>3, <3>1 DEF Regular, Joining
  <2>9. \A i \in DOMAIN pending : i # 1 => ~Admits(i, p) /\ ~Of(i, "join", p)
    <3> SUFFICES ASSUME NEW i \in DOMAIN pending, i # 1 PROVE ~Admits(i, p) /\ ~Of(i, "join", p)
      OBVIOUS
    <3>1. ~Admits(i, p)
      BY <1>3, <2>8 DEF Regular, Joining
    <3>2. ASSUME Of(i, "join", p) PROVE FALSE
      <4>1. ~pending[i].known
        BY <3>1, <3>2 DEF Admits
      <4>2. Of(1, "verify", p)
        BY <1>3, <2>1 DEF Of
      <4>3. i < 1
        BY <1>3, <1>5, <3>2, <4>1, <4>2 DEF Regular, Joining
      <4> QED BY <4>3, BaseFacts
    <3> QED BY <3>1, <3>2
  <2>10. \A i \in DOMAIN pending' : org[i] # 0 =>
           /\ org[i] \in DOMAIN pending /\ org[i] # 1
           /\ ~Admits(i, p)' /\ ~Of(i, "join", p)'
    <3>1. \A i \in DOMAIN pending' : org[i] # 0 =>
            /\ org[i] \in DOMAIN pending /\ org[i] > 1
            /\ \A x : Admits(i, x)' => Admits(org[i], x)
            /\ \A do, x : Of(i, do, x)' <=> Of(org[i], do, x)
      BY <1>1, <2>6, Waited
    <3> QED BY <2>9, <3>1
  <2>11. \A i \in DOMAIN pending' :
           /\ Admits(i, p)' => i = j
           /\ Of(i, "join", p)' => i = j
    BY <2>3, <2>7, <2>10 DEF Admits, Of
  <2>12. \A i \in DOMAIN pending' : Of(i, "remove_member", p)' => i < j
    <3>1. \A i \in DOMAIN pending' : Of(i, "remove_member", p)' =>
            org[i] # 0 /\ pending'[i].do \in HighKinds
      BY <2>3, <2>7 DEF Of, HighKinds
    <3> QED BY <2>6, <3>1 DEF Fresh
  <2>13. Admitting(org)
    <3>1. \A x \in Players, i \in DOMAIN pending' : org[i] = 0 =>
            /\ ~Of(i, "verify", x)' /\ ~Of(i, "found", x)' /\ ~Of(i, "remove_member", x)'
            /\ Of(i, "join", x)' => i = j /\ x = p /\ pending'[i].known
      BY <2>3, <2>7 DEF Of
    <3> QED BY <1>5, <2>8, <2>11, <2>12, <3>1 DEF Admitting
  <2>14. \A i \in DOMAIN pending', x \in Players : org[i] = 0 /\ Of(i, "join", x)' =>
           Of(1, "verify", x) /\ pending[1].known
    BY <1>3, <1>5, <2>1, <2>3, <2>7 DEF Of
  <2>15. ASSUME NEW h \in Parties, NEW x \in Players, ~(h = g /\ x = p)
         PROVE  /\ NoneNew(org, h, x) /\ Inviting(1, {}, h, x) /\ tickets'[h][x] >= tickets[h][x]
    <3>1. NoneNew(org, h, x)
      BY <2>3, <2>7, <2>15 DEF NoneNew, At, Of
    <3>2. ~Of(1, "join", x) /\ ~At(1, "remove_invite", h, x)
      BY <1>3 DEF Of, At
    <3>3. Inviting(1, {}, h, x)
      BY <1>1, <1>5, <3>2 DEF Inviting, tables
    <3>4. tickets[h][x] \in Int /\ tickets' = tickets
      BY <1>1 DEF Base, CountsOK, history
    <3> QED BY <3>1, <3>3, <3>4
  <2>16. ASSUME g \in Parties PROVE tickets'[g][p] >= Owed(g, p)'
    <3>1. Claim(g, p)
      <4>1. \A i \in DOMAIN pending : ~(Of(i, "join", p) /\ pending[i].known)
        BY <1>3, <2>9 DEF Of
      <4> QED BY <2>2, <4>1 DEF Claim, Shown
    <3>2. ~Claim(g, p)'
      <4>1. ~Shown(g, p)'
        BY <2>3, <2>6 DEF Shown, Of
      <4>2. At(k, "remove_invite", g, p)'
        BY <2>3, <2>6 DEF At, Of
      <4>3. ~Row(g, p)'
        BY <2>6, <4>2 DEF Row
      <4>4. ASSUME Coming(g, p)' PROVE FALSE
        <5>1. PICK i \in DOMAIN pending' : At(i, "add_invite", g, p)' /\ k < i
          BY <2>6, <4>2, <4>4 DEF Coming
        <5>2. org[i] # 0 /\ pending'[i].do \in HighKinds
          BY <2>3, <2>7, <5>1 DEF At, Of, HighKinds
        <5>3. i < k
          BY <2>6, <5>2 DEF Fresh
        <5>4. i \in Int /\ k \in Int
          BY <1>1, <2>6, Order
        <5> QED BY <5>1, <5>3, <5>4
      <4> QED BY <4>1, <4>3, <4>4 DEF Claim
    <3>3. Adds(g, p)' => Adds(g, p)
      <4>1. \A i \in DOMAIN pending' : org[i] = 0 => ~At(i, "add_member", g, p)'
        BY <2>3, <2>7 DEF At, Of
      <4> QED BY <1>1, <2>6, <4>1, JoinsKept
    <3>4. Owed(g, p)' = One(Joins(g, p))' + One(Adds(g, p))' + One(Claim(g, p))'
      BY DEF Owed
    <3>5. /\ One(Joins(g, p))' \in {0, 1} /\ One(Claim(g, p))' = 0 /\ One(Claim(g, p)) = 1
          /\ One(Adds(g, p))' \in {0, 1} /\ One(Adds(g, p)) \in {0, 1}
          /\ One(Adds(g, p))' <= One(Adds(g, p))
      BY <3>1, <3>2, <3>3 DEF One
    <3>6. /\ tickets[g][p] \in Int
          /\ tickets[g][p] >= One(Joins(g, p)) + One(Adds(g, p)) + One(Claim(g, p))
          /\ One(Joins(g, p)) \in {0, 1}
      BY <2>16, CoveredIs DEF Regular
    <3>7. tickets'[g][p] = tickets[g][p]
      BY <1>1 DEF history
    <3> QED BY <3>4, <3>5, <3>6, <3>7
  <2>17. Covered'
    <3>1. \A h \in Parties, x \in Players :
            \/ /\ NoneNew(org, h, x) /\ Inviting(1, {}, h, x)
               /\ tickets'[h][x] >= tickets[h][x]
            \/ tickets'[h][x] >= Owed(h, x)'
      BY <2>15, <2>16
    <3> QED BY <1>1, <2>6, <3>1, CoveredStep DEF Regular
  <2> QED BY <1>1, <1>3, <1>5, <2>3, <2>5, <2>13, <2>14, <2>17, AdmitStep DEF tables
<1> QED BY <1>4, <1>5, VerifySends

\* An answer that sends nothing, or the next step of a succession.
LEMMA AnswerKeeps ==
  ASSUME Base, Base', Regular, NEW place, NEW org, NEW new, Sends(1, {}, place, org, new),
         \A s \in new : s.do \in {"dissolve", "set_leader"},
         \A g \in Parties, x \in Players : Exists(g)' /\ <<g, x>> \in members' =>
           /\ <<g, x>> \in members \/ At(1, "add_member", g, x) \/ At(1, "join", g, x)
           /\ ~At(1, "remove_member", g, x),
         RowsFollow(1),
         \A g \in Parties : Exists(g)' => Exists(g),
         \A x \in Players : client'[x].party # NoParty /\ client[x].party = NoParty =>
           \A i \in DOMAIN pending : i # 1 => ~Admits(i, x) /\ ~Of(i, "join", x),
         \A g \in Parties, x \in Players :
           client'[x].party = g /\ client[x].party # g /\ Exists(g)' =>
             /\ <<g, x>> \in members'
             /\ \A i \in DOMAIN pending : i # 1 => ~At(i, "remove_member", g, x),
         \A g \in Parties, do \in OnParty :
           In(1, do, g) /\ (\A i \in DOMAIN pending : ~In(i, "remove_member", g)) /\ Exists(g)'
             => Alive(g)',
         \A g \in Parties, j \in DOMAIN pending' : org[j] = 0 /\ In(j, "set_leader", g)' =>
           /\ \A i \in DOMAIN pending' : In(i, "set_leader", g)' => i = j
           /\ \A i \in DOMAIN pending' : ~In(i, "transfer", g)'
           /\ \A x \in Players : Heads(g, x)' => pending'[j].p = x
           /\ Exists(g)' => leaderOf'[g] # pending'[j].p /\ Out(g, leaderOf[g], j)',
         \A g \in Parties, x \in Players : Heads(g, x)' /\ ~Heads(g, x) =>
           /\ \A i \in DOMAIN pending : i # 1 => ~In(i, "transfer", g)
           /\ Exists(g)' => Holder(g, x)'
           /\ \A y \in Players : Heads(g, y)' => x = y,
         \A g \in Parties : Exists(g) /\ Exists(g)' =>
           IF In(1, "set_leader", g) THEN leaderOf'[g] = pending[1].p
                                     ELSE leaderOf'[g] = leaderOf[g],
         Covered'
  PROVE  Regular'
<1>1. Follows(1, {}, place, org) /\ Fresh(org)
  BY DEF Sends
<1>2. \A j \in DOMAIN pending' : org[j] = 0 => pending'[j].do \in {"dissolve", "set_leader"}
  BY DEF Sends
<1>3. \A j \in DOMAIN pending' : org[j] # 0 =>
        /\ org[j] \in DOMAIN pending /\ org[j] # 1
        /\ \A x : Admits(j, x)' => Admits(org[j], x)
        /\ \A do, x : Of(j, do, x)' <=> Of(org[j], do, x)
        /\ \A do, g : In(j, do, g)' <=> In(org[j], do, g)
        /\ \A do, g, x : At(j, do, g, x)' <=> At(org[j], do, g, x)
  <2>1. \A j \in DOMAIN pending' : org[j] # 0 => org[j] > 1
    BY <1>1, Waited
  <2> QED BY <1>1, <2>1, Waited
<1>4. \A j \in DOMAIN pending' : org[j] = 0 =>
        /\ \A x : /\ ~Of(j, "verify", x)' /\ ~Of(j, "join", x)' /\ ~Of(j, "remove_member", x)'
                  /\ ~Of(j, "found", x)' /\ ~Admits(j, x)'
        /\ \A g : ~In(j, "transfer", g)'
        /\ \A g, x : ~At(j, "add_member", g, x)' /\ ~At(j, "remove_member", g, x)'
  BY <1>2 DEF Of, In, At, Admits
<1>5. Entering(1, org)
  BY <1>4 DEF Entering
<1>6. Admitting(org)
  <2>1. ASSUME NEW x \in Players, client'[x].party # NoParty, client[x].party = NoParty,
               NEW i \in DOMAIN pending'
        PROVE  ~Admits(i, x)' /\ ~Of(i, "join", x)'
    <3>1. CASE org[i] = 0
      BY <1>4, <3>1
    <3>2. CASE org[i] # 0
      BY <1>3, <2>1, <3>2
    <3> QED BY <3>1, <3>2
  <2> QED BY <1>4, <2>1 DEF Admitting
<1>7. Populating(1, org)
  <2>1. ASSUME NEW g \in Parties, NEW x \in Players, client'[x].party = g, client[x].party # g, Exists(g)'
        PROVE  Stayer(g, x)'
    <3>1. <<g, x>> \in members' /\ \A i \in DOMAIN pending : i # 1 => ~At(i, "remove_member", g, x)
      BY <2>1
    <3>2. \A i \in DOMAIN pending' : ~At(i, "remove_member", g, x)'
      BY <1>3, <1>4, <3>1
    <3> QED BY <3>1, <3>2 DEF Stayer
  <2> QED BY <1>4, <2>1 DEF Populating
<1>8. ASSUME NEW g \in Parties PROVE Succeeding(1, org, g)
  <2>1. ASSUME NEW x \in Players, Heads(g, x)', ~Heads(g, x)
        PROVE  \A i \in DOMAIN pending' : ~In(i, "transfer", g)'
    <3>1. \A i \in DOMAIN pending : i # 1 => ~In(i, "transfer", g)
      BY <2>1
    <3> QED BY <1>3, <1>4, <3>1
  <2> QED BY <1>4, <2>1 DEF Succeeding
<1> QED BY <1>5, <1>6, <1>7, <1>8, RegularStep

\* The same for a statement on one row or one party, that no callback hears of.
LEMMA TableKeeps ==
  ASSUME Base, Base', Regular, NEW place, NEW org, Taken(1, {}, place, org),
         UNCHANGED client,
         \A g \in Parties, x \in Players : Exists(g)' /\ <<g, x>> \in members' =>
           /\ <<g, x>> \in members \/ At(1, "add_member", g, x) \/ At(1, "join", g, x)
           /\ ~At(1, "remove_member", g, x),
         RowsFollow(1),
         \A g \in Parties : Exists(g)' => Exists(g),
         \A g \in Parties, do \in OnParty :
           In(1, do, g) /\ (\A i \in DOMAIN pending : ~In(i, "remove_member", g)) /\ Exists(g)'
             => Alive(g)',
         \A g \in Parties : Exists(g) /\ Exists(g)' =>
           IF In(1, "set_leader", g) THEN leaderOf'[g] = pending[1].p
                                     ELSE leaderOf'[g] = leaderOf[g],
         Covered'
  PROVE  Regular'
<1>1. Sends(1, {}, place, org, {})
  BY SendsNothing
<1>2. \A j \in DOMAIN pending' : org[j] # 0
  BY DEF Taken, Only
<1>3. \A g \in Parties, x \in Players : Heads(g, x)' <=> Heads(g, x)
  BY DEF Heads
<1>4. \A x \in Players : client'[x].party = client[x].party
  OBVIOUS
<1> QED BY <1>1, <1>2, <1>3, <1>4, AnswerKeeps

\* No invitation is used: nothing is owed that was not.
LEMMA TakenCovers ==
  ASSUME Base, Base', Regular, NEW place, NEW org, Taken(1, {}, place, org),
         UNCHANGED <<client, tickets>>, invites' \subseteq invites,
         pending[1].do \notin {"join", "remove_invite"}
  PROVE  Covered'
<1>1. Sends(1, {}, place, org, {})
  BY SendsNothing
<1>2. ~\E p \in Players : Of(1, "join", p)
  BY DEF Of
<1>3. \A g \in Parties, p \in Players : Inviting(1, {}, g, p)
  BY <1>2, NoMoreInvitations
<1>4. Idle(1, {}, {})
  BY <1>3 DEF Idle
<1> QED BY <1>1, <1>4, IdleStep DEF Regular

\* The row goes, and with it the last reason not to look whether the party is empty.
LEMMA RemoveMemberKeeps == ASSUME Base, Regular, RemoveMember PROVE Regular'
<1>1. Base' /\ \E place, org : Taken(1, {}, place, org)
  BY RemoveMemberSends
<1>2. PICK place, org : Taken(1, {}, place, org)
  BY <1>1
<1>3. /\ Done("remove_member") /\ members' = members \ {<<Answered.g, Answered.p>>}
      /\ UNCHANGED <<client, leaderOf, invites, created, tickets>>
  BY DEF RemoveMember, history
<1>4. pending[1].do = "remove_member" /\ Answered = pending[1] /\ 1 \in DOMAIN pending
  BY <1>3, AnsweredIs
<1>5. Covered'
  BY <1>1, <1>2, <1>3, <1>4, TakenCovers
<1>6. \A g, x : At(1, "remove_member", g, x) <=> g = Answered.g /\ x = Answered.p
  BY <1>4 DEF At, Of
<1>7. \A g, x : <<g, x>> \in members' <=> <<g, x>> \in members /\ ~At(1, "remove_member", g, x)
  BY <1>3, <1>6
<1>8. RowsFollow(1)
  BY <1>4, <1>7 DEF RowsFollow, At, Of
<1>9. \A g \in Parties : /\ Exists(g)' => Exists(g)
                         /\ leaderOf'[g] = leaderOf[g]
                         /\ ~In(1, "set_leader", g)
                         /\ \A do \in OnParty : ~In(1, do, g)
  BY <1>3, <1>4 DEF Exists, In, OnParty
<1> QED BY <1>1, <1>2, <1>3, <1>5, <1>7, <1>8, <1>9, TableKeeps

\* A succession the key refuses counts as confused.
LEMMA SetLeaderKeeps == ASSUME Base, Regular, SetLeader, ~confused' PROVE Regular'
<1>1. Base' /\ \E place, org : Taken(1, {}, place, org)
  BY SetLeaderSends
<1>2. PICK place, org : Taken(1, {}, place, org)
  BY <1>1
<1> DEFINE refused == \E h \in Parties \ {Answered.g} : leaderOf[h] = Answered.p
<1>3. /\ Done("set_leader")
      /\ leaderOf' = IF Exists(Answered.g) /\ ~refused
                       THEN [leaderOf EXCEPT ![Answered.g] = Answered.p] ELSE leaderOf
      /\ confused' = (confused \/ (Exists(Answered.g) /\ refused))
      /\ UNCHANGED <<client, members, invites, created, tickets, sent>>
  BY DEF SetLeader
<1> HIDE DEF refused
<1>4. /\ pending[1].do = "set_leader" /\ Answered = pending[1] /\ 1 \in DOMAIN pending
      /\ Answered \in Shaped
  BY <1>3, AnsweredIs
<1>5. Exists(Answered.g) => ~refused
  <2>1. ~(Exists(Answered.g) /\ refused)
    BY <1>3, MayConfuse DEF Base
  <2> QED BY <2>1
<1>6. Answered.p \in Players /\ Answered.g \in Parties /\ Answered.p # Nobody
  BY <1>4, PartiesAssumption DEF Shaped, OnParty
<1>7. Covered'
  BY <1>1, <1>2, <1>3, <1>4, TakenCovers
<1>8. \A g \in Parties : leaderOf'[g] = IF g = Answered.g /\ Exists(g) THEN Answered.p ELSE leaderOf[g]
  BY <1>3, <1>5 DEF Base, TablesOK
<1>9. \A g \in Parties : /\ Exists(g)' => Exists(g)
                         /\ In(1, "set_leader", g) <=> g = Answered.g
                         /\ \A do \in OnParty : ~In(1, do, g)
  BY <1>4, <1>6, <1>8 DEF Exists, In, OnParty
<1>10. \A g, x : /\ ~At(1, "remove_member", g, x) /\ ~At(1, "add_member", g, x)
  BY <1>4 DEF At, Of
<1>11. RowsFollow(1)
  BY <1>3, <1>10 DEF RowsFollow
<1>12. \A g \in Parties : Exists(g) =>
         IF In(1, "set_leader", g) THEN leaderOf'[g] = pending[1].p ELSE leaderOf'[g] = leaderOf[g]
  BY <1>4, <1>8, <1>9
<1> QED BY <1>1, <1>2, <1>3, <1>7, <1>9, <1>10, <1>11, <1>12, TableKeeps

\* Nothing is left of a dissolved party.
LEMMA DissolveKeeps == ASSUME Base, Regular, Dissolve PROVE Regular'
<1>1. Base' /\ \E place, org : Taken(1, {}, place, org)
  BY DissolveSends
<1>2. PICK place, org : Taken(1, {}, place, org)
  BY <1>1
<1>3. /\ Done("dissolve")
      /\ leaderOf' = [leaderOf EXCEPT ![Answered.g] = Nobody]
      /\ members' = {m \in members : m[1] # Answered.g}
      /\ invites' = {i \in invites : i[1] # Answered.g}
      /\ UNCHANGED <<client, created, tickets>>
  BY DEF Dissolve, history
<1>4. pending[1].do = "dissolve" /\ Answered = pending[1] /\ 1 \in DOMAIN pending
  BY <1>3, AnsweredIs
<1>5. Covered'
  BY <1>1, <1>2, <1>3, <1>4, TakenCovers
<1>6. \A g \in Parties : leaderOf'[g] = IF g = Answered.g THEN Nobody ELSE leaderOf[g]
  BY <1>3 DEF Base, TablesOK
<1>7. \A g \in Parties : Exists(g)' => Exists(g) /\ g # Answered.g
  BY <1>6 DEF Exists
<1>8. \A g \in Parties, do \in OnParty : In(1, do, g) => g = Answered.g
  BY <1>4 DEF In
<1>9. \A g \in Parties, x \in Players : g # Answered.g => (<<g, x>> \in members' <=> <<g, x>> \in members)
  BY <1>3
<1>10. \A g, x : /\ ~At(1, "remove_member", g, x) /\ ~At(1, "add_member", g, x)
                 /\ ~In(1, "set_leader", g)
  BY <1>4 DEF At, Of, In
<1>11. RowsFollow(1)
  BY <1>7, <1>9, <1>10 DEF RowsFollow
<1>12. \A g \in Parties : Exists(g)' => leaderOf'[g] = leaderOf[g]
  BY <1>6, <1>7
<1> QED BY <1>1, <1>2, <1>3, <1>5, <1>7, <1>8, <1>9, <1>10, <1>11, <1>12, TableKeeps

\* Whoever finds a party empty has it dissolved.
LEMMA EmptyKeeps ==
  ASSUME Base, Base', Regular, NEW do \in {"check_empty", "transfer"}, Done(do),
         UNCHANGED <<client, tables, history>>, NEW place, NEW org, NEW j, NEW s,
         SentH(1, {}, place, org, j, s) \/ SentN(1, {}, place, org, j, s),
         s.do = "dissolve", s.g = Answered.g
  PROVE  Regular'
<1>1. pending[1].do = do /\ Answered = pending[1] /\ 1 \in DOMAIN pending
  BY AnsweredIs
<1>2. Sends(1, {}, place, org, {s})
  BY SendsOne
<1>3. /\ Follows(1, {}, place, org) /\ j \in DOMAIN pending' /\ pending'[j] = s
  BY DEF SentH, SentN, NewHigh, NewNormal
<1>4. \A i \in DOMAIN pending' : org[i] = 0 => pending'[i] = s
  BY <1>2 DEF Sends
<1>5. \A g, x : /\ ~At(1, "remove_member", g, x) /\ ~At(1, "add_member", g, x)
                /\ ~In(1, "set_leader", g)
                /\ \A ask : In(1, ask, g) => g = Answered.g
  BY <1>1 DEF At, Of, In
<1>6. RowsFollow(1)
  BY <1>5 DEF RowsFollow, tables
<1>7. \A g \in Parties : (Exists(g)' <=> Exists(g)) /\ leaderOf'[g] = leaderOf[g]
  BY DEF tables, Exists
<1>8. Covered'
  <2>1. \A g \in Parties, x \in Players : Inviting(1, {}, g, x)
    BY <1>1, NoMoreInvitations DEF tables, Of
  <2>2. Idle(1, {}, {s})
    BY <2>1 DEF Idle, history
  <2> QED BY <1>2, <2>2, IdleStep DEF Regular
<1>9. ASSUME NEW g \in Parties, NEW ask \in OnParty, In(1, ask, g),
             \A i \in DOMAIN pending : ~In(i, "remove_member", g)
      PROVE  Alive(g)'
  <2>1. In(j, "dissolve", g)'
    BY <1>3, <1>5, <1>9 DEF In
  <2>2. ASSUME NEW i \in DOMAIN pending' PROVE ~In(i, "remove_member", g)'
    <3>1. CASE org[i] = 0
      BY <1>4, <3>1 DEF In
    <3>2. CASE org[i] # 0
      BY <1>3, <1>9, <3>2, Waited
    <3> QED BY <3>1, <3>2
  <2> QED BY <1>3, <2>1, <2>2 DEF Alive, LookedAt, OnParty
<1>10. \A i \in DOMAIN pending', g \in Parties : org[i] = 0 => ~In(i, "set_leader", g)'
  BY <1>4 DEF In
<1>11. \A g \in Parties, x \in Players : Heads(g, x)' <=> Heads(g, x)
  BY DEF Heads
<1>12. \A x \in Players : client'[x].party = client[x].party
  OBVIOUS
<1> QED BY <1>2, <1>5, <1>6, <1>7, <1>8, <1>9, <1>10, <1>11, <1>12, AnswerKeeps DEF tables

\* Whoever is a member when somebody looks, and is not removed, stays.
LEMMA MemberStays ==
  ASSUME Base, Base', NEW lost, NEW place, NEW org, Follows(1, lost, place, org),
         NEW g \in Parties, NEW x \in Players, <<g, x>> \in members, members' = members,
         \A i \in DOMAIN pending : ~In(i, "remove_member", g),
         \A j \in DOMAIN pending' : org[j] = 0 => ~At(j, "remove_member", g, x)'
  PROVE  Alive(g)'
<1>1. \A j \in DOMAIN pending' : ~At(j, "remove_member", g, x)'
  <2>1. \A j \in DOMAIN pending' : org[j] # 0 => org[j] \in DOMAIN pending /\
          (At(j, "remove_member", g, x)' <=> At(org[j], "remove_member", g, x))
    BY Waited
  <2> QED BY <2>1 DEF At, Of, In
<1> QED BY <1>1 DEF Alive, Stayer

\* A party with a member lives, one without is dissolved.
LEMMA CheckKeeps == ASSUME Base, Regular, DB_CheckPartyEmpty PROVE Regular'
<1>1. Base' /\ UNCHANGED <<client, tables, history>>
  BY CheckSends
<1>2. Done("check_empty")
  BY DEF DB_CheckPartyEmpty
<1>3. pending[1].do = "check_empty" /\ Answered = pending[1] /\ 1 \in DOMAIN pending
  BY <1>2, AnsweredIs
<1>4. \A g, x : /\ ~At(1, "remove_member", g, x) /\ ~At(1, "add_member", g, x)
                /\ ~In(1, "set_leader", g)
                /\ \A do : In(1, do, g) => g = Answered.g
  BY <1>3 DEF At, Of, In
<1>5. RowsFollow(1)
  BY <1>1, <1>4 DEF RowsFollow, tables
<1>6. \A g \in Parties : (Exists(g)' <=> Exists(g)) /\ leaderOf'[g] = leaderOf[g]
  BY <1>1 DEF tables, Exists
<1>7. CASE MembersOf(Answered.g) # {} /\ \E place, org : Taken(1, {}, place, org)
  <2>1. PICK place, org : Taken(1, {}, place, org)
    BY <1>7
  <2>2. Covered'
    BY <1>1, <1>3, <2>1, TakenCovers DEF tables, history
  <2>3. ASSUME NEW g \in Parties, NEW do \in OnParty, In(1, do, g),
               \A i \in DOMAIN pending : ~In(i, "remove_member", g)
        PROVE  Alive(g)'
    <3>1. PICK x \in Players : <<g, x>> \in members
      BY <1>4, <1>7, <2>3 DEF MembersOf
    <3>2. Follows(1, {}, place, org) /\ \A j \in DOMAIN pending' : org[j] # 0
      BY <2>1 DEF Taken, Only
    <3> QED BY <1>1, <2>3, <3>1, <3>2, MemberStays DEF tables
  <2> QED BY <1>1, <1>4, <1>5, <1>6, <2>1, <2>2, <2>3, TableKeeps DEF tables
<1>8. CASE \E place, org, j :
             SentN(1, {}, place, org, j, Normal("dissolve", Answered.g, Nobody))
  <2> DEFINE s == Normal("dissolve", Answered.g, Nobody)
  <2>1. s.do = "dissolve" /\ s.g = Answered.g
    BY DEF Normal, Statement
  <2> HIDE DEF s
  <2>2. PICK place, org, j : SentN(1, {}, place, org, j, s)
    BY <1>8 DEF s
  <2> QED BY <1>1, <1>2, <2>1, <2>2, EmptyKeeps
<1> QED BY <1>7, <1>8, CheckSends

\* The heir is a member, and whoever led before is none: there was no leader in
\* memory, and there is one now at most.
LEMMA TransferKeeps == ASSUME Base, Regular, DB_TransferLeadership PROVE Regular'
<1>1. Base' /\ UNCHANGED <<tables, history>>
  BY TransferSends
<1>2. Done("transfer")
  BY DEF DB_TransferLeadership
<1>3. pending[1].do = "transfer" /\ Answered = pending[1] /\ 1 \in DOMAIN pending /\ Answered \in Shaped
  BY <1>2, AnsweredIs
<1>4. CASE /\ MembersOf(Answered.g) = {} /\ UNCHANGED client
           /\ \E place, org, j : SentH(1, {}, place, org, j, High("dissolve", Answered.g, Nobody))
  <2> DEFINE s == High("dissolve", Answered.g, Nobody)
  <2>1. s.do = "dissolve" /\ s.g = Answered.g
    BY DEF High, Statement
  <2> HIDE DEF s
  <2>2. PICK place, org, j : SentH(1, {}, place, org, j, s)
    BY <1>4 DEF s
  <2> QED BY <1>1, <1>2, <1>4, <2>1, <2>2, EmptyKeeps
<1>5. ASSUME NEW heir \in MembersOf(Answered.g),
             client' = [client EXCEPT ![heir].leader = @ \/ client[heir].party = Answered.g],
             \E place, org, j : SentH(1, {}, place, org, j, High("set_leader", Answered.g, heir))
      PROVE  Regular'
  <2>1. PICK g \in Parties : g = Answered.g
    BY <1>3 DEF Shaped, OnParty
  <2>2. heir \in Players /\ <<g, heir>> \in members
    BY <2>1 DEF MembersOf
  <2> DEFINE s == High("set_leader", g, heir)
  <2>3. s.do = "set_leader" /\ s.g = g /\ s.p = heir
    BY DEF High, Statement
  <2>4. PICK place, org, j : SentH(1, {}, place, org, j, s)
    BY <1>5, <2>1
  <2> HIDE DEF s
  <2>5. Sends(1, {}, place, org, {s})
    BY <1>1, <2>4, SendsOne
  <2>6. /\ Follows(1, {}, place, org) /\ j \in DOMAIN pending' /\ pending'[j] = s /\ Only(org, {j})
    BY <2>4 DEF SentH, NewHigh
  <2>7. \A i \in DOMAIN pending' : org[i] = 0 => i = j /\ pending'[i] = s
    BY <2>5, <2>6 DEF Sends, Only
  <2>8. \A x \in Players :
          /\ client'[x].party = client[x].party /\ client'[x].invite = client[x].invite
          /\ client'[x].leader => client[x].leader \/ (x = heir /\ client[x].party = g)
    <3>1. client \in [Players -> Clients]
      BY DEF Base, ClientsOK
    <3>2. client' = [client EXCEPT ![heir] = [client[heir] EXCEPT
                       !.leader = client[heir].leader \/ client[heir].party = g]]
      BY <1>5, <2>1, <2>2, <3>1
    <3> DEFINE b == client[heir].leader \/ client[heir].party = g
    <3>3. /\ [client[heir] EXCEPT !.leader = b].party = client[heir].party
          /\ [client[heir] EXCEPT !.leader = b].invite = client[heir].invite
          /\ [client[heir] EXCEPT !.leader = b].leader = b
      BY <2>2, <3>1 DEF Clients
    <3>4. \A x \in Players : client'[x] = IF x = heir THEN [client[heir] EXCEPT !.leader = b] ELSE client[x]
      BY <2>2, <3>1, <3>2
    <3>5. b => client[heir].leader \/ client[heir].party = g
      OBVIOUS
    <3> HIDE DEF b
    <3> QED BY <3>3, <3>4, <3>5
  <2>9. /\ \A h, x : /\ ~At(1, "remove_member", h, x) /\ ~At(1, "add_member", h, x)
                      /\ ~In(1, "set_leader", h) /\ \A do : In(1, do, h) => h = g
        /\ In(1, "transfer", g)
    BY <1>3, <2>1 DEF At, Of, In
  <2>10. /\ \A i \in DOMAIN pending : ~In(i, "set_leader", g)
         /\ \A i \in DOMAIN pending : In(i, "transfer", g) => i = 1
         /\ \A x \in Players : ~Heads(g, x)
         /\ \A x \in Players : Exists(g) /\ Holder(g, x) => Gone(g, x, 1)
    <3>1. Succession(g)
      BY DEF Regular
    <3>2. \A i \in DOMAIN pending : ~(i < 1)
      BY BaseFacts
    <3> QED BY <1>3, <2>9, <3>1, <3>2 DEF Succession
  <2>11. \A i \in DOMAIN pending' : org[i] # 0 =>
           /\ org[i] \in DOMAIN pending /\ org[i] # 1
           /\ \A do, h : In(i, do, h)' <=> In(org[i], do, h)
           /\ \A do, h, x : At(i, do, h, x)' <=> At(org[i], do, h, x)
    <3>1. \A i \in DOMAIN pending' : org[i] # 0 => org[i] > 1
      BY <1>1, <2>6, Waited
    <3> QED BY <1>1, <2>6, <3>1, Waited
  <2>12. /\ \A i \in DOMAIN pending' : In(i, "set_leader", g)' => i = j
         /\ \A i \in DOMAIN pending' : ~In(i, "transfer", g)'
    <3>1. ASSUME NEW i \in DOMAIN pending', In(i, "set_leader", g)' PROVE i = j
      BY <2>7, <2>10, <2>11, <3>1
    <3>2. ASSUME NEW i \in DOMAIN pending', In(i, "transfer", g)' PROVE FALSE
      <4>1. org[i] # 0
        BY <2>3, <2>7, <3>2 DEF In
      <4> QED BY <2>10, <2>11, <3>2, <4>1
    <3> QED BY <3>1, <3>2
  <2>13. \A x \in Players : Heads(g, x)' => x = heir
    BY <2>8, <2>10 DEF Heads
  <2>14. /\ \A h \in Parties : Exists(h)' <=> Exists(h)
         /\ \A h \in Parties : leaderOf'[h] = leaderOf[h]
         /\ members' = members
    BY <1>1 DEF tables, Exists
  <2>15. ASSUME Exists(g) PROVE leaderOf'[g] # heir /\ Out(g, leaderOf[g], j)'
    <3>1. PICK x \in Players : x = leaderOf[g]
      BY <2>15 DEF Base, TablesOK, Exists
    <3>2. Gone(g, x, 1)
      <4>1. Holder(g, x)
        BY <2>10, <3>1 DEF Holder
      <4> QED BY <2>10, <2>15, <4>1
    <3>3. /\ <<g, x>> \notin members
          /\ \A k \in DOMAIN pending : ~At(k, "add_member", g, x) /\ ~At(k, "join", g, x)
      <4>1. \A k \in DOMAIN pending : ~(k < 1)
        BY BaseFacts
      <4> QED BY <3>2, <4>1 DEF Gone, At
    <3>4. \A k \in DOMAIN pending' : ~At(k, "add_member", g, x)' /\ ~At(k, "join", g, x)'
      <4> SUFFICES ASSUME NEW k \in DOMAIN pending'
                   PROVE  ~At(k, "add_member", g, x)' /\ ~At(k, "join", g, x)'
        OBVIOUS
      <4>1. CASE org[k] = 0
        BY <2>3, <2>7, <4>1 DEF At, Of
      <4>2. CASE org[k] # 0
        BY <2>11, <3>3, <4>2
      <4> QED BY <4>1, <4>2
    <3>5. x # heir
      BY <2>2, <3>3
    <3>6. Out(g, x, j)'
      BY <2>14, <3>3, <3>4 DEF Out
    <3>7. Out(g, leaderOf[g], j)'
      BY <2>14, <3>1, <3>6 DEF Out
    <3> QED BY <2>14, <3>1, <3>5, <3>7
  <2>16. Covered'
    <3>1. \A h \in Parties, x \in Players : Inviting(1, {}, h, x)
      BY <1>1, <1>3, <2>8, NoMoreInvitations DEF tables, Of
    <3>2. Idle(1, {}, {s})
      BY <1>1, <2>3, <3>1 DEF Idle, history
    <3> QED BY <1>1, <2>5, <3>2, IdleStep DEF Regular
  <2>17. RowsFollow(1)
    BY <2>9, <2>14 DEF RowsFollow
  <2>18. ASSUME NEW h \in Parties, NEW do \in OnParty, In(1, do, h),
                \A i \in DOMAIN pending : ~In(i, "remove_member", h)
         PROVE  Alive(h)'
    <3>1. h = g
      BY <2>9, <2>18
    <3>2. \A i \in DOMAIN pending' : org[i] = 0 => ~At(i, "remove_member", g, heir)'
      BY <2>3, <2>7 DEF At, Of
    <3> QED BY <1>1, <2>2, <2>6, <2>14, <2>18, <3>1, <3>2, MemberStays
  <2>19. ASSUME NEW h \in Parties, NEW i \in DOMAIN pending', org[i] = 0, In(i, "set_leader", h)'
         PROVE  /\ \A k \in DOMAIN pending' : In(k, "set_leader", h)' => k = i
                /\ \A k \in DOMAIN pending' : ~In(k, "transfer", h)'
                /\ \A x \in Players : Heads(h, x)' => pending'[i].p = x
                /\ Exists(h)' => leaderOf'[h] # pending'[i].p /\ Out(h, leaderOf[h], i)'
    <3>1. h = g /\ i = j /\ pending'[i].p = heir
      BY <2>3, <2>7, <2>19 DEF In
    <3> QED BY <2>12, <2>13, <2>14, <2>15, <3>1
  <2>20. ASSUME NEW h \in Parties, NEW x \in Players, Heads(h, x)', ~Heads(h, x)
         PROVE  /\ \A i \in DOMAIN pending : i # 1 => ~In(i, "transfer", h)
                /\ Exists(h)' => Holder(h, x)'
                /\ \A y \in Players : Heads(h, y)' => x = y
    <3>1. x = heir /\ h = g
      BY <2>8, <2>20 DEF Heads
    <3>2. Holder(g, heir)'
      BY <2>3, <2>6 DEF Holder, In
    <3> QED BY <2>10, <2>13, <3>1, <3>2
  <2>21. \A r \in {s} : r.do \in {"dissolve", "set_leader"}
    BY <2>3
  <2> QED BY <1>1, <2>5, <2>8, <2>9, <2>14, <2>16, <2>17, <2>18, <2>19, <2>20, <2>21, AnswerKeeps
<1> QED BY <1>4, <1>5, TransferSends

\* A row that is inserted takes a ticket, and what it came from is gone.
LEMMA InsertCovers ==
  ASSUME Base, Base', Regular, NEW place, NEW org, Taken(1, {}, place, org),
         NEW g \in Parties \cup {NoParty}, NEW p \in Players, Insert(g, p),
         NEW do \in {"join", "add_member"}, At(1, do, g, p),
         \A i \in DOMAIN pending : At(i, do, g, p) => i = 1,
         \A h \in Parties, x \in Players : Inviting(1, {}, h, x)
  PROVE  Covered'
<1>1. Follows(1, {}, place, org) /\ \A j \in DOMAIN pending' : org[j] # 0
  BY DEF Taken, Only
<1>2. \A h \in Parties, x \in Players : NoneNew(org, h, x)
  BY <1>1 DEF NoneNew
<1>3. \/ /\ Exists(g) /\ tickets' = [tickets EXCEPT ![g][p] = @ - 1]
      \/ tickets' = tickets
  BY InsertTyped
<1>4. ASSUME NEW h \in Parties, NEW x \in Players, ~(h = g /\ x = p)
      PROVE  tickets'[h][x] >= tickets[h][x]
  <2>1. tickets \in [Parties -> [Players -> Int]]
    BY DEF Base, CountsOK
  <2>2. CASE Exists(g) /\ tickets' = [tickets EXCEPT ![g][p] = @ - 1]
    <3>1. tickets'[h][x] = tickets[h][x]
      BY <1>4, <2>1, <2>2
    <3> QED BY <2>1, <3>1
  <2>3. CASE tickets' = tickets
    BY <2>1, <2>3
  <2> QED BY <1>3, <2>2, <2>3
<1>5. ASSUME g \in Parties PROVE tickets'[g][p] >= Owed(g, p)'
  <2>1. \A j \in DOMAIN pending' : ~At(j, do, g, p)'
    <3>1. \A j \in DOMAIN pending' : /\ org[j] \in DOMAIN pending /\ org[j] > 1
                                     /\ At(j, do, g, p)' => At(org[j], do, g, p)
      BY <1>1, Waited
    <3>2. \A j \in DOMAIN pending' : org[j] # 1
      BY <3>1
    <3> QED BY <3>1, <3>2
  <2>2. /\ Joins(g, p)' => Joins(g, p) /\ do # "join"
        /\ Adds(g, p)' => Adds(g, p) /\ do # "add_member"
        /\ Claim(g, p)' => Claim(g, p)
    <3>1. (Joins(g, p)' => Joins(g, p)) /\ (Adds(g, p)' => Adds(g, p)) /\ (Claim(g, p)' => Claim(g, p))
      BY <1>1, <1>2, <1>5, OwedKept
    <3>2. do = "join" => ~Joins(g, p)'
      BY <2>1 DEF Joins
    <3>3. do = "add_member" => ~Adds(g, p)'
      BY <2>1 DEF Adds
    <3> QED BY <3>1, <3>2, <3>3
  <2>3. /\ do = "join" => Joins(g, p)
        /\ do = "add_member" => Adds(g, p)
    BY DEF Joins, Adds, At, Of
  <2>4. /\ tickets[g][p] \in Int
        /\ tickets[g][p] >= One(Joins(g, p)) + One(Adds(g, p)) + One(Claim(g, p))
    BY <1>5, CoveredIs DEF Regular
  <2>5. Owed(g, p)' = One(Joins(g, p))' + One(Adds(g, p))' + One(Claim(g, p))'
    BY DEF Owed
  <2>6. /\ One(Joins(g, p)) \in {0, 1} /\ One(Adds(g, p)) \in {0, 1} /\ One(Claim(g, p)) \in {0, 1}
        /\ One(Joins(g, p))' \in {0, 1} /\ One(Adds(g, p))' \in {0, 1} /\ One(Claim(g, p))' \in {0, 1}
        /\ One(Joins(g, p))' <= One(Joins(g, p)) /\ One(Adds(g, p))' <= One(Adds(g, p))
        /\ One(Claim(g, p))' <= One(Claim(g, p))
        /\ do = "join" => One(Joins(g, p)) = 1 /\ One(Joins(g, p))' = 0
        /\ do = "add_member" => One(Adds(g, p)) = 1 /\ One(Adds(g, p))' = 0
    BY <2>2, <2>3 DEF One
  <2>7. tickets'[g][p] >= tickets[g][p] - 1
    <3>1. tickets \in [Parties -> [Players -> Int]]
      BY DEF Base, CountsOK
    <3>2. CASE tickets' = [tickets EXCEPT ![g][p] = @ - 1]
      <4>1. tickets'[g][p] = tickets[g][p] - 1
        BY <1>5, <3>1, <3>2
      <4> QED BY <2>4, <4>1
    <3>3. CASE tickets' = tickets
      BY <2>4, <3>3
    <3> QED BY <1>3, <3>2, <3>3
  <2>8. tickets'[g][p] \in Int
    BY <1>5 DEF Base, CountsOK
  <2>9. CASE do = "join"
    BY <2>4, <2>5, <2>6, <2>7, <2>8, <2>9
  <2>10. CASE do = "add_member"
    BY <2>4, <2>5, <2>6, <2>7, <2>8, <2>10
  <2> QED BY <2>9, <2>10
<1>6. \A h \in Parties, x \in Players :
        \/ NoneNew(org, h, x) /\ Inviting(1, {}, h, x) /\ tickets'[h][x] >= tickets[h][x]
        \/ tickets'[h][x] >= Owed(h, x)'
  <2> SUFFICES ASSUME NEW h \in Parties, NEW x \in Players
               PROVE  \/ NoneNew(org, h, x) /\ Inviting(1, {}, h, x) /\ tickets'[h][x] >= tickets[h][x]
                      \/ tickets'[h][x] >= Owed(h, x)'
    OBVIOUS
  <2>1. CASE h = g /\ x = p
    BY <1>5, <2>1
  <2>2. CASE ~(h = g /\ x = p)
    BY <1>2, <1>4, <2>2
  <2> QED BY <2>1, <2>2
<1> QED BY <1>1, <1>6, CoveredStep DEF Regular

\* The rows after an insertion.
LEMMA InsertFollows ==
  ASSUME Base, NEW g, NEW p \in Players, Insert(g, p),
         NEW do \in {"join", "add_member"}, At(1, do, g, p)
  PROVE  /\ RowsFollow(1)
         /\ leaderOf' = leaderOf
         /\ \A h \in Parties : Exists(h)' <=> Exists(h)
         /\ Exists(g) => <<g, p>> \in members'
         /\ \A h \in Parties, x \in Players : <<h, x>> \in members' =>
              /\ <<h, x>> \in members \/ At(1, "add_member", h, x) \/ At(1, "join", h, x)
              /\ ~At(1, "remove_member", h, x)
<1>1. /\ leaderOf' = leaderOf
      /\ \/ Exists(g) /\ members' = members \cup {<<g, p>>}
         \/ ~(Exists(g) /\ <<g, p>> \notin members) /\ members' = members
  BY InsertTyped
<1>2. Exists(g) => <<g, p>> \in members'
  BY <1>1
<1>3. members \subseteq members' /\ members' \subseteq members \cup {<<g, p>>}
  BY <1>1
<1>4. /\ pending[1].do = do /\ pending[1].g = g /\ pending[1].p = p
      /\ \A h, x : ~At(1, "remove_member", h, x)
      /\ \A h, x : At(1, "add_member", h, x) => h = g /\ x = p
      /\ At(1, "add_member", g, p) \/ At(1, "join", g, p)
  BY DEF At, Of
<1>5. \A h : Exists(h)' <=> Exists(h)
  BY <1>1 DEF Exists
<1>6. RowsFollow(1)
  BY <1>2, <1>3, <1>4, <1>5 DEF RowsFollow
<1> QED BY <1>1, <1>2, <1>3, <1>4, <1>5, <1>6

\* The founder's row.
LEMMA AddMemberKeeps == ASSUME Base, Regular, AddMember PROVE Regular'
<1>1. /\ Base' /\ Answered.p \in Players /\ Insert(Answered.g, Answered.p) /\ UNCHANGED client
      /\ \E place, org : Taken(1, {}, place, org)
  BY AddMemberSends
<1>2. PICK place, org : Taken(1, {}, place, org)
  BY <1>1
<1>3. Done("add_member")
  BY DEF AddMember
<1>4. pending[1].do = "add_member" /\ Answered = pending[1] /\ 1 \in DOMAIN pending /\ Answered \in Shaped
  BY <1>3, AnsweredIs
<1>5. PICK g \in Parties : g = Answered.g
  BY <1>4 DEF Shaped, OnParty
<1>6. PICK p \in Players : p = Answered.p
  BY <1>1
<1>7. At(1, "add_member", g, p) /\ Insert(g, p)
  BY <1>1, <1>4, <1>5, <1>6 DEF At, Of
<1>8. \A i \in DOMAIN pending : At(i, "add_member", g, p) => i = 1
  BY <1>4, <1>5 DEF Base, ListOK, At, Of
<1>9. \A h \in Parties, x \in Players : Inviting(1, {}, h, x)
  <2>1. invites' = invites
    BY <1>7, InsertTyped
  <2>2. ~\E x \in Players : Of(1, "join", x)
    BY <1>4 DEF Of
  <2> QED BY <1>1, <1>4, <2>1, <2>2, NoMoreInvitations
<1>10. Covered'
  BY <1>1, <1>2, <1>7, <1>8, <1>9, InsertCovers
<1>11. \A h : /\ ~In(1, "set_leader", h)
              /\ \A do \in OnParty : ~In(1, do, h)
  BY <1>4 DEF In, OnParty
<1>12. /\ RowsFollow(1) /\ leaderOf' = leaderOf
       /\ \A h \in Parties : Exists(h)' <=> Exists(h)
       /\ \A h \in Parties, x \in Players : <<h, x>> \in members' =>
            /\ <<h, x>> \in members \/ At(1, "add_member", h, x) \/ At(1, "join", h, x)
            /\ ~At(1, "remove_member", h, x)
  BY <1>7, InsertFollows
<1> QED BY <1>1, <1>2, <1>10, <1>11, <1>12, TableKeeps

\* Whoever has joined was in no party, has nothing else under way that would remove
\* him, and leads nothing.
LEMMA JoinedKeeps == ASSUME Base, Regular, DB_AcceptJoined PROVE Regular'
<1>1. /\ Base' /\ Answered.p \in Players /\ Insert(Answered.g, Answered.p)
      /\ client' = IF Answered.known
           THEN [client EXCEPT ![Answered.p] = [Online EXCEPT !.party = Answered.g]] ELSE client
      /\ \E place, org : Taken(1, {}, place, org)
  BY JoinedSends
<1>2. PICK place, org : Taken(1, {}, place, org)
  BY <1>1
<1>3. Done("join")
  BY DEF DB_AcceptJoined
<1>4. pending[1].do = "join" /\ Answered = pending[1] /\ 1 \in DOMAIN pending /\ Answered \in Shaped
  BY <1>3, AnsweredIs
<1>5. PICK g \in Parties \cup {NoParty} : g = Answered.g
  BY <1>4 DEF Shaped, Statements
<1>6. PICK p \in Players : p = Answered.p
  BY <1>1
<1>7. At(1, "join", g, p) /\ Of(1, "join", p) /\ Insert(g, p)
  BY <1>1, <1>4, <1>5, <1>6 DEF At, Of
<1>8. /\ \A i \in DOMAIN pending : Of(i, "join", p) => i = 1
      /\ \A i \in DOMAIN pending : ~Of(i, "remove_member", p)
      /\ pending[1].known => \A i \in DOMAIN pending : Admits(i, p) => i = 1
  <2>1. Joining
    BY DEF Regular
  <2>2. \A i \in DOMAIN pending : Of(i, "join", p) => i = 1
    BY <1>4, <1>7, <2>1 DEF Joining
  <2>3. \A i \in DOMAIN pending : Of(i, "remove_member", p) => i < 1
    BY <1>4, <1>7, <2>1 DEF Joining
  <2>4. pending[1].known => Admits(1, p)
    BY <1>7 DEF Admits
  <2>5. pending[1].known => \A i \in DOMAIN pending : Admits(i, p) => i = 1
    BY <1>4, <2>1, <2>4 DEF Joining
  <2>6. \A i \in DOMAIN pending : ~(i < 1)
    BY BaseFacts
  <2> QED BY <2>2, <2>3, <2>5, <2>6
<1>9. \A x \in Players :
        IF x = p /\ pending[1].known
          THEN client'[x].party = g /\ client'[x].leader = FALSE /\ client'[x].invite = NoParty
          ELSE client'[x] = client[x]
  <2>1. client' = IF pending[1].known THEN [client EXCEPT ![p] = [Online EXCEPT !.party = g]] ELSE client
    BY <1>1, <1>4, <1>5, <1>6
  <2>2. LET c == [Online EXCEPT !.party = g] IN
          c.party = g /\ c.leader = FALSE /\ c.invite = NoParty
    BY DEF Online, Offline
  <2>3. client \in [Players -> Clients]
    BY DEF Base, ClientsOK
  <2> QED BY <2>1, <2>2, <2>3
<1>10. \A h \in Parties, x \in Players : Inviting(1, {}, h, x)
  <2> SUFFICES ASSUME NEW h \in Parties, NEW x \in Players
               PROVE  /\ client'[x].invite = h =>
                         /\ client[x].invite = h
                         /\ ~(Of(1, "join", x) /\ pending[1].known)
                      /\ ~At(1, "remove_invite", h, x)
                      /\ invites' = invites
    BY DEF Inviting
  <2>1. invites' = invites
    BY <1>7, InsertTyped
  <2>2. ~At(1, "remove_invite", h, x)
    BY <1>4 DEF At, Of
  <2>3. Of(1, "join", x) => x = p
    BY <1>4, <1>6 DEF Of
  <2>4. h # NoParty
    BY PartyNumbers
  <2> QED BY <1>9, <2>1, <2>2, <2>3, <2>4
<1>11. Covered'
  <2>1. \A i \in DOMAIN pending : At(i, "join", g, p) => i = 1
    BY <1>8 DEF At
  <2> QED BY <1>1, <1>2, <1>7, <1>10, <2>1, InsertCovers
<1>12. /\ RowsFollow(1) /\ leaderOf' = leaderOf /\ (Exists(g) => <<g, p>> \in members')
       /\ \A h \in Parties : Exists(h)' <=> Exists(h)
       /\ \A h \in Parties, x \in Players : <<h, x>> \in members' =>
            /\ <<h, x>> \in members \/ At(1, "add_member", h, x) \/ At(1, "join", h, x)
            /\ ~At(1, "remove_member", h, x)
  BY <1>7, InsertFollows
<1>13. \A h : /\ ~In(1, "set_leader", h)
              /\ \A do \in OnParty : ~In(1, do, h)
  BY <1>4 DEF In, OnParty
<1>14. Sends(1, {}, place, org, {}) /\ \A j \in DOMAIN pending' : org[j] # 0
  BY <1>2, SendsNothing DEF Taken, Only
<1>15. \A x \in Players : client'[x].party # NoParty /\ client[x].party = NoParty =>
         \A i \in DOMAIN pending : i # 1 => ~Admits(i, x) /\ ~Of(i, "join", x)
  BY <1>8, <1>9
<1>16. ASSUME NEW h \in Parties, NEW x \in Players,
              client'[x].party = h, client[x].party # h, Exists(h)'
       PROVE  /\ <<h, x>> \in members'
              /\ \A i \in DOMAIN pending : i # 1 => ~At(i, "remove_member", h, x)
  <2>1. x = p /\ h = g
    BY <1>9, <1>16
  <2>2. \A i \in DOMAIN pending : ~At(i, "remove_member", h, x)
    BY <1>8, <2>1 DEF At
  <2> QED BY <1>12, <1>16, <2>1, <2>2
<1>17. \A h \in Parties, x \in Players : Heads(h, x)' => Heads(h, x)
  BY <1>9 DEF Heads
<1> QED BY <1>1, <1>11, <1>12, <1>13, <1>14, <1>15, <1>16, <1>17, AnswerKeeps

\* The tables say who leads; a member has lost the party neither in memory nor in a
\* succession under way, so the client who is told that he leads is the only one.
LEMMA LoadPartyKeeps == ASSUME Base, Regular, DB_LoadPartyState, ~confused' PROVE Regular'
<1>1. Base' /\ \E place, org : Taken(1, {}, place, org)
  BY LoadPartySends
<1>2. PICK place, org : Taken(1, {}, place, org)
  BY <1>1
<1>3. Done("load_party") /\ UNCHANGED tables
  BY DEF DB_LoadPartyState
<1>4. /\ pending[1].do = "load_party" /\ Answered = pending[1] /\ 1 \in DOMAIN pending
      /\ Present(client, Answered)
  BY <1>3, AnsweredIs
<1>5. CASE UNCHANGED <<client, history>>
  BY <1>1, <1>3, <1>5, ClearKeeps DEF history
<1>6. CASE /\ Answered.known /\ Overtaken(Answered.p)
           /\ \E g \in Parties :
                /\ <<g, Answered.p>> \in members
                /\ client' = [client EXCEPT ![Answered.p].party = g,
                                            ![Answered.p].leader = (leaderOf[g] = Answered.p)]
  <2>1. PICK p \in Players : p = Answered.p
    BY <1>4, <1>6 DEF Present
  <2>2. PICK g \in Parties :
          /\ <<g, p>> \in members
          /\ client' = [client EXCEPT ![p].party = g, ![p].leader = (leaderOf[g] = p)]
    BY <1>6, <2>1
  <2>3. ~HasActed(p) /\ tickets' = tickets
    BY <1>1, <1>6, <2>1, MayConfuse DEF Overtaken, Base
  <2>4. \A i \in DOMAIN pending : pending[i].p = p =>
          pending[i].do \in {"load_party", "load_invite", "check_invite"}
    BY <2>3 DEF HasActed
  <2>5. \A i \in DOMAIN pending : /\ ~Admits(i, p) /\ ~Of(i, "join", p)
                                  /\ \A h : ~At(i, "remove_member", h, p)
    BY <2>4 DEF Admits, Of, At
  <2>6. \A x \in Players :
          IF x = p THEN /\ client'[x].party = g /\ client'[x].leader = (leaderOf[g] = p)
                        /\ client'[x].invite = client[x].invite
                   ELSE client'[x] = client[x]
    <3>1. client \in [Players -> Clients]
      BY DEF Base, ClientsOK
    <3> DEFINE b == (leaderOf[g] = p)
               c == [client[p] EXCEPT !.party = g, !.leader = b]
    <3>2. client' = [client EXCEPT ![p] = c]
      BY <2>2, <3>1
    <3>3. c.party = g /\ c.leader = b /\ c.invite = client[p].invite
      BY <3>1 DEF Clients
    <3> HIDE DEF c
    <3> QED BY <3>1, <3>2, <3>3
  <2>7. Exists(g)
    <3>1. Exists(<<g, p>>[1])
      BY <2>2 DEF Base, TablesOK
    <3> QED BY <3>1
  <2>8. /\ members' = members /\ invites' = invites
        /\ \A h \in Parties : leaderOf'[h] = leaderOf[h] /\ (Exists(h)' <=> Exists(h))
    BY <1>3 DEF tables, Exists
  <2>9. \A h : /\ ~In(1, "set_leader", h)
               /\ \A do \in OnParty : ~In(1, do, h)
               /\ \A x : ~At(1, "remove_member", h, x) /\ ~At(1, "add_member", h, x)
    BY <1>4 DEF In, At, Of, OnParty
  <2>10. RowsFollow(1)
    BY <2>8, <2>9 DEF RowsFollow
  <2>11. Sends(1, {}, place, org, {}) /\ Follows(1, {}, place, org)
         /\ \A j \in DOMAIN pending' : org[j] # 0
    BY <1>2, SendsNothing DEF Taken, Only
  <2>12. Covered'
    <3>1. ~\E x \in Players : Of(1, "join", x)
      BY <1>4 DEF Of
    <3>2. \A h \in Parties, x \in Players : Inviting(1, {}, h, x)
      BY <1>4, <2>6, <2>8, <3>1, NoMoreInvitations
    <3>3. Idle(1, {}, {})
      BY <2>3, <3>2 DEF Idle
    <3> QED BY <1>1, <2>11, <3>3, IdleStep DEF Regular
  <2>13. ASSUME leaderOf[g] = p
         PROVE  /\ \A i \in DOMAIN pending : ~In(i, "transfer", g)
                /\ Holder(g, p)'
                /\ \A y \in Players : Heads(g, y)' => y = p
    <3>1. Succession(g)
      BY DEF Regular
    <3>2. \A i \in DOMAIN pending : ~In(i, "set_leader", g)
      <4>1. ASSUME NEW i \in DOMAIN pending, In(i, "set_leader", g) PROVE FALSE
        <5>1. Out(g, leaderOf[g], i)
          BY <2>7, <3>1, <4>1 DEF Succession
        <5> QED BY <2>2, <2>13, <5>1 DEF Out
      <4> QED BY <4>1
    <3>3. Holder(g, p)
      BY <2>13, <3>2 DEF Holder
    <3>4. \A i \in DOMAIN pending : ~In(i, "transfer", g)
      <4>1. ASSUME NEW i \in DOMAIN pending, In(i, "transfer", g) PROVE FALSE
        <5>1. Gone(g, p, i)
          BY <2>7, <3>1, <3>3, <4>1 DEF Succession
        <5> QED BY <2>2, <2>5, <5>1 DEF Gone
      <4> QED BY <4>1
    <3>5. Holder(g, p)'
      <4>1. \A j \in DOMAIN pending' : org[j] \in DOMAIN pending
                                       /\ (In(j, "set_leader", g)' <=> In(org[j], "set_leader", g))
        BY <1>1, <2>11, Waited
      <4>2. \A j \in DOMAIN pending' : ~In(j, "set_leader", g)'
        BY <3>2, <4>1
      <4> QED BY <2>8, <2>13, <4>2 DEF Holder
    <3>6. ASSUME NEW y \in Players, Heads(g, y)', y # p PROVE FALSE
      <4>1. Heads(g, y)
        BY <2>6, <3>6 DEF Heads
      <4>2. Holder(g, y)
        BY <2>7, <3>1, <4>1 DEF Succession
      <4>3. leaderOf[g] = y
        BY <3>2, <4>2 DEF Holder
      <4> QED BY <2>13, <3>6, <4>3
    <3> QED BY <3>4, <3>5, <3>6
  <2>14. ASSUME NEW h \in Parties, NEW x \in Players, Heads(h, x)', ~Heads(h, x)
         PROVE  /\ \A i \in DOMAIN pending : i # 1 => ~In(i, "transfer", h)
                /\ Exists(h)' => Holder(h, x)'
                /\ \A y \in Players : Heads(h, y)' => x = y
    <3>1. x = p /\ h = g /\ leaderOf[g] = p
      BY <2>6, <2>14 DEF Heads
    <3> QED BY <2>13, <3>1
  <2>15. \A x \in Players : client'[x].party # NoParty /\ client[x].party = NoParty =>
           \A i \in DOMAIN pending : i # 1 => ~Admits(i, x) /\ ~Of(i, "join", x)
    BY <2>5, <2>6
  <2>16. \A h \in Parties, x \in Players :
           client'[x].party = h /\ client[x].party # h /\ Exists(h)' =>
             /\ <<h, x>> \in members'
             /\ \A i \in DOMAIN pending : i # 1 => ~At(i, "remove_member", h, x)
    BY <2>2, <2>5, <2>6, <2>8
  <2>17. \A h \in Parties, x \in Players : <<h, x>> \in members' =>
           <<h, x>> \in members /\ ~At(1, "remove_member", h, x)
    BY <2>8, <2>9
  <2>18. \A h \in Parties :
           (Exists(h)' => Exists(h)) /\ leaderOf'[h] = leaderOf[h] /\ ~In(1, "set_leader", h)
    BY <2>8, <2>9
  <2>19. \A h \in Parties, do \in OnParty : ~In(1, do, h)
    BY <2>9
  <2> QED BY <1>1, <2>10, <2>11, <2>12, <2>14, <2>15, <2>16, <2>17, <2>18, <2>19, AnswerKeeps
<1> DEFINE mine == {g \in Parties : <<g, Answered.p>> \in members}
<1>7. \/ /\ Answered.known /\ Overtaken(Answered.p)
         /\ \E g \in mine : client' = [client EXCEPT
              ![Answered.p].party = g, ![Answered.p].leader = (leaderOf[g] = Answered.p)]
      \/ UNCHANGED <<client, history>>
  BY DEF DB_LoadPartyState
<1>8. \A g \in mine : g \in Parties /\ <<g, Answered.p>> \in members
  OBVIOUS
<1> HIDE DEF mine
<1> QED BY <1>5, <1>6, <1>7, <1>8

\* p is no longer in g, and his row is to be removed.
Removing(p, g, lost, new) ==
  /\ client[p].party = g /\ lost \in {{}, {p}}
  /\ \A s \in new : s.do \in {"remove_member", "transfer", "check_empty"}
  /\ \A s \in new : s.do = "remove_member" => s.g = g /\ s.p = p
  /\ \A x \in Players : x # p => client'[x] = client[x]
  /\ client'[p].party = NoParty /\ client'[p].leader = FALSE
  /\ client'[p].invite = NoParty \/ (lost = {} /\ client'[p].invite = client[p].invite)
  /\ UNCHANGED <<tables, history>>

\* A succession that begins is the only one, and whoever holds the party is gone.
Handing(org, h) ==
  \A j \in DOMAIN pending' : org[j] = 0 /\ In(j, "transfer", h)' =>
    /\ \A i \in DOMAIN pending' : In(i, "transfer", h)' => i = j
    /\ \A i \in DOMAIN pending' : In(i, "set_leader", h)' => i < j
    /\ \A x \in Players : ~Heads(h, x)'
    /\ \A x \in Players : Exists(h)' /\ Holder(h, x)' => Gone(h, x, j)'

\* A player is taken out of his party in memory, and his row is sent for.
LEMMA RemovalStep ==
  ASSUME Base, Base', Regular, NEW p \in Players, NEW g \in Parties,
         NEW lost, NEW place, NEW org, NEW new, Sends(0, lost, place, org, new),
         Removing(p, g, lost, new), Exists(g) => Alive(g)',
         \A h \in Parties : Handing(org, h)
  PROVE  Regular'
<1>0. /\ client[p].party = g /\ lost \in {{}, {p}}
      /\ \A s \in new : s.do \in {"remove_member", "transfer", "check_empty"}
      /\ \A s \in new : s.do = "remove_member" => s.g = g /\ s.p = p
      /\ \A x \in Players : x # p => client'[x] = client[x]
      /\ client'[p].party = NoParty /\ client'[p].leader = FALSE
      /\ client'[p].invite = NoParty \/ (lost = {} /\ client'[p].invite = client[p].invite)
      /\ UNCHANGED <<tables, history>>
  BY DEF Removing
<1>1. Follows(0, lost, place, org) /\ Fresh(org)
  BY DEF Sends
<1>2. \A j \in DOMAIN pending' : org[j] = 0 =>
        /\ pending'[j].do \in {"remove_member", "transfer", "check_empty"}
        /\ pending'[j].do = "remove_member" => pending'[j].g = g /\ pending'[j].p = p
  BY <1>0 DEF Sends
<1>3. \A j \in DOMAIN pending' : org[j] = 0 =>
        /\ \A x : /\ ~Of(j, "verify", x)' /\ ~Of(j, "join", x)' /\ ~Of(j, "found", x)'
                  /\ Of(j, "remove_member", x)' => x = p
        /\ \A h : ~In(j, "set_leader", h)'
        /\ \A h, x : /\ ~At(j, "add_member", h, x)'
                     /\ At(j, "remove_member", h, x)' => h = g /\ x = p
  BY <1>2 DEF Of, In, At
<1>4. g # NoParty
  BY PartyNumbers
<1>5. \A j \in DOMAIN pending' : ~Of(j, "join", p)'
  <2> SUFFICES ASSUME NEW j \in DOMAIN pending', Of(j, "join", p)' PROVE FALSE
    OBVIOUS
  <2>1. org[j] # 0
    BY <1>3
  <2>2. org[j] \in DOMAIN pending /\ Of(org[j], "join", p)
    BY <1>1, <2>1, Waited
  <2> QED BY <1>0, <1>4, <2>2 DEF Regular, Joining
<1>6. \A h : /\ Exists(h)' <=> Exists(h)
             /\ leaderOf'[h] = leaderOf[h]
  BY <1>0 DEF tables, Exists
<1>7. Entering(0, org)
  BY <1>0, <1>3 DEF Entering, tables
<1>8. \A x \in Players, h \in Parties : client'[x].party = h => client[x].party = h /\ x # p
  BY <1>0, <1>4, PartyNumbers
<1>9. Admitting(org)
  <2>1. \A x \in Players : client'[x].party # NoParty => client[x].party # NoParty
    BY <1>0, <1>4
  <2> QED BY <1>3, <1>5, <2>1 DEF Admitting
<1>10. Populating(0, org)
  <2>1. RowsFollow(0)
    BY <1>0 DEF RowsFollow, tables
  <2> QED BY <1>0, <1>3, <1>6, <1>8, <2>1 DEF Populating
<1>11. ASSUME NEW h \in Parties PROVE Succeeding(0, org, h)
  <2>1. \A x \in Players : Heads(h, x)' => Heads(h, x)
    BY <1>0, <1>8 DEF Heads
  <2> QED BY <1>3, <1>6, <2>1 DEF Succeeding, Handing
<1>12. Covered'
  <2>1. \A x \in Players : client'[x].invite = client[x].invite \/ client'[x].invite = NoParty
    BY <1>0
  <2>2. \A x \in Players \cap lost : client'[x].invite = NoParty
    <3>1. CASE lost = {}
      BY <1>0, <3>1
    <3>2. CASE lost = {p}
      <4>1. p \in lost
        BY <3>2
      <4>2. lost # {}
        BY <4>1
      <4>3. client'[p].invite = NoParty
        BY <1>0, <4>2
      <4> QED BY <1>0, <3>2, <4>3
    <3> QED BY <1>0, <3>1, <3>2
  <2>3. \A h \in Parties, x \in Players : Inviting(0, lost, h, x)
    BY <2>1, <2>2, <1>0, NoMoreInvitations DEF tables
  <2>4. \A s \in new : s.do \notin {"join", "add_member", "add_invite"}
    BY <1>0
  <2>5. Idle(0, lost, new)
    BY <1>0, <2>3, <2>4 DEF Idle, history
  <2> QED BY <2>5, IdleStep DEF Regular
<1> QED BY <1>7, <1>9, <1>10, <1>11, <1>12, RegularStep

\* The kicker stays.
LEMMA KickKeeps ==
  ASSUME Base, Regular, NEW p \in Players, NEW q \in Players, Party_Kick(p, q) PROVE Regular'
<1>1. /\ Base' /\ UNCHANGED <<tables, history>> /\ p # q
      /\ client[p].party \in Parties /\ client[q].party = client[p].party
      /\ client' = [client EXCEPT ![q].party = NoParty, ![q].leader = FALSE]
      /\ \E place, org, j : SentH(0, {}, place, org, j, High("remove_member", client[p].party, q))
  BY KickSends
<1>2. PICK g \in Parties : g = client[p].party
  BY <1>1
<1> DEFINE s == High("remove_member", g, q)
<1>3. s.do = "remove_member" /\ s.g = g /\ s.p = q
  BY DEF High, Statement
<1>4. PICK place, org, j : SentH(0, {}, place, org, j, s)
  BY <1>1, <1>2
<1> HIDE DEF s
<1>5. Sends(0, {}, place, org, {s}) /\ Follows(0, {}, place, org)
  BY <1>1, <1>4, SendsOne DEF Sends
<1>6. \A i \in DOMAIN pending' : org[i] = 0 => pending'[i] = s
  BY <1>5 DEF Sends
<1>7. /\ \A x \in Players : x # q => client'[x] = client[x]
      /\ client'[q].party = NoParty /\ client'[q].leader = FALSE
      /\ client'[q].invite = client[q].invite
  <2>1. client \in [Players -> Clients]
    BY DEF Base, ClientsOK
  <2> DEFINE c == [client[q] EXCEPT !.party = NoParty, !.leader = FALSE]
  <2>2. client' = [client EXCEPT ![q] = c]
    BY <1>1, <2>1
  <2>3. c.party = NoParty /\ c.leader = FALSE /\ c.invite = client[q].invite
    BY <2>1 DEF Clients
  <2> HIDE DEF c
  <2> QED BY <2>1, <2>2, <2>3
<1>8. ASSUME Exists(g) PROVE Alive(g)'
  <2>1. Stayer(g, p)
    BY <1>2, <1>8 DEF Regular, Membership
  <2>2. RowsFollow(0)
    BY <1>1 DEF RowsFollow, tables
  <2>3. \A i \in DOMAIN pending' : org[i] = 0 => ~At(i, "remove_member", g, p)'
    BY <1>1, <1>3, <1>6 DEF At, Of
  <2>4. Exists(g)'
    BY <1>1, <1>8 DEF tables, Exists
  <2>5. Stayer(g, p)'
    BY <1>1, <1>5, <2>1, <2>2, <2>3, <2>4, StayerKept
  <2> QED BY <2>5 DEF Alive
<1>9. \A h \in Parties : Handing(org, h)
  BY <1>3, <1>6 DEF In, Handing
<1>10. Removing(q, g, {}, {s})
  BY <1>1, <1>2, <1>3, <1>7 DEF Removing
<1> QED BY <1>1, <1>5, <1>8, <1>9, <1>10, RemovalStep

\* p leaves g: his row is removed, and behind that somebody looks after the party.
Parting(p, g, org, j, s, k, t) ==
  /\ j \in DOMAIN pending' /\ k \in DOMAIN pending' /\ org[j] = 0 /\ org[k] = 0
  /\ pending'[j] = s /\ pending'[k] = t /\ j < k /\ Only(org, {j, k})
  /\ s.do = "remove_member" /\ s.g = g /\ s.p = p
  /\ t.do \in {"transfer", "check_empty"} /\ t.g = g
  /\ t.do = "transfer" => client[p].leader

\* Whoever held the party is the one who leaves, and he has no accept under way.
LEMMA PartingGone ==
  ASSUME Base, Base', Regular, NEW p \in Players, NEW g \in Parties,
         NEW lost, NEW place, NEW org, NEW new, Sends(0, lost, place, org, new),
         NEW j, NEW s, NEW k, NEW t, Parting(p, g, org, j, s, k, t),
         client[p].party = g, members' = members
  PROVE  Gone(g, p, k)'
<1>1. Follows(0, lost, place, org) /\ Fresh(org)
  BY DEF Sends
<1>2. /\ j \in DOMAIN pending' /\ org[j] = 0 /\ pending'[j] = s /\ j < k
      /\ s.do = "remove_member" /\ s.g = g /\ s.p = p
      /\ t.do \in {"transfer", "check_empty"}
      /\ \A i \in DOMAIN pending' : org[i] = 0 => pending'[i] \in {s, t}
  BY DEF Parting, Only
<1>3. g # NoParty
  BY PartyNumbers
<1>4. At(j, "remove_member", g, p)'
  BY <1>2 DEF At, Of
<1>5. \A i \in DOMAIN pending' : org[i] = 0 =>
        ~Of(i, "add_member", p)' /\ ~Of(i, "join", p)' /\ ~Of(i, "verify", p)'
  BY <1>2 DEF Of
<1>6. ASSUME NEW i \in DOMAIN pending', At(i, "add_member", g, p)' PROVE i < j
  <2>1. org[i] # 0 /\ pending'[i].do \in HighKinds
    BY <1>5, <1>6 DEF At, Of, HighKinds
  <2> QED BY <1>1, <1>2, <2>1 DEF Fresh
<1>7. ASSUME NEW i \in DOMAIN pending', Of(i, "join", p)' PROVE FALSE
  <2>1. org[i] # 0
    BY <1>5, <1>7
  <2>2. org[i] \in DOMAIN pending /\ Of(org[i], "join", p)
    BY <1>1, <1>7, <2>1, Waited
  <2> QED BY <1>3, <2>2 DEF Regular, Joining
<1>8. ASSUME NEW i \in DOMAIN pending', Of(i, "verify", p)', pending'[i].known PROVE FALSE
  <2>1. org[i] # 0
    BY <1>5, <1>8
  <2>2. Admits(i, p)'
    BY <1>8 DEF Admits
  <2>3. org[i] \in DOMAIN pending /\ Admits(org[i], p)
    BY <1>1, <2>1, <2>2, Waited
  <2> QED BY <1>3, <2>3 DEF Regular, Joining
<1> QED BY <1>2, <1>4, <1>6, <1>7, <1>8 DEF Gone

\* When a leader leaves, no succession of the party waits, and he was its holder.
LEMMA PartingHands ==
  ASSUME Base, Base', Regular, NEW p \in Players, NEW g \in Parties,
         NEW lost, NEW place, NEW org, NEW new, Sends(0, lost, place, org, new),
         NEW j, NEW s, NEW k, NEW t, Parting(p, g, org, j, s, k, t), Removing(p, g, lost, new)
  PROVE  \A h \in Parties : Handing(org, h)
<1>1. Follows(0, lost, place, org) /\ Fresh(org)
  BY DEF Sends
<1>2. /\ k \in DOMAIN pending' /\ org[k] = 0 /\ pending'[k] = t
      /\ pending'[j] = s /\ s.do = "remove_member" /\ t.g = g
      /\ t.do \in {"transfer", "check_empty"}
      /\ t.do = "transfer" => client[p].leader
      /\ \A i \in DOMAIN pending' : org[i] = 0 => i \in {j, k}
  BY DEF Parting, Only
<1>3. /\ client[p].party = g
      /\ \A x \in Players : x # p => client'[x] = client[x]
      /\ client'[p].leader = FALSE
      /\ UNCHANGED <<leaderOf, members>>
  BY DEF Removing, tables
<1>4. Succession(g)
  BY DEF Regular
<1>5. \A i \in DOMAIN pending' : org[i] # 0 =>
        /\ org[i] \in DOMAIN pending /\ pending'[i].p = pending[org[i]].p
        /\ \A do, h : In(i, do, h)' <=> In(org[i], do, h)
  BY <1>1, Order, Waited
<1>6. ASSUME NEW h \in Parties, NEW i \in DOMAIN pending', org[i] = 0, In(i, "transfer", h)'
      PROVE  i = k /\ h = g /\ t.do = "transfer"
  BY <1>2, <1>6 DEF In
<1>7. ASSUME t.do = "transfer"
      PROVE  /\ \A i \in DOMAIN pending' : In(i, "transfer", g)' => i = k
             /\ \A i \in DOMAIN pending' : In(i, "set_leader", g)' => i < k
             /\ \A x \in Players : ~Heads(g, x)'
             /\ \A x \in Players : Exists(g)' /\ Holder(g, x)' => Gone(g, x, k)'
  <2>1. Heads(g, p)
    BY <1>2, <1>3, <1>7 DEF Heads
  <2>2. ASSUME NEW i \in DOMAIN pending', In(i, "transfer", g)' PROVE i = k
    <3>1. CASE org[i] = 0
      BY <1>6, <2>2, <3>1
    <3>2. CASE org[i] # 0
      BY <1>4, <1>5, <2>1, <2>2, <3>2 DEF Succession
    <3> QED BY <3>1, <3>2
  <2>3. \A i \in DOMAIN pending' : org[i] = 0 => ~In(i, "set_leader", g)'
    BY <1>2 DEF In
  <2>4. ASSUME NEW i \in DOMAIN pending', In(i, "set_leader", g)' PROVE i < k
    <3>1. org[i] # 0 /\ pending'[i].do \in HighKinds
      BY <2>3, <2>4 DEF In, HighKinds
    <3> QED BY <1>1, <1>2, <3>1 DEF Fresh
  <2>5. ASSUME NEW x \in Players, Heads(g, x)' PROVE FALSE
    <3>1. x # p
      BY <1>3, <2>5 DEF Heads
    <3>2. Heads(g, x)
      BY <1>3, <2>5, <3>1 DEF Heads
    <3> QED BY <1>4, <2>1, <3>1, <3>2 DEF Succession
  <2>6. ASSUME NEW x \in Players, Exists(g)', Holder(g, x)' PROVE Gone(g, x, k)'
    <3>1. Exists(g)
      BY <1>3, <2>6 DEF Exists
    <3>2. Holder(g, p)
      BY <1>4, <2>1, <3>1 DEF Succession
    <3>3. \A i \in DOMAIN pending : In(i, "set_leader", g) =>
            place[i] \in DOMAIN pending' /\ In(place[i], "set_leader", g)'
      <4>1. \A i \in DOMAIN pending : i > 0 /\ i # 0
        BY BaseFacts
      <4>2. \A i \in DOMAIN pending : place[i] \in DOMAIN pending' /\ org[place[i]] = i
        BY <1>1, <4>1, Order
      <4> QED BY <1>5, <4>1, <4>2
    <3>4. Holder(g, x)
      <4>1. CASE \E i \in DOMAIN pending' : In(i, "set_leader", g)' /\ pending'[i].p = x
        BY <1>5, <2>3, <4>1 DEF Holder
      <4>2. CASE leaderOf'[g] = x /\ \A i \in DOMAIN pending' : ~In(i, "set_leader", g)'
        BY <1>3, <3>3, <4>2 DEF Holder
      <4> QED BY <2>6, <4>1, <4>2 DEF Holder
    <3>5. x = p
      BY <1>4, <3>2, <3>4 DEF Holder, Succession
    <3> QED BY <1>3, <3>5, PartingGone
  <2> QED BY <2>2, <2>4, <2>5, <2>6
<1> QED BY <1>6, <1>7 DEF Handing

\* Behind the one who leaves, the party is looked at.
LEMMA PartingStep ==
  ASSUME Base, Base', Regular, NEW p \in Players, NEW g \in Parties,
         NEW lost, NEW place, NEW org, NEW new, Sends(0, lost, place, org, new),
         NEW j, NEW s, NEW k, NEW t, Parting(p, g, org, j, s, k, t), Removing(p, g, lost, new)
  PROVE  Regular'
<1>1. Fresh(org)
  BY DEF Sends
<1>2. /\ k \in DOMAIN pending' /\ org[k] = 0 /\ pending'[k] = t /\ j < k
      /\ t.do \in {"transfer", "check_empty"} /\ t.g = g
      /\ \A i \in DOMAIN pending' : org[i] = 0 => i \in {j, k}
  BY DEF Parting, Only
<1>3. In(k, t.do, g)' /\ t.do \in OnParty
  BY <1>2 DEF In, OnParty
<1>4. ASSUME NEW i \in DOMAIN pending', In(i, "remove_member", g)' PROVE i < k
  <2>1. CASE org[i] = 0
    <3>1. i # k
      BY <1>2, <1>4 DEF In
    <3> QED BY <1>2, <2>1, <3>1
  <2>2. CASE org[i] # 0
    <3>1. pending'[i].do \in HighKinds
      BY <1>4 DEF In, HighKinds
    <3> QED BY <1>1, <1>2, <2>2, <3>1 DEF Fresh
  <2> QED BY <2>1, <2>2
<1>5. Alive(g)'
  BY <1>2, <1>3, <1>4 DEF Alive, LookedAt
<1>6. \A h \in Parties : Handing(org, h)
  BY PartingHands
<1> QED BY <1>5, <1>6, RemovalStep

\* From what the handler sends to the step.
LEMMA FarewellKeeps ==
  ASSUME Base, Base', Regular, NEW p \in Players, client[p].party # NoParty,
         NEW lost, lost \in {{}, {p}}, NEW q, From(q, 0, lost), Stays(lost),
         Send(q, Farewell(p).high, Farewell(p).normal),
         NEW after \in Clients, client' = [client EXCEPT ![p] = after],
         after.party = NoParty, ~after.leader, after.invite = NoParty,
         UNCHANGED <<tables, history>>
  PROVE  Regular'
<1>1. PICK g \in Parties : g = client[p].party
  BY OnlineParty
<1> DEFINE s == Leave(g, p)  t == Succeed(g)  u == Look(g)
<1>2. /\ s.do = "remove_member" /\ s.g = g /\ s.p = p
      /\ t.do = "transfer" /\ t.g = g /\ u.do = "check_empty" /\ u.g = g
  BY DEF Leave, Succeed, Look, High, Normal, Statement
<1>3. /\ client[p].leader => \E place, org, j, k : SentHH(0, lost, place, org, j, s, k, t)
      /\ ~client[p].leader => \E place, org, j, k : SentHN(0, lost, place, org, j, s, k, u)
  <2>1. created' = created
    BY DEF tables
  <2> QED BY <1>1, <2>1, FarewellSends
<1> HIDE DEF s, t, u
<1>4. /\ \A x \in Players : x # p => client'[x] = client[x]
      /\ client'[p] = after
  BY DEF Base, ClientsOK
<1>5. after.leader = FALSE
  BY DEF Clients
<1>6. Removing(p, g, lost, {s, t}) /\ Removing(p, g, lost, {s, u})
  <2>1. ASSUME NEW r \in {t, u}
        PROVE  /\ \A x \in {s, r} : x.do \in {"remove_member", "transfer", "check_empty"}
               /\ \A x \in {s, r} : x.do = "remove_member" => x.g = g /\ x.p = p
    BY <1>2, <2>1
  <2>2. ASSUME NEW r \in {t, u} PROVE Removing(p, g, lost, {s, r})
    BY <1>1, <1>4, <1>5, <2>1 DEF Removing
  <2> QED BY <2>2
<1>7. CASE client[p].leader
  <2>1. PICK place, org, j, k : SentHH(0, lost, place, org, j, s, k, t)
    BY <1>3, <1>7
  <2>2. Sends(0, lost, place, org, {s, t})
    BY <2>1, SendsTwo
  <2>3. /\ Only(org, {j, k}) /\ j < k
        /\ j \in DOMAIN pending' /\ k \in DOMAIN pending' /\ org[j] = 0 /\ org[k] = 0
        /\ pending'[j] = s /\ pending'[k] = t
    BY <2>1 DEF SentHH, NewHigh
  <2>4. Parting(p, g, org, j, s, k, t)
    BY <1>2, <1>7, <2>3 DEF Parting
  <2> QED BY <1>6, <2>2, <2>4, PartingStep
<1>8. CASE ~client[p].leader
  <2>1. PICK place, org, j, k : SentHN(0, lost, place, org, j, s, k, u)
    BY <1>3, <1>8
  <2>2. Sends(0, lost, place, org, {s, u})
    BY <2>1, SendsTwo
  <2>3. /\ Only(org, {j, k}) /\ j < k
        /\ j \in DOMAIN pending' /\ k \in DOMAIN pending' /\ org[j] = 0 /\ org[k] = 0
        /\ pending'[j] = s /\ pending'[k] = u
    BY <2>1 DEF SentHN, NewHigh, NewNormal
  <2>4. Parting(p, g, org, j, s, k, u)
    BY <1>2, <2>3 DEF Parting
  <2> QED BY <1>6, <2>2, <2>4, PartingStep
<1> QED BY <1>7, <1>8

\* Disconnecting is leaving, with every statement under way losing its client.
LEMMA DisconnectKeeps ==
  ASSUME Base, Regular, NEW p \in Players, OnClientDisconnect(p) PROVE Regular'
<1>1. Base' /\ client' = [client EXCEPT ![p] = Offline] /\ UNCHANGED <<tables, history>>
  BY DisconnectSends DEF OnClientDisconnect
<1>2. Stays({p})
  BY <1>1, SetStays DEF Base
<1>3. From(Orphaned(p), 0, {p})
  BY FromOrphaned, BaseFacts
<1>4. CASE client[p].party # NoParty
  <2>1. Send(Orphaned(p), Farewell(p).high, Farewell(p).normal)
    BY <1>4, DisconnectSends
  <2> QED BY <1>1, <1>2, <1>3, <1>4, <2>1, OnlineIs, FarewellKeeps
<1>5. CASE client[p].party = NoParty
  <2>1. PICK place, org : Taken(0, {p}, place, org)
    BY <1>5, DisconnectSends
  <2>2. Sends(0, {p}, place, org, {})
    BY <2>1, SendsNothing
  <2>3. \A x \in Players : client'[x] = IF x = p THEN Offline ELSE client[x]
    BY <1>1 DEF Base, ClientsOK
  <2>4. \A x \in Players : /\ client'[x].party = client[x].party
                           /\ client'[x].leader => client[x].leader
                           /\ client'[x].invite = client[x].invite \/ client'[x].invite = NoParty
    BY <1>5, <2>3, OnlineIs
  <2>5. \A x \in Players \cap {p} : client'[x].invite = NoParty
    BY <2>3, OnlineIs
  <2> QED BY <1>1, <2>2, <2>4, <2>5, PlainStep DEF tables, history
<1> QED BY <1>4, <1>5

LEMMA LeaveKeeps ==
  ASSUME Base, Regular, NEW p \in Players, Party_Leave(p) PROVE Regular'
<1>1. /\ Base' /\ client' = [client EXCEPT ![p] = Online] /\ UNCHANGED <<tables, history>>
      /\ client[p].party # NoParty /\ Send(pending, Farewell(p).high, Farewell(p).normal)
  BY LeaveSends DEF Party_Leave
<1>2. Stays({})
  BY <1>1, OnlineIs, SetStays DEF Base
<1>3. From(pending, 0, {})
  BY FromPending, BaseFacts
<1> QED BY <1>1, <1>2, <1>3, OnlineIs, FarewellKeeps

\* Nothing happens.
LEMMA StutterKeeps == ASSUME Base, Regular, UNCHANGED vars PROVE Regular'
<1>1. UNCHANGED <<client, tables, history, pending>>
  BY DEF vars
<1>2. created' = created /\ Base'
  BY <1>1, BaseStep DEF tables
<1>3. Stays({})
  BY <1>1, <1>2, NothingGiven DEF Base
<1>4. PICK place, org : Taken(0, {}, place, org)
  BY <1>1, <1>2, <1>3, FromPending, BaseFacts, ListTaken
<1>5. Sends(0, {}, place, org, {})
  BY <1>4, SendsNothing
<1>6. \A x \in Players : /\ client'[x].party = client[x].party
                         /\ client'[x].leader => client[x].leader
                         /\ client'[x].invite = client[x].invite
  BY <1>1
<1> QED BY <1>1, <1>2, <1>5, <1>6, PlainStep DEF tables, history

-----------------------------------------------------------------------------
\* Once confused, always confused.
LEMMA StaysConfused == ASSUME Base, [Next]_vars, ~confused' PROVE ~confused
<1>1. confused \in BOOLEAN
  BY DEF Base, CountsOK
<1>2. ASSUME NEW more, confused' = (confused \/ more) PROVE ~confused
  BY <1>1, <1>2, Remembers
<1>3. ASSUME confused' = confused PROVE ~confused
  BY <1>3
<1>4. CASE Command
  <2>1. ASSUME NEW p \in Players, Party_Accept(p) PROVE ~confused
    BY <1>2, <2>1 DEF Party_Accept
  <2>2. ASSUME Command, \A p \in Players : ~Party_Accept(p) PROVE confused' = confused
    BY <2>2 DEF Command, OnClientPostAdminCheck, OnClientDisconnect, Party_Leave, Party_Decline,
       Timer_CleanupInvites, Party_Invite, Party_Kick, Expire, history
  <2> QED BY <1>3, <1>4, <2>1, <2>2
<1>5. CASE Callback
  <2>1. CASE DB_LoadPartyState \/ DB_LoadPendingInvite
    <3>1. Overtaken(Answered.p) \/ UNCHANGED history
      BY <2>1 DEF DB_LoadPartyState, DB_LoadPendingInvite
    <3> QED BY <1>2, <1>3, <3>1 DEF Overtaken, history
  <2>2. CASE DB_PartyCreated
    BY <1>2, <1>3, <2>2 DEF DB_PartyCreated
  <2>3. CASE DB_AcceptJoined \/ AddMember
    <3>1. confused' = (confused \/ \E h \in Parties \ {Answered.g} : <<h, Answered.p>> \in members)
      BY <2>3 DEF DB_AcceptJoined, AddMember, Insert
    <3> QED BY <1>2, <3>1
  <2>4. CASE SetLeader
    BY <1>2, <2>4 DEF SetLeader
  <2>5. CASE \/ DB_InviteCheckParty \/ DB_AcceptVerify \/ DB_TransferLeadership
             \/ DB_CheckPartyEmpty \/ DB_InviteExpired
    BY <1>3, <2>5 DEF DB_InviteCheckParty, DB_AcceptVerify, DB_TransferLeadership,
       DB_CheckPartyEmpty, DB_InviteExpired, history
  <2>6. CASE RemoveMember \/ Dissolve \/ AddInvite \/ RemoveInvite
    BY <1>3, <2>6 DEF RemoveMember, Dissolve, AddInvite, RemoveInvite, history
  <2> QED BY <1>5, <2>1, <2>2, <2>3, <2>4, <2>5, <2>6 DEF Callback
<1>6. CASE UNCHANGED vars
  BY <1>3, <1>6 DEF vars, history
<1> QED BY <1>4, <1>5, <1>6 DEF Next

\* At the start there is nothing to keep in order.
LEMMA RegularInit == Init => Regular
<1> SUFFICES ASSUME Init PROVE Regular
  OBVIOUS
<1>1. /\ DOMAIN pending = {} /\ invites = {}
      /\ \A g \in Parties : ~Exists(g)
      /\ \A p \in Players : client[p] = Online
      /\ \A g \in Parties, p \in Players : tickets[g][p] = 0
  BY DEF Init, Exists
<1>2. Joining
  BY <1>1 DEF Joining
<1>3. Membership
  BY <1>1 DEF Membership
<1>4. \A g \in Parties : Succession(g)
  BY <1>1, OnlineIs DEF Succession, Heads
<1>5. ASSUME NEW g \in Parties, NEW p \in Players PROVE tickets[g][p] >= Owed(g, p)
  <2>1. g # NoParty
    BY PartyNumbers
  <2>2. ~Joins(g, p) /\ ~Adds(g, p) /\ ~Claim(g, p)
    BY <1>1, <2>1, OnlineIs DEF Joins, Adds, Claim, Shown, Row, Coming
  <2> QED BY <1>1, <2>2 DEF Owed, One
<1> QED BY <1>2, <1>3, <1>4, <1>5 DEF Regular, Covered

\* Every step keeps the invariants while nobody is confused.
LEMMA RegularNext ==
  Base /\ (~confused => Regular) /\ [Next]_vars => (~confused => Regular)'
<1> SUFFICES ASSUME Base, ~confused => Regular, [Next]_vars, ~confused' PROVE Regular'
  OBVIOUS
<1>1. Regular
  BY StaysConfused
<1>2. CASE Command
  BY <1>1, <1>2, ConnectKeeps, DisconnectKeeps, LeaveKeeps, AcceptKeeps, DeclineKeeps, TimerKeeps,
     InviteKeeps, KickKeeps, ExpireKeeps DEF Command
<1>3. CASE Callback
  BY <1>1, <1>3, LoadPartyKeeps, LoadInviteKeeps, InviteCheckKeeps, CreatedKeeps, VerifyKeeps,
     JoinedKeeps, TransferKeeps, CheckKeeps, InviteExpiredKeeps, AddMemberKeeps,
     RemoveMemberKeeps, SetLeaderKeeps, DissolveKeeps, AddInviteKeeps, RemoveInviteKeeps
  DEF Callback
<1>4. CASE UNCHANGED vars
  BY <1>1, <1>4, StutterKeeps
<1> QED BY <1>2, <1>3, <1>4 DEF Next

\* The inductive invariant of this module.
LEMMA AlwaysRegular == Spec => [](Base /\ (~confused => Regular))
<1>1. Init => Base /\ (~confused => Regular)
  BY BaseInit, RegularInit
<1>2. Base /\ (~confused => Regular) /\ [Next]_vars => Base' /\ (~confused => Regular)'
  BY BaseStep, RegularNext
<1> QED BY <1>1, <1>2, PTL DEF Spec

-----------------------------------------------------------------------------
\* No two clients are the leader of one party: a succession begins only when its
\* leader is gone from memory, and no other one of that party is under way.
THEOREM LeadersAlone == Spec => []OneLeader
<1>1. Regular => \A g \in Parties, p, q \in Players :
        /\ client[p].leader /\ client[p].party = g
        /\ client[q].leader /\ client[q].party = g
        => p = q
  BY DEF Regular, Succession, Heads
<1>2. Base /\ (~confused => Regular) => OneLeader
  BY <1>1 DEF OneLeader
<1> QED BY <1>2, AlwaysRegular, PTL

\* Nobody becomes a member more often than he was invited: every statement that will
\* insert him, and every invitation he could still accept, has a ticket of its own.
THEOREM AdmissionByInvitation == Spec => []InvitedOnly
<1>1. Base /\ Regular => \A g \in Parties, p \in Players : tickets[g][p] >= 0
  BY CoveredIs DEF Regular
<1>2. Base /\ (~confused => Regular) => InvitedOnly
  BY <1>1 DEF InvitedOnly
<1> QED BY <1>2, AlwaysRegular, PTL

\* A party without members does not outlive the statements under way: behind whoever
\* leaves, somebody looks whether he was the last.
THEOREM PartiesDissolved == Spec => []NoEmptyParty
<1>1. Base /\ Regular /\ pending = <<>> => \A g \in Parties : Exists(g) => MembersOf(g) # {}
  <2> SUFFICES ASSUME Regular, pending = <<>>, NEW g \in Parties, Exists(g) PROVE MembersOf(g) # {}
    OBVIOUS
  <2>1. DOMAIN pending = {}
    OBVIOUS
  <2>2. Alive(g) /\ ~LookedAt(g)
    BY <2>1 DEF Regular, Membership, LookedAt
  <2>3. PICK p \in Players : Stayer(g, p)
    BY <2>2 DEF Alive
  <2>4. <<g, p>> \in members
    BY <2>1, <2>3 DEF Stayer
  <2> QED BY <2>4 DEF MembersOf
<1>2. Base /\ (~confused => Regular) => NoEmptyParty
  BY <1>1 DEF NoEmptyParty
<1> QED BY <1>2, AlwaysRegular, PTL

================================================================================
