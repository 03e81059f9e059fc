------------------------- MODULE RelationshipsProofs -------------------------
(***************************************************************************)
(* Theorems about connections: what PostgreSQL holds of an encounter agrees *)
(* with the votes in Redis, though the two are read and written apart.      *)
(***************************************************************************)
EXTENDS Relationships, EncounterStoreProofs

Rows == [pair : SUBSET Users, outcome : {"none", "reported", "connected"},
         link : {"none", "active", "ended"}]

VoteStates == [phase : {"idle", "voted", "found", "persisting", "publishing"},
               match : Matches \cup {NoMatch}, pair : SUBSET Users]

AskStates == [phase : {"idle", "asked", "authorized", "ending"}, kind : {"block", "report"},
              match : Matches \cup {NoMatch}, target : SUBSET Users]

RequestsTypeOK ==
    /\ rows \in [Matches -> Rows]
    /\ votes \in [Users -> [Conns -> VoteStates]]
    /\ asks \in [Users -> AskStates]

\* A request that is under way names an encounter.
RequestsNamed ==
    /\ \A u \in Users, c \in Conns : votes[u][c].phase # "idle" => votes[u][c].match # NoMatch
    /\ \A u \in Users : asks[u].phase \in {"asked", "ending"} => asks[u].match # NoMatch

RequestInv == TypeOK /\ RequestsTypeOK /\ RequestsNamed

-----------------------------------------------------------------------------
(* The store under these requests.                                          *)

\* Every step here is one of the store's, or leaves the store alone.
LEMMA StoreStep ==
  ASSUME RequestInv, [RelationsNext]_rvars PROVE [Next]_vars
  <1>1. CASE UNCHANGED rvars
    BY <1>1 DEF rvars, vars
  <1>2. ASSUME NEW u \in Users, NEW c \in Conns,
               \/ VoteReadsKey(u, c) \/ VoteReadsHash(u, c) \/ Persist(u, c)
               \/ PersistFails(u, c) \/ VoteStops(u, c)
        PROVE  [Next]_vars
    BY <1>2 DEF VoteReadsKey, VoteReadsHash, Persist, PersistFails, VoteStops, storeVars
  <1>3. ASSUME NEW u \in Users, NEW c \in Conns, NEW m \in Matches, Vote(u, c, m)
        PROVE  [Next]_vars
    BY <1>3 DEF Vote, Next
  <1>4. ASSUME NEW u \in Users, NEW c \in Conns, Publish(u, c) PROVE [Next]_vars
    <2>1. votes[u][c].match \in Matches
      BY <1>4 DEF RequestInv, RequestsTypeOK, RequestsNamed, VoteStates, Publish
    <2>2. QED
      BY <1>4, <2>1 DEF Publish, Next, storeVars
  <1>5. ASSUME NEW u \in Users, BlockEnds(u) PROVE [Next]_vars
    <2>1. asks[u].match \in Matches
      BY <1>5 DEF RequestInv, RequestsTypeOK, RequestsNamed, AskStates, BlockEnds
    <2>2. QED
      BY <1>5, <2>1 DEF BlockEnds, Next, storeVars
  <1>6. ASSUME NEW u \in Users, AskReadsHash(u) \/ Block(u) \/ Report(u) \/ AskStops(u)
        PROVE  [Next]_vars
    BY <1>6 DEF AskReadsHash, Block, Report, AskStops, storeVars
  <1>7. ASSUME NEW u \in Users, NEW m, NEW kind, AskAboutMatch(u, kind, m) PROVE [Next]_vars
    BY <1>7 DEF AskAboutMatch, storeVars
  <1>8. ASSUME NEW u \in Users, NEW v \in Users, NEW m, AskAboutLink(u, v, m) PROVE [Next]_vars
    BY <1>8 DEF AskAboutLink, storeVars
  <1>9. ASSUME NEW u \in Users, NEW v \in Users, Unblock(u, v) PROVE [Next]_vars
    BY <1>9 DEF Unblock, storeVars
  <1>10. ASSUME NEW m \in Matches, Remove(m) PROVE [Next]_vars
    BY <1>10 DEF Remove, storeVars
  <1>11. CASE Others
    BY <1>11 DEF Others, Next
  <1>12. QED
    BY <1>1, <1>2, <1>3, <1>4, <1>5, <1>6, <1>7, <1>8, <1>9, <1>10, <1>11
       DEF RelationsNext, RequestsNext

\* Putting a state into votes or asks changes nobody else's.
LEMMA VoteUpdate ==
  ASSUME RequestsTypeOK, NEW u \in Users, NEW c \in Conns, NEW s \in VoteStates, VoteGoes(u, c, s)
  PROVE  /\ votes' \in [Users -> [Conns -> VoteStates]]
         /\ votes'[u][c] = s
         /\ \A x \in Users, d \in Conns : x # u \/ d # c => votes'[x][d] = votes[x][d]
  BY DEF RequestsTypeOK, VoteGoes

LEMMA AskUpdate ==
  ASSUME RequestsTypeOK, NEW u \in Users, NEW s \in AskStates, AskGoes(u, s)
  PROVE  /\ asks' \in [Users -> AskStates]
         /\ asks'[u] = s
         /\ \A x \in Users : x # u => asks'[x] = asks[x]
  BY DEF RequestsTypeOK, AskGoes

\* What steps make of a vote and of an ask: nothing, or a next phase.
LEMMA VotePhase ==
  ASSUME NEW v, v \in VoteStates, NEW p \in {"voted", "found", "persisting", "publishing"},
         NEW s, s = [v EXCEPT !.phase = p]
  PROVE  s \in VoteStates /\ s.phase = p /\ s.match = v.match /\ s.pair = v.pair
  BY DEF VoteStates

LEMMA NoVoteType == NoVote \in VoteStates /\ NoVote.phase = "idle" /\ NoVote.match = NoMatch
  BY DEF NoVote, VoteStates

LEMMA NoAskType == NoAsk \in AskStates /\ NoAsk.phase = "idle" /\ NoAsk.match = NoMatch
  BY DEF NoAsk, AskStates

-----------------------------------------------------------------------------
(* Encounters under the store's scripts.                                    *)

\* An encounter that is still there has its parties and its votes; none is begun.
EncounterKept(k) ==
    /\ match'[k].ttl > 0 => /\ match[k].ttl > 0
                            /\ match'[k].parties = match[k].parties
                            /\ match[k].connect \subseteq match'[k].connect
    /\ match'[k].created => match[k].created

LEMMA SameKept ==
  ASSUME NEW k, match'[k] = match[k] PROVE EncounterKept(k)
  BY DEF EncounterKept

LEMMA MissingKept ==
  ASSUME NEW k, match'[k] = Missing PROVE EncounterKept(k)
  BY DEF EncounterKept, Missing

\* A script that ends an encounter leaves the others alone, ...
LEMMA DropKept ==
  ASSUME TypeOK, NEW m \in Matches, NEW k \in Matches, Drop(m) PROVE EncounterKept(k)
  <1>1. match'[k] = Missing \/ match'[k] = match[k]
    BY DEF Drop, TypeOK
  <1>2. QED
    BY <1>1, SameKept, MissingKept

\* ... and so do those that write one field.
LEMMA GoneKept ==
  ASSUME TypeOK, NEW m \in Matches, NEW k \in Matches, NEW u, NEW n,
         match' = [match EXCEPT ![m].gone[u] = n]
  PROVE  EncounterKept(k)
  <1>1. CASE m # k
    BY <1>1, SameKept DEF TypeOK
  <1>2. CASE m = k
    <2>1. match'[k] = [match[k] EXCEPT !.gone[u] = n]
      BY <1>2 DEF TypeOK
    <2>2. match[k] \in Hash
      BY DEF TypeOK
    <2>3. QED
      BY <2>1, <2>2 DEF EncounterKept, Hash
  <1>3. QED
    BY <1>1, <1>2

LEMMA HeartbeatKept ==
  ASSUME TypeOK, NEW u \in Users, NEW c \in Conns, Heartbeat(u, c), NEW k \in Matches
  PROVE  EncounterKept(k)
  <1> DEFINE m == userMatch[u].match
  <1>1. CASE UNCHANGED match \/ m # k
    BY <1>1, SameKept DEF Heartbeat, TypeOK
  <1>2. CASE match' # match /\ m = k
    <2>1. match'[k] = [match[k] EXCEPT !.ttl = IF Live(k) THEN matchTTL ELSE 0]
      BY <1>2 DEF Heartbeat, TypeOK
    <2>2. match[k] \in Hash
      BY DEF TypeOK
    <2>3. QED
      BY <2>1, <2>2, StoreAssumption DEF EncounterKept, Hash, Live
  <1>3. QED
    BY <1>1, <1>2

LEMMA ExtendKept ==
  ASSUME TypeOK, NEW u \in Users, NEW c \in Conns, NEW m \in Matches, Extend(u, c, m),
         NEW k \in Matches
  PROVE  EncounterKept(k)
  <1>1. CASE m # k
    BY <1>1, SameKept DEF Extend, TypeOK
  <1>2. CASE m = k
    <2>1. PICK x, y : match'[k] = [match[k] EXCEPT !.extend = x, !.state = y]
      BY <1>2 DEF Extend, TypeOK
    <2>2. match[k] \in Hash
      BY DEF TypeOK
    <2>3. QED
      BY <2>1, <2>2 DEF EncounterKept, Hash
  <1>3. QED
    BY <1>1, <1>2

LEMMA ConnectVoteKept ==
  ASSUME TypeOK, NEW u \in Users, NEW c \in Conns, NEW m \in Matches, ConnectVote(u, c, m),
         NEW k \in Matches
  PROVE  EncounterKept(k)
  <1>1. CASE m # k
    BY <1>1, SameKept DEF ConnectVote, TypeOK
  <1>2. CASE m = k
    <2>1. match'[k] = [match[k] EXCEPT !.connect = match[k].connect \cup {u}]
      BY <1>2 DEF ConnectVote, TypeOK
    <2>2. match[k] \in Hash
      BY DEF TypeOK
    <2>3. QED
      BY <2>1, <2>2 DEF EncounterKept, Hash
  <1>3. QED
    BY <1>1, <1>2

LEMMA TickKept ==
  ASSUME TypeOK, Tick, NEW k \in Matches
  PROVE  EncounterKept(k)
  <1>1. match'[k] = Age(match[k]) /\ match[k] \in Hash
    BY DEF Tick, TypeOK
  <1>2. CASE match[k].ttl <= 1
    BY <1>1, <1>2, MissingKept DEF Age
  <1>3. CASE ~(match[k].ttl <= 1)
    <2>1. /\ match'[k].parties = match[k].parties /\ match'[k].connect = match[k].connect
          /\ match'[k].created = match[k].created
      BY <1>1, <1>3 DEF Age, Hash
    <2>2. match[k].ttl > 0
      BY <1>1, <1>3 DEF Hash
    <2>3. QED
      BY <2>1, <2>2 DEF EncounterKept
  <1>4. QED
    BY <1>2, <1>3

\* A publication changes nothing but the one announcement.
LEMMA PublishKept ==
  ASSUME TypeOK, NEW m \in Matches, PublishConnection(m), NEW k \in Matches
  PROVE  /\ match'[k].ttl > 0 => /\ match[k].ttl > 0
                                 /\ match'[k].parties = match[k].parties
                                 /\ match[k].connect \subseteq match'[k].connect
         /\ k # m => EncounterKept(k)
  <1>1. CASE m # k
    BY <1>1, SameKept DEF PublishConnection, TypeOK, EncounterKept
  <1>2. CASE m = k
    <2>1. match'[k] = [match[k] EXCEPT !.created = TRUE]
      BY <1>2 DEF PublishConnection, TypeOK
    <2>2. match[k] \in Hash
      BY DEF TypeOK
    <2>3. QED
      BY <1>2, <2>1, <2>2 DEF Hash
  <1>3. QED
    BY <1>1, <1>2

\* Of the other operations only a claim begins an encounter, with a new id.
LEMMA OthersKept ==
  ASSUME TypeOK, Others, NEW k \in Matches
  PROVE  EncounterKept(k) \/ (UnknownMatch(k) /\ ~match'[k].created)
  <1>1. ASSUME NEW u \in Users, NEW c \in Conns,
               \/ Connect(u, c) \/ Enqueue(u, c) \/ LeaveQueue(u, c) \/ CleanupQueued(u, c)
        PROVE  EncounterKept(k)
    BY <1>1, SameKept DEF Connect, Enqueue, LeaveQueue, CleanupQueued
  <1>2. ASSUME NEW u \in Users, NEW c \in Conns, Disconnect(u, c) PROVE EncounterKept(k)
    BY <1>2, SameKept, GoneKept DEF Disconnect
  <1>3. ASSUME NEW u \in Users, NEW c \in Conns, NEW m \in Matches,
               Reconnect(u, c, m) \/ EndMatch(u, c, m) \/ Extend(u, c, m)
        PROVE  EncounterKept(k)
    <2>1. CASE Reconnect(u, c, m)
      BY <2>1, GoneKept DEF Reconnect
    <2>2. CASE EndMatch(u, c, m)
      BY <2>2, DropKept DEF EndMatch
    <2>3. CASE Extend(u, c, m)
      BY <2>3, ExtendKept
    <2>4. QED
      BY <1>3, <2>1, <2>2, <2>3
  <1>4. ASSUME NEW u \in Users, NEW v \in Users, NEW cu \in Conns, NEW cv \in Conns,
               NEW m \in Matches, UnknownMatch(m), Claim(u, v, cu, cv, m, TRUE)
        PROVE  EncounterKept(k) \/ (UnknownMatch(k) /\ ~match'[k].created)
    <2>1. CASE m # k
      BY <1>4, <2>1, SameKept DEF Claim, TypeOK
    <2>2. CASE m = k
      <3>1. match'[k] = [Missing EXCEPT !.ttl = matchTTL, !.parties = {u, v},
                                        !.state = "active", !.left = encounterLength]
        BY <1>4, <2>2 DEF Claim, TypeOK
      <3>2. ~match'[k].created
        BY <3>1 DEF Missing
      <3>3. QED
        BY <1>4, <2>2, <3>2
    <2>3. QED
      BY <2>1, <2>2
  <1>5. ASSUME NEW m \in Matches, Expire(m) PROVE EncounterKept(k)
    BY <1>5, SameKept, DropKept DEF Expire
  <1>6. ASSUME NEW m \in Matches, NEW u \in Users, DisconnectExpiry(m, u) PROVE EncounterKept(k)
    BY <1>6, SameKept, DropKept DEF DisconnectExpiry
  <1>7. ASSUME NEW pair \in SUBSET Users, RecentLapses(pair) PROVE EncounterKept(k)
    BY <1>7, SameKept DEF RecentLapses
  <1>8. QED
    BY <1>1, <1>2, <1>3, <1>4, <1>5, <1>6, <1>7, HeartbeatKept, TickKept DEF Others

(* What is remembered of an encounter.                                     *)

\* While the hash is there, what it holds.
MetOK ==
    /\ met \in [Matches -> [parties : SUBSET Users, votes : SUBSET Users]]
    /\ \A m \in Matches : match[m].ttl > 0 =>
           met[m].parties = match[m].parties /\ met[m].votes = match[m].connect

\* An encounter that is there goes on as it was, apart from the announcement of
\* its connection.
VotesKept(k) ==
    match'[k].ttl > 0 => /\ match[k].ttl > 0
                         /\ match'[k].parties = match[k].parties
                         /\ match[k].connect \subseteq match'[k].connect

\* Nothing that was remembered is lost.
MetKept(k) ==
    met'[k].parties = met[k].parties /\ met[k].votes \subseteq met'[k].votes

LEMMA MetStep == ASSUME TypeOK', MetOK, Remember PROVE MetOK'
  <1> DEFINE f(m) == IF match'[m].ttl > 0
                     THEN [parties |-> match'[m].parties, votes |-> match'[m].connect] ELSE met[m]
  <1>1. met' = [m \in Matches |-> f(m)]
    BY DEF Remember
  <1>2. ASSUME NEW m \in Matches
        PROVE  /\ f(m) \in [parties : SUBSET Users, votes : SUBSET Users]
               /\ match'[m].ttl > 0 =>
                     f(m).parties = match'[m].parties /\ f(m).votes = match'[m].connect
    BY DEF TypeOK, Hash, MetOK
  <1> HIDE DEF f
  <1>3. QED
    BY <1>1, <1>2 DEF MetOK

LEMMA MetIsKept ==
  ASSUME MetOK, Remember, NEW k \in Matches, VotesKept(k) PROVE MetKept(k)
  <1>1. CASE match'[k].ttl > 0
    <2>1. met'[k] = [parties |-> match'[k].parties, votes |-> match'[k].connect]
      BY <1>1 DEF Remember
    <2>2. QED
      BY <1>1, <2>1 DEF MetOK, VotesKept, MetKept
  <1>2. CASE ~(match'[k].ttl > 0)
    <2>1. met'[k] = met[k]
      BY <1>2 DEF Remember
    <2>2. QED
      BY <2>1 DEF MetKept
  <1>3. QED
    BY <1>1, <1>2

\* When nothing happens, nothing new is to be remembered.
LEMMA MetStutters == ASSUME MetOK, UNCHANGED rvars PROVE Remember
  <1>1. met' = met /\ match' = match
    BY DEF rvars
  <1>2. ASSUME NEW m \in Matches, match'[m].ttl > 0
        PROVE  met[m] = [parties |-> match'[m].parties, votes |-> match'[m].connect]
    BY <1>1, <1>2 DEF MetOK
  <1>3. QED
    BY <1>1, <1>2 DEF Remember, MetOK

-----------------------------------------------------------------------------
(* The inductive invariant.                                                 *)

\* Both have voted, whether or not the encounter is still there.
Agreed(m) == met[m].parties # {} /\ met[m].parties \subseteq met[m].votes

\* What the handler of a second vote knows in each of its phases.
VoteOK(u, c) ==
    votes[u][c].phase # "idle" =>
        /\ Agreed(votes[u][c].match)
        /\ votes[u][c].phase = "persisting" => votes[u][c].pair = met[votes[u][c].match].parties
        /\ votes[u][c].phase = "publishing" => rows[votes[u][c].match].outcome = "connected"

RowOK(m) ==
    /\ rows[m].outcome = "connected" => Agreed(m) /\ rows[m].pair = met[m].parties
    /\ rows[m].link # "none" => rows[m].outcome = "connected"
    /\ match[m].created => rows[m].outcome = "connected"

RelationsInv ==
    /\ RequestInv
    /\ MetOK
    /\ \A u \in Users, c \in Conns : VoteOK(u, c)
    /\ \A m \in Matches : RowOK(m)

\* Whatever begins, begins with an id that no row and no vote mentions: what is
\* known of the others stays true under the store's operations.
LEMMA RowStays ==
  ASSUME RequestsTypeOK, NEW m \in Matches, RowOK(m), rows'[m] = rows[m], MetOK, Remember,
         EncounterKept(m) \/ (UnknownMatch(m) /\ ~match'[m].created)
  PROVE  RowOK(m)'
  <1>1. CASE EncounterKept(m)
    <2>1. MetKept(m)
      BY <1>1, MetIsKept DEF EncounterKept, VotesKept
    <2>2. QED
      BY <1>1, <2>1 DEF RowOK, Agreed, EncounterKept, MetKept
  <1>2. CASE UnknownMatch(m) /\ ~match'[m].created
    BY <1>2 DEF RowOK, UnknownMatch, NoRow
  <1>3. QED
    BY <1>1, <1>2

LEMMA VoteStays ==
  ASSUME RequestsTypeOK, RequestsNamed, NEW u \in Users, NEW c \in Conns,
         VoteOK(u, c), votes'[u][c] = votes[u][c], MetOK, Remember,
         \A k \in Matches : VotesKept(k) \/ UnknownMatch(k),
         \A k \in Matches : rows[k].outcome = "connected" => rows'[k].outcome = "connected"
  PROVE  VoteOK(u, c)'
  <1> DEFINE m == votes[u][c].match
  <1>1. SUFFICES ASSUME votes[u][c].phase # "idle"
                 PROVE  VoteOK(u, c)'
    BY DEF VoteOK
  <1>2. m \in Matches /\ ~UnknownMatch(m)
    BY <1>1 DEF RequestsTypeOK, RequestsNamed, VoteStates, UnknownMatch
  <1>3. MetKept(m)
    BY <1>2, MetIsKept
  <1>4. QED
    BY <1>1, <1>2, <1>3 DEF VoteOK, Agreed, MetKept

\* An idle handler knows nothing.
LEMMA IdleVote ==
  ASSUME NEW u, NEW c, votes'[u][c].phase = "idle" PROVE VoteOK(u, c)'
  BY DEF VoteOK

-----------------------------------------------------------------------------
(* Types.                                                                   *)

LEMMA VoteTypes ==
  ASSUME RequestInv, NEW u \in Users, NEW c \in Conns, NEW s \in VoteStates, VoteGoes(u, c, s),
         s.phase # "idle" => s.match # NoMatch, rows' \in [Matches -> Rows], UNCHANGED asks
  PROVE  RequestsTypeOK' /\ RequestsNamed'
  <1>1. /\ votes' \in [Users -> [Conns -> VoteStates]]
        /\ votes'[u][c] = s
        /\ \A x \in Users, d \in Conns : x # u \/ d # c => votes'[x][d] = votes[x][d]
    BY VoteUpdate DEF RequestInv
  <1>2. QED
    BY <1>1 DEF RequestInv, RequestsTypeOK, RequestsNamed

LEMMA AskTypes ==
  ASSUME RequestInv, NEW u \in Users, NEW s \in AskStates, AskGoes(u, s),
         s.phase \in {"asked", "ending"} => s.match # NoMatch,
         rows' \in [Matches -> Rows], UNCHANGED votes
  PROVE  RequestsTypeOK' /\ RequestsNamed'
  <1>1. /\ asks' \in [Users -> AskStates]
        /\ asks'[u] = s
        /\ \A x \in Users : x # u => asks'[x] = asks[x]
    BY AskUpdate DEF RequestInv
  <1>2. QED
    BY <1>1 DEF RequestInv, RequestsTypeOK, RequestsNamed

\* A transaction that persists a connection writes one row.
LEMMA ConnectedRow ==
  ASSUME RequestsTypeOK, NEW m \in Matches, NEW pair \in SUBSET Users, NEW r, r = Connected(m, pair)
  PROVE  /\ r \in Rows /\ r.pair = pair /\ r.outcome = "connected"
         /\ r.link = IF Linked(pair) THEN rows[m].link ELSE "active"
  <1>1. rows[m] \in Rows
    BY DEF RequestsTypeOK
  <1>2. QED
    BY <1>1 DEF Connected, Rows

-----------------------------------------------------------------------------
(* The votes.                                                               *)

\* A step of one handler.
LEMMA OneVote ==
  ASSUME RelationsInv, Remember, TypeOK', NEW u \in Users, NEW c \in Conns,
         NEW s \in VoteStates, VoteGoes(u, c, s), s.phase # "idle" => s.match # NoMatch /\ VoteOK(u, c)',
         rows' \in [Matches -> Rows], UNCHANGED asks, \A k \in Matches : RowOK(k)',
         \A k \in Matches : VotesKept(k) \/ UnknownMatch(k),
         \A k \in Matches : rows[k].outcome = "connected" => rows'[k].outcome = "connected"
  PROVE  RelationsInv'
  <1>1. RequestsTypeOK' /\ RequestsNamed'
    BY VoteTypes DEF RelationsInv
  <1>2. /\ votes'[u][c] = s
        /\ \A x \in Users, d \in Conns : x # u \/ d # c => votes'[x][d] = votes[x][d]
    BY VoteUpdate DEF RelationsInv, RequestInv
  <1>3. VoteOK(u, c)'
    BY <1>2, IdleVote
  <1>4. ASSUME NEW x \in Users, NEW d \in Conns PROVE VoteOK(x, d)'
    <2>1. CASE x = u /\ d = c
      BY <2>1, <1>3
    <2>2. CASE x # u \/ d # c
      <3>1. VoteOK(x, d) /\ votes'[x][d] = votes[x][d]
        BY <2>2, <1>2 DEF RelationsInv
      <3>2. QED
        BY <3>1, VoteStays DEF RelationsInv, RequestInv
    <2>3. QED
      BY <2>1, <2>2
  <1>5. QED
    BY <1>1, <1>4, MetStep DEF RelationsInv, RequestInv

\* A step that leaves encounters and rows alone.
LEMMA StoreAlone ==
  ASSUME RelationsInv, Remember, UNCHANGED storeVars, UNCHANGED rows
  PROVE  /\ TypeOK' /\ rows' \in [Matches -> Rows]
         /\ \A k \in Matches : RowOK(k)' /\ VotesKept(k)
         /\ \A k \in Matches : rows[k].outcome = "connected" => rows'[k].outcome = "connected"
  <1>1. UNCHANGED vars
    BY DEF storeVars, vars
  <1>2. TypeOK'
    BY <1>1, TypeStep DEF RelationsInv, RequestInv
  <1>3. UNCHANGED match
    BY <1>1 DEF vars
  <1>4. \A k \in Matches : EncounterKept(k) /\ VotesKept(k)
    BY <1>3 DEF EncounterKept, VotesKept, RelationsInv, RequestInv, TypeOK, Hash
  <1>5. \A k \in Matches : RowOK(k)'
    BY <1>4, RowStays DEF RelationsInv, RequestInv
  <1>6. QED
    BY <1>2, <1>4, <1>5 DEF RelationsInv, RequestInv, RequestsTypeOK

LEMMA VoteKeeps ==
  ASSUME RelationsInv, ConsentInv, Remember, NEW u \in Users, NEW c \in Conns,
         NEW m \in Matches, Vote(u, c, m)
  PROVE  RelationsInv'
  <1>1. PICK s : /\ VoteGoes(u, c, s)
                 /\ s = IF match[m].parties \subseteq match'[m].connect
                        THEN [NoVote EXCEPT !.phase = "voted", !.match = m] ELSE NoVote
    BY DEF Vote
  <1>2. /\ s \in VoteStates
        /\ s.phase # "idle" => /\ s.phase = "voted" /\ s.match = m
                               /\ match[m].parties \subseteq match'[m].connect
    BY <1>1 DEF NoVote, VoteStates
  <1>3. rows' = rows /\ asks' = asks /\ rows' \in [Matches -> Rows]
    BY DEF Vote, RelationsInv, RequestInv, RequestsTypeOK
  <1>4. ASSUME NEW k \in Matches PROVE EncounterKept(k)
    BY ConnectVoteKept DEF Vote, RelationsInv, RequestInv
  <1>5. ASSUME NEW k \in Matches PROVE RowOK(k)' /\ VotesKept(k)
    BY <1>3, <1>4, RowStays DEF RelationsInv, RequestInv, EncounterKept, VotesKept
  <1>6. votes'[u][c] = s
    BY <1>1, <1>2, VoteUpdate DEF RelationsInv, RequestInv
  <1>7. s.phase # "idle" => s.match # NoMatch /\ VoteOK(u, c)'
    <2>1. /\ match[m] \in Hash /\ match[m].ttl > 0 /\ u \in match[m].parties
          /\ match' = [match EXCEPT ![m].connect = @ \cup {u}]
      BY DEF Vote, ConnectVote, In, Party, Live, ConsentInv, OnlyPartiesAct, Missing, TypeOK
    <2>2. match'[m] = [match[m] EXCEPT !.connect = @ \cup {u}]
      BY <2>1 DEF RelationsInv, RequestInv, TypeOK
    <2>3. match'[m].ttl > 0 /\ match'[m].parties = match[m].parties
      BY <2>1, <2>2 DEF Hash
    <2>4. met'[m] = [parties |-> match[m].parties, votes |-> match'[m].connect]
      BY <2>3 DEF Remember
    <2>5. s.phase # "idle" => Agreed(m)'
      BY <2>1, <2>4, <1>2 DEF Agreed
    <2>6. QED
      BY <2>5, <1>2, <1>6, StoreAssumption DEF VoteOK
  <1>8. TypeOK'
    BY TypeStep DEF Vote, Next, RelationsInv, RequestInv
  <1>9. QED
    BY <1>1, <1>2, <1>3, <1>5, <1>7, <1>8, OneVote

\* The reads of CurrentMatch, and the ends of a handler.
LEMMA VoteReads ==
  ASSUME RelationsInv, Remember, NEW u \in Users, NEW c \in Conns,
         \/ VoteReadsKey(u, c) \/ VoteReadsHash(u, c) \/ PersistFails(u, c) \/ VoteStops(u, c)
  PROVE  RelationsInv'
  <1> DEFINE m == votes[u][c].match
  <1>0. UNCHANGED storeVars /\ UNCHANGED rows /\ UNCHANGED asks
    BY DEF VoteReadsKey, VoteReadsHash, PersistFails, VoteStops
  <1>1. /\ TypeOK /\ votes[u][c] \in VoteStates
        /\ VoteOK(u, c)
        /\ votes[u][c].phase # "idle" => m \in Matches
    BY DEF RelationsInv, RequestInv, RequestsTypeOK, RequestsNamed, VoteStates
  <1>2. ASSUME NEW s \in VoteStates, VoteGoes(u, c, s), s.phase # "idle" => m # NoMatch /\ s.match = m,
               s.phase # "idle" => votes[u][c].phase # "idle",
               s.phase = "persisting" => s.pair = met[m].parties, s.phase # "publishing"
        PROVE  RelationsInv'
    <2>1. m \in Matches => MetKept(m)
      BY <1>0, StoreAlone, MetIsKept DEF RelationsInv
    <2>2. votes'[u][c] = s
      BY <1>2, VoteUpdate DEF RelationsInv, RequestInv
    <2>3. s.phase # "idle" => s.match # NoMatch /\ VoteOK(u, c)'
      BY <2>1, <2>2, <1>1, <1>2 DEF VoteOK, Agreed, MetKept
    <2>4. QED
      BY <2>3, <1>0, <1>2, StoreAlone, OneVote
  <1>3. ASSUME VoteGoes(u, c, NoVote) PROVE RelationsInv'
    BY <1>3, <1>2, NoVoteType
  <1>4. CASE PersistFails(u, c) \/ VoteStops(u, c)
    BY <1>3, <1>4 DEF PersistFails, VoteStops
  <1>5. CASE VoteReadsKey(u, c)
    <2>1. PICK s : /\ VoteGoes(u, c, s) /\ votes[u][c].phase = "voted"
                   /\ s = [votes[u][c] EXCEPT !.phase = "found"] \/ s = NoVote
      BY <1>5, Zenon DEF VoteReadsKey
    <2>2. CASE s = [votes[u][c] EXCEPT !.phase = "found"]
      <3>1. s \in VoteStates /\ s.phase = "found" /\ s.match = m
        BY <2>2, <1>1, VotePhase
      <3>2. m # NoMatch
        BY <2>1, <1>1, StoreAssumption
      <3>3. QED
        BY <3>1, <3>2, <2>1, <1>2
    <2>3. QED
      BY <2>1, <2>2, <1>3
  <1>6. CASE VoteReadsHash(u, c)
    <2>1. PICK s : /\ VoteGoes(u, c, s) /\ votes[u][c].phase = "found"
                   /\ \/ /\ Live(m)
                         /\ s = [votes[u][c] EXCEPT !.phase = "persisting",
                                                    !.pair = match[m].parties]
                      \/ s = NoVote
      BY <1>6, Zenon DEF VoteReadsHash
    <2>2. CASE /\ Live(m)
               /\ s = [votes[u][c] EXCEPT !.phase = "persisting", !.pair = match[m].parties]
      <3>1. match[m].parties \in SUBSET Users
        BY <2>1, <1>1 DEF TypeOK, Hash
      <3>2. s \in VoteStates /\ s.phase = "persisting" /\ s.match = m /\ s.pair = match[m].parties
        BY <2>2, <3>1, <1>1 DEF VoteStates
      <3>3. m # NoMatch
        BY <2>1, <1>1, StoreAssumption
      <3>4. s.pair = met[m].parties
        BY <3>2, <2>1, <2>2, <1>1 DEF RelationsInv, MetOK, Live
      <3>5. QED
        BY <3>2, <3>3, <3>4, <2>1, <1>2
    <2>3. QED
      BY <2>1, <2>2, <1>3
  <1>7. QED
    BY <1>4, <1>5, <1>6

LEMMA PersistKeeps ==
  ASSUME RelationsInv, Remember, NEW u \in Users, NEW c \in Conns, Persist(u, c)
  PROVE  RelationsInv'
  <1> DEFINE m == votes[u][c].match
             pair == votes[u][c].pair
  <1>1. /\ votes[u][c] \in VoteStates /\ m \in Matches /\ m # NoMatch
        /\ VoteOK(u, c) /\ RowOK(m) /\ rows[m] \in Rows
        /\ votes[u][c].phase = "persisting"
    BY StoreAssumption
       DEF Persist, RelationsInv, RequestInv, RequestsTypeOK, RequestsNamed, VoteStates
  <1>2. pair \in SUBSET Users
    BY <1>1 DEF VoteStates
  <1>3. PICK s : VoteGoes(u, c, s) /\ s = [votes[u][c] EXCEPT !.phase = "publishing"]
    BY DEF Persist
  <1>4. s \in VoteStates /\ s.phase = "publishing" /\ s.match = m
    BY <1>1, <1>3, VotePhase
  <1>5. PICK r : r = Connected(m, pair) /\ rows' = [rows EXCEPT ![m] = r]
    BY DEF Persist
  <1>6. r \in Rows /\ r.pair = pair /\ r.outcome = "connected"
    BY <1>1, <1>2, <1>5, ConnectedRow DEF RelationsInv, RequestInv
  <1>7. /\ rows' \in [Matches -> Rows] /\ rows'[m] = r
        /\ \A k \in Matches : k # m => rows'[k] = rows[k]
    BY <1>1, <1>5, <1>6 DEF RelationsInv, RequestInv, RequestsTypeOK
  <1>8. UNCHANGED vars /\ match' = match /\ asks' = asks
    BY DEF Persist, storeVars, vars
  <1>9. ASSUME NEW k \in Matches PROVE RowOK(k)' /\ VotesKept(k)
    <2>1. EncounterKept(k) /\ VotesKept(k) /\ MetKept(k)
      BY <1>8, MetIsKept DEF EncounterKept, VotesKept, RelationsInv, RequestInv, TypeOK, Hash
    <2>2. CASE k # m
      BY <2>1, <2>2, <1>7, RowStays DEF RelationsInv, RequestInv
    <2>3. CASE k = m
      BY <2>1, <2>3, <1>1, <1>6, <1>7, <1>8 DEF RowOK, VoteOK, Agreed, MetKept
    <2>4. QED
      BY <2>1, <2>2, <2>3
  <1>10. votes'[u][c] = s
    BY <1>3, <1>4, VoteUpdate DEF RelationsInv, RequestInv
  <1>11. VoteOK(u, c)'
    <2>1. MetKept(m)
      BY <1>1, <1>9, MetIsKept DEF RelationsInv
    <2>2. QED
      BY <2>1, <1>1, <1>4, <1>6, <1>7, <1>8, <1>10 DEF VoteOK, Agreed, MetKept
  <1>12. TypeOK'
    BY <1>8, TypeStep DEF RelationsInv, RequestInv
  <1>13. QED
    BY <1>1, <1>3, <1>4, <1>6, <1>7, <1>8, <1>9, <1>11, <1>12, OneVote

LEMMA PublishKeeps ==
  ASSUME RelationsInv, Remember, NEW u \in Users, NEW c \in Conns, Publish(u, c)
  PROVE  RelationsInv'
  <1> DEFINE m == votes[u][c].match
  <1>1. /\ m \in Matches /\ VoteOK(u, c) /\ TypeOK /\ votes[u][c].phase = "publishing"
    BY DEF Publish, RelationsInv, RequestInv, RequestsTypeOK, RequestsNamed, VoteStates
  <1>2. VoteGoes(u, c, NoVote) /\ rows' = rows /\ asks' = asks /\ rows' \in [Matches -> Rows]
    BY DEF Publish, RelationsInv, RequestInv, RequestsTypeOK
  <1>3. CASE UNCHANGED storeVars
    BY <1>2, <1>3, StoreAlone, OneVote, NoVoteType
  <1>4. CASE PublishConnection(m)
    <2>1. ASSUME NEW k \in Matches PROVE RowOK(k)' /\ VotesKept(k)
      <3>1. VotesKept(k) /\ (k # m => EncounterKept(k))
        BY <1>1, <1>4, PublishKept DEF VotesKept
      <3>2. CASE k # m
        BY <3>1, <3>2, <1>2, RowStays DEF RelationsInv, RequestInv
      <3>3. CASE k = m
        <4>1. RowOK(m) /\ rows[m].outcome = "connected"
          BY <1>1 DEF VoteOK, RelationsInv
        <4>2. QED
          BY <3>1, <3>3, <4>1, <1>2, MetIsKept DEF RelationsInv, RowOK, Agreed, MetKept
      <3>4. QED
        BY <3>1, <3>2, <3>3
    <2>2. TypeOK'
      BY <1>1, <1>4, PublishConnectionType
    <2>3. QED
      BY <2>1, <2>2, <1>2, OneVote, NoVoteType
  <1>5. QED
    BY <1>3, <1>4 DEF Publish

-----------------------------------------------------------------------------
(* The other requests, and everybody else.                                  *)

\* A step that keeps votes and touches a row, if any, without harm.
LEMMA OtherStep ==
  ASSUME RelationsInv, Remember, TypeOK', UNCHANGED votes, RequestsTypeOK', RequestsNamed',
         \A k \in Matches : RowOK(k)',
         \A k \in Matches : VotesKept(k) \/ UnknownMatch(k),
         \A k \in Matches : rows[k].outcome = "connected" => rows'[k].outcome = "connected"
  PROVE  RelationsInv'
  <1>1. ASSUME NEW u \in Users, NEW c \in Conns PROVE VoteOK(u, c)'
    BY VoteStays DEF RelationsInv, RequestInv
  <1>2. QED
    BY <1>1, MetStep DEF RelationsInv, RequestInv

LEMMA AskReads ==
  ASSUME RelationsInv, Remember, NEW u \in Users, NEW s \in AskStates, AskGoes(u, s),
         s.phase \in {"asked", "ending"} => s.match # NoMatch,
         UNCHANGED <<storeVars, rows, votes>>
  PROVE  RelationsInv'
  <1>1. RequestsTypeOK' /\ RequestsNamed'
    BY AskTypes DEF RelationsInv, RequestInv, RequestsTypeOK
  <1>2. QED
    BY <1>1, StoreAlone, OtherStep

LEMMA AskAboutMatchKeeps ==
  ASSUME RelationsInv, Remember, NEW u \in Users, NEW m \in Matches, NEW kind \in {"block", "report"},
         AskAboutMatch(u, kind, m)
  PROVE  RelationsInv'
  <1>1. PICK s : AskGoes(u, s) /\ s = [NoAsk EXCEPT !.phase = "asked", !.kind = kind, !.match = m]
    BY DEF AskAboutMatch
  <1>2. s \in AskStates /\ s.match = m
    BY <1>1 DEF NoAsk, AskStates
  <1>3. QED
    BY <1>1, <1>2, AskReads, StoreAssumption DEF AskAboutMatch

LEMMA AskAboutLinkKeeps ==
  ASSUME RelationsInv, Remember, NEW u \in Users, NEW v \in Users, NEW m \in Matches \cup {NoMatch},
         AskAboutLink(u, v, m)
  PROVE  RelationsInv'
  <1>1. PICK s : /\ AskGoes(u, s)
                 /\ s = [NoAsk EXCEPT !.phase = "authorized", !.match = m, !.target = {v}]
    BY DEF AskAboutLink
  <1>2. s \in AskStates /\ s.phase = "authorized"
    BY <1>1 DEF NoAsk, AskStates
  <1>3. QED
    BY <1>1, <1>2, AskReads DEF AskAboutLink

LEMMA AskReadsHashKeeps ==
  ASSUME RelationsInv, Remember, NEW u \in Users, AskReadsHash(u)
  PROVE  RelationsInv'
  <1>1. PICK s, t : /\ AskGoes(u, s)
                    /\ t = match[asks[u].match].parties \ {u}
                    /\ s = NoAsk \/ s = [asks[u] EXCEPT !.phase = "authorized", !.target = t]
    BY Zenon DEF AskReadsHash
  <1>2. asks[u] \in AskStates /\ asks[u].match \in Matches
    BY DEF AskReadsHash, RelationsInv, RequestInv, RequestsTypeOK, RequestsNamed, AskStates
  <1>3. match[asks[u].match].parties \in SUBSET Users
    BY <1>2 DEF RelationsInv, RequestInv, TypeOK, Hash
  <1>4. t \in SUBSET Users
    BY <1>1, <1>3
  <1>5. CASE s = NoAsk
    BY <1>1, <1>5, NoAskType, AskReads DEF AskReadsHash
  <1>6. CASE s = [asks[u] EXCEPT !.phase = "authorized", !.target = t]
    <2>1. s \in AskStates /\ s.phase = "authorized"
      BY <1>2, <1>4, <1>6 DEF AskStates
    <2>2. QED
      BY <1>1, <2>1, AskReads DEF AskReadsHash
  <1>7. QED
    BY <1>1, <1>5, <1>6

LEMMA AskStopsKeeps ==
  ASSUME RelationsInv, Remember, NEW u \in Users, AskStops(u) PROVE RelationsInv'
  BY AskReads, NoAskType DEF AskStops

\* A block and a removal end connections, and change nothing else of a row.
LEMMA EndedRow ==
  ASSUME RelationsInv, NEW m \in Matches, NEW r, r = [rows[m] EXCEPT !.link = "ended"],
         rows[m].link = "active"
  PROVE  r \in Rows /\ r.pair = rows[m].pair /\ r.outcome = "connected" /\ rows[m].outcome = "connected"
  <1>1. rows[m] \in Rows /\ RowOK(m)
    BY DEF RelationsInv, RequestInv, RequestsTypeOK
  <1>2. QED
    BY <1>1 DEF Rows, RowOK

LEMMA BlockKeeps ==
  ASSUME RelationsInv, Remember, NEW u \in Users, Block(u) PROVE RelationsInv'
  <1> DEFINE t(k) == rows[k].link = "active" /\ rows[k].pair = {u} \cup asks[u].target
  <1>1. \A k \in Matches : rows[k] \in Rows /\ RowOK(k)
    BY DEF RelationsInv, RequestInv, RequestsTypeOK
  <1>2. ASSUME NEW k \in Matches
        PROVE  /\ rows'[k] \in Rows /\ rows'[k].pair = rows[k].pair
               /\ rows'[k].outcome = rows[k].outcome
               /\ rows'[k].link # "none" => rows[k].link # "none"
    <2>1. CASE t(k)
      <3>1. rows'[k] = [rows[k] EXCEPT !.link = "ended"] /\ rows[k].link = "active"
        BY <2>1 DEF Block
      <3>2. QED
        BY <3>1, EndedRow
    <2>2. CASE ~t(k)
      BY <2>2, <1>1 DEF Block
    <2>3. QED
      BY <2>1, <2>2
  <1>3. rows' \in [Matches -> Rows]
    <2>1. rows' = [k \in Matches |-> rows'[k]]
      BY DEF Block
    <2>2. QED
      BY <2>1, <1>2
  <1>4. UNCHANGED vars /\ match' = match /\ UNCHANGED votes
    BY DEF Block, storeVars, vars
  <1>5. ASSUME NEW k \in Matches PROVE RowOK(k)' /\ VotesKept(k)
    <2>1. VotesKept(k) /\ MetKept(k)
      BY <1>4, MetIsKept DEF VotesKept, RelationsInv, RequestInv, TypeOK, Hash
    <2>2. QED
      BY <2>1, <1>1, <1>2, <1>4 DEF RowOK, Agreed, MetKept
  <1>6. PICK s : /\ AskGoes(u, s)
                 /\ \/ s = NoAsk
                    \/ asks[u].match # NoMatch /\ s = [asks[u] EXCEPT !.phase = "ending"]
    BY Zenon DEF Block
  <1>7. asks[u] \in AskStates
    BY DEF RelationsInv, RequestInv, RequestsTypeOK
  <1>8. s \in AskStates /\ (s.phase \in {"asked", "ending"} => s.match # NoMatch)
    BY <1>6, <1>7 DEF AskStates, NoAsk
  <1>9. RequestsTypeOK' /\ RequestsNamed'
    BY <1>3, <1>4, <1>6, <1>8, AskTypes DEF RelationsInv
  <1>10. TypeOK'
    BY <1>4, TypeStep DEF RelationsInv, RequestInv
  <1>11. QED
    BY <1>2, <1>4, <1>5, <1>9, <1>10, OtherStep

LEMMA RemoveKeeps ==
  ASSUME RelationsInv, Remember, NEW m \in Matches, Remove(m) PROVE RelationsInv'
  <1>1. PICK r : r = [rows[m] EXCEPT !.link = "ended"] /\ rows' = [rows EXCEPT ![m] = r]
    BY DEF Remove
  <1>2. r \in Rows /\ r.pair = rows[m].pair /\ r.outcome = "connected" /\ rows[m].outcome = "connected"
    BY <1>1, EndedRow DEF Remove
  <1>3. /\ rows' \in [Matches -> Rows] /\ rows'[m] = r
        /\ \A k \in Matches : k # m => rows'[k] = rows[k]
    BY <1>1, <1>2 DEF RelationsInv, RequestInv, RequestsTypeOK
  <1>4. UNCHANGED vars /\ match' = match /\ UNCHANGED <<votes, asks>>
    BY DEF Remove, storeVars, vars
  <1>5. ASSUME NEW k \in Matches PROVE RowOK(k)' /\ VotesKept(k)
    <2>1. VotesKept(k) /\ MetKept(k) /\ RowOK(k)
      BY <1>4, MetIsKept DEF VotesKept, RelationsInv, RequestInv, TypeOK, Hash
    <2>2. QED
      BY <2>1, <1>2, <1>3, <1>4 DEF RowOK, Agreed, MetKept
  <1>6. RequestsTypeOK' /\ RequestsNamed'
    BY <1>3, <1>4 DEF RelationsInv, RequestInv, RequestsTypeOK, RequestsNamed
  <1>7. TypeOK'
    BY <1>4, TypeStep DEF RelationsInv, RequestInv
  <1>8. QED
    BY <1>2, <1>3, <1>4, <1>5, <1>6, <1>7, OtherStep

\* A report records an encounter that has no row, and no other.
LEMMA ReportKeeps ==
  ASSUME RelationsInv, Remember, NEW u \in Users, Report(u) PROVE RelationsInv'
  <1> DEFINE m == asks[u].match
  <1>1. asks[u] \in AskStates /\ UNCHANGED storeVars /\ UNCHANGED votes /\ AskGoes(u, NoAsk)
    BY DEF Report, RelationsInv, RequestInv, RequestsTypeOK
  <1>2. CASE m \notin Matches \/ rows[m].outcome # "none"
    <2>1. rows' = rows
      BY <1>2 DEF Report, RelationsInv, RequestInv, RequestsTypeOK
    <2>2. QED
      BY <1>1, <2>1, AskReads, NoAskType
  <1>3. CASE m \in Matches /\ rows[m].outcome = "none"
    <2>1. PICK r : /\ r = [rows[m] EXCEPT !.pair = {u} \cup asks[u].target, !.outcome = "reported"]
                   /\ rows' = [rows EXCEPT ![m] = r]
      BY <1>3 DEF Report
    <2>2. rows[m] \in Rows /\ RowOK(m) /\ asks[u].target \in SUBSET Users
      BY <1>1, <1>3 DEF RelationsInv, RequestInv, RequestsTypeOK, AskStates
    <2>3. r \in Rows /\ r.outcome = "reported" /\ r.link = rows[m].link
      BY <2>1, <2>2 DEF Rows
    <2>4. /\ rows' \in [Matches -> Rows] /\ rows'[m] = r
          /\ \A k \in Matches : k # m => rows'[k] = rows[k]
      BY <1>3, <2>1, <2>3 DEF RelationsInv, RequestInv, RequestsTypeOK
    <2>5. UNCHANGED vars /\ match' = match
      BY <1>1 DEF storeVars, vars
    <2>6. ASSUME NEW k \in Matches PROVE RowOK(k)' /\ VotesKept(k)
      <3>1. VotesKept(k) /\ MetKept(k) /\ RowOK(k)
        BY <2>5, MetIsKept DEF VotesKept, RelationsInv, RequestInv, TypeOK, Hash
      <3>2. QED
        BY <3>1, <1>3, <2>2, <2>3, <2>4, <2>5 DEF RowOK, Agreed, MetKept
    <2>7. RequestsTypeOK' /\ RequestsNamed'
      BY <1>1, <2>4, NoAskType, AskTypes DEF RelationsInv
    <2>8. TypeOK'
      BY <2>5, TypeStep DEF RelationsInv, RequestInv
    <2>9. QED
      BY <1>1, <1>3, <2>4, <2>6, <2>7, <2>8, OtherStep
  <1>4. QED
    BY <1>2, <1>3

LEMMA BlockEndsKeeps ==
  ASSUME RelationsInv, Remember, NEW u \in Users, BlockEnds(u) PROVE RelationsInv'
  <1> DEFINE m == asks[u].match
  <1>1. /\ m \in Matches /\ TypeOK /\ AskGoes(u, NoAsk)
        /\ UNCHANGED <<rows, votes>> /\ rows' \in [Matches -> Rows]
    BY DEF BlockEnds, RelationsInv, RequestInv, RequestsTypeOK, RequestsNamed, AskStates
  <1>2. CASE UNCHANGED storeVars
    BY <1>1, <1>2, AskReads, NoAskType
  <1>3. CASE Drop(m)
    <2>1. ASSUME NEW k \in Matches PROVE RowOK(k)' /\ VotesKept(k)
      BY <1>1, <1>3, DropKept, RowStays DEF RelationsInv, RequestInv, EncounterKept, VotesKept
    <2>2. TypeOK'
      BY <1>1, <1>3, DropType
    <2>3. RequestsTypeOK' /\ RequestsNamed'
      BY <1>1, NoAskType, AskTypes DEF RelationsInv
    <2>4. QED
      BY <1>1, <2>1, <2>2, <2>3, OtherStep
  <1>4. QED
    BY <1>2, <1>3 DEF BlockEnds, EndForUser

LEMMA UnblockKeeps ==
  ASSUME RelationsInv, Remember, NEW u, NEW v, Unblock(u, v) PROVE RelationsInv'
  <1>1. UNCHANGED storeVars /\ UNCHANGED rows /\ UNCHANGED votes /\ UNCHANGED asks
    BY DEF Unblock
  <1>2. RequestsTypeOK' /\ RequestsNamed'
    BY <1>1 DEF RelationsInv, RequestInv, RequestsTypeOK, RequestsNamed
  <1>3. QED
    BY <1>1, <1>2, StoreAlone, OtherStep

LEMMA OthersKeep ==
  ASSUME RelationsInv, Remember, Others PROVE RelationsInv'
  <1>1. UNCHANGED rows /\ UNCHANGED votes /\ UNCHANGED asks
    BY DEF Others
  <1>2. TypeOK'
    BY TypeStep DEF Others, Next, RelationsInv, RequestInv
  <1>3. ASSUME NEW k \in Matches PROVE RowOK(k)' /\ (VotesKept(k) \/ UnknownMatch(k))
    BY <1>1, OthersKept, RowStays DEF RelationsInv, RequestInv, EncounterKept, VotesKept
  <1>4. RequestsTypeOK' /\ RequestsNamed'
    BY <1>1 DEF RelationsInv, RequestInv, RequestsTypeOK, RequestsNamed
  <1>5. QED
    BY <1>1, <1>2, <1>3, <1>4, OtherStep

LEMMA RelationsStep ==
  ASSUME RelationsInv, ConsentInv, [RelationsNext]_rvars PROVE RelationsInv' /\ ConsentInv'
  <1>1. ConsentInv'
    BY StoreStep, ConsentStep DEF RelationsInv
  <1>2. ASSUME UNCHANGED rvars PROVE RelationsInv'
    <2>1. UNCHANGED storeVars /\ UNCHANGED rows /\ UNCHANGED votes /\ UNCHANGED asks
      BY <1>2 DEF rvars, storeVars, vars
    <2>2. RequestsTypeOK' /\ RequestsNamed'
      BY <2>1 DEF RelationsInv, RequestInv, RequestsTypeOK, RequestsNamed
    <2>3. Remember
      BY <1>2, MetStutters DEF RelationsInv
    <2>4. QED
      BY <2>1, <2>2, <2>3, StoreAlone, OtherStep
  <1>3. ASSUME RequestsNext, Remember PROVE RelationsInv'
    BY <1>3, VoteKeeps, VoteReads, PersistKeeps, PublishKeeps, AskAboutMatchKeeps,
       AskAboutLinkKeeps, AskReadsHashKeeps, AskStopsKeeps, BlockKeeps, BlockEndsKeeps,
       ReportKeeps, UnblockKeeps, RemoveKeeps, OthersKeep DEF RequestsNext
  <1>4. QED
    BY <1>1, <1>2, <1>3 DEF RelationsNext

LEMMA RelationsAlways == RelationsSpec => [](RelationsInv /\ ConsentInv)
  <1>1. RelationsInit => RelationsInv /\ ConsentInv
    <2>1. SUFFICES ASSUME RelationsInit PROVE RelationsInv /\ ConsentInv
      OBVIOUS
    <2>2. TypeOK
      BY <2>1, MissingIsHash, StoreAssumption
         DEF RelationsInit, Init, TypeOK, NoPresence, NoUserMatch, Never
    <2>3. RequestsTypeOK /\ RequestsNamed
      BY <2>1, NoVoteType, NoAskType
         DEF RelationsInit, RequestsTypeOK, RequestsNamed, NoRow, Rows
    <2>4. ASSUME NEW m \in Matches PROVE RowOK(m)
      BY <2>1 DEF RelationsInit, Init, RowOK, NoRow, Missing
    <2>5. ASSUME NEW u \in Users, NEW c \in Conns PROVE VoteOK(u, c)
      BY <2>1, NoVoteType DEF RelationsInit, VoteOK
    <2>6. MetOK
      BY <2>1 DEF RelationsInit, Init, MetOK, NoMeeting, Missing
    <2>7. OnlyPartiesAct /\ ConsentIsMutual
      BY <2>1 DEF RelationsInit, Init, OnlyPartiesAct, ConsentIsMutual, Live, Missing
    <2>8. QED
      BY <2>2, <2>3, <2>4, <2>5, <2>6, <2>7 DEF RelationsInv, RequestInv, ConsentInv
  <1>2. RelationsInv /\ ConsentInv /\ [RelationsNext]_rvars => (RelationsInv /\ ConsentInv)'
    BY RelationsStep
  <1>3. QED
    BY <1>1, <1>2, PTL DEF RelationsSpec

-----------------------------------------------------------------------------
\* Requests that read and write in several steps do to the store what its scripts
\* do: whatever holds of the store holds under them.
THEOREM RelationsImplementStore == RelationsSpec => Spec
  <1>1. RelationsInit => Init
    BY DEF RelationsInit
  <1>2. RelationsInv /\ [RelationsNext]_rvars => [Next]_vars
    BY StoreStep DEF RelationsInv
  <1>3. QED
    BY <1>1, <1>2, RelationsAlways, PTL DEF RelationsSpec, Spec

\* Only those who met have voted, in what is remembered as in the hash.
MetTogether == \A m \in Matches : met[m].votes \subseteq met[m].parties

LEMMA MetTogetherAlways == RelationsSpec => []MetTogether
  <1>1. RelationsInit => MetTogether
    BY DEF RelationsInit, MetTogether, NoMeeting
  <1>2. MetTogether /\ RelationsInv /\ ConsentInv' /\ [RelationsNext]_rvars => MetTogether'
    <2>1. SUFFICES ASSUME MetTogether, RelationsInv, ConsentInv', [RelationsNext]_rvars,
                          NEW m \in Matches
                   PROVE  met'[m].votes \subseteq met'[m].parties
      BY DEF MetTogether
    <2>2. Remember
      BY <2>1, MetStutters DEF RelationsNext, RelationsInv
    <2>3. CASE match'[m].ttl > 0
      BY <2>1, <2>2, <2>3 DEF Remember, ConsentInv, OnlyPartiesAct
    <2>4. CASE ~(match'[m].ttl > 0)
      BY <2>1, <2>2, <2>4 DEF Remember, MetTogether
    <2>5. QED
      BY <2>3, <2>4
  <1>3. QED
    BY <1>1, <1>2, RelationsAlways, PTL DEF RelationsSpec

\* A connection is made only of an encounter in which both users asked for it, and
\* between just these two, though it is written three calls after the second vote
\* (the connect vote's handler, PersistConnection): the rows say so too when the
\* encounter was over, and its hash gone, by then, and from then on.
THEOREM RelationsMutual == RelationsSpec => []LinkedByMutualVotes
  <1>1. RelationsInv /\ MetTogether => LinkedByMutualVotes
    BY DEF RelationsInv, RowOK, Agreed, MetTogether, LinkedByMutualVotes
  <1>2. QED
    BY <1>1, RelationsAlways, MetTogetherAlways, PTL

\* connection.created is published only of what PostgreSQL holds.
THEOREM RelationsPersist == RelationsSpec => []PublishedIsPersisted
  <1>1. RelationsInv => PublishedIsPersisted
    BY DEF RelationsInv, RowOK, PublishedIsPersisted
  <1>2. QED
    BY <1>1, RelationsAlways, PTL

\* A connection that was removed, or ended by a block, does not come back from the
\* same encounter, and a report does not hide that the two were connected.
THEOREM RelationsEnd == RelationsSpec => EndedStaysEnded
  <1> DEFINE RowKept(m) == /\ rows[m].link = "ended" => rows'[m].link = "ended"
                           /\ rows[m].outcome = "connected" => rows'[m].outcome = "connected"
  <1>1. ASSUME RelationsInv, [RelationsNext]_rvars, NEW m \in Matches PROVE RowKept(m)
    <2>1. rows \in [Matches -> Rows]
      BY <1>1 DEF RelationsInv, RequestInv, RequestsTypeOK
    <2>2. CASE rows' = rows
      BY <2>2
    <2>3. ASSUME NEW u \in Users, NEW c \in Conns, Persist(u, c) PROVE RowKept(m)
      <3> DEFINE k == votes[u][c].match
                 pair == votes[u][c].pair
      <3>1. k \in Matches /\ pair \in SUBSET Users /\ (Linked(pair) \/ rows[k].link = "none")
        BY <1>1, <2>3
           DEF Persist, RelationsInv, RequestInv, RequestsTypeOK, RequestsNamed, VoteStates
      <3>2. PICK r : r = Connected(k, pair) /\ rows' = [rows EXCEPT ![k] = r]
        BY <2>3 DEF Persist
      <3>3. r.outcome = "connected" /\ r.link = IF Linked(pair) THEN rows[k].link ELSE "active"
        BY <3>1, <3>2, <1>1, ConnectedRow DEF RelationsInv, RequestInv
      <3>4. QED
        BY <3>1, <3>2, <3>3, <2>1
    <2>4. ASSUME NEW u \in Users, Block(u) PROVE RowKept(m)
      <3>1. rows[m] \in Rows
        BY <2>1
      <3>2. rows'[m] = [rows[m] EXCEPT !.link = "ended"] \/ rows'[m] = rows[m]
        BY <2>4 DEF Block
      <3>3. QED
        BY <3>1, <3>2 DEF Rows
    <2>5. ASSUME NEW u \in Users, Report(u) PROVE RowKept(m)
      <3>1. \/ rows'[m] = rows[m]
            \/ rows[m].outcome = "none" /\ \E p : rows'[m] = [rows[m] EXCEPT !.pair = p, !.outcome = "reported"]
        BY <2>1, <2>5 DEF Report
      <3>2. rows[m] \in Rows
        BY <2>1
      <3>3. QED
        BY <3>1, <3>2 DEF Rows
    <2>6. ASSUME NEW k \in Matches, Remove(k) PROVE RowKept(m)
      <3>1. rows'[m] = [rows[m] EXCEPT !.link = "ended"] \/ rows'[m] = rows[m]
        BY <2>1, <2>6 DEF Remove
      <3>2. rows[m] \in Rows
        BY <2>1
      <3>3. QED
        BY <3>1, <3>2 DEF Rows
    <2> HIDE DEF RowKept
    <2>7. \/ rows' = rows
          \/ \E u \in Users, c \in Conns : Persist(u, c)
          \/ \E u \in Users : Block(u) \/ Report(u)
          \/ \E k \in Matches : Remove(k)
      BY <1>1 DEF rvars, RelationsNext, RequestsNext, Vote, VoteReadsKey, VoteReadsHash, PersistFails, Publish,
         VoteStops, AskAboutMatch, AskAboutLink, AskReadsHash, BlockEnds, AskStops, Unblock, Others
    <2>8. QED
      BY <2>2, <2>3, <2>4, <2>5, <2>6, <2>7
  <1>2. RelationsInv /\ [RelationsNext]_rvars => \A m \in Matches : RowKept(m)
    BY <1>1
  <1>3. QED
    BY <1>2, RelationsAlways, PTL DEF RelationsSpec, EndedStaysEnded
=============================================================================
