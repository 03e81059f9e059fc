---------------------------- MODULE Relationships ----------------------------
(***************************************************************************)
(* What is left of an encounter in PostgreSQL, and the requests that write  *)
(* it while the encounter itself lives in Redis: the connect vote of        *)
(* discovery/handler.go with PersistConnection of discovery/repository.go,  *)
(* and the block, unblock, report and remove endpoints of social/social.go. *)
(*                                                                         *)
(* A request reads and writes the two stores in separate steps: each Redis  *)
(* call and each transaction is one step, and everybody else acts between   *)
(* them.  Whom the store pairs is not restricted here: an eligibility check *)
(* made before a claim (Matchmaker) may be stale when the claim is made.    *)
(***************************************************************************)
EXTENDS EncounterStore

VARIABLES
    blocks,     \* table blocks: <<who blocked, who is blocked>>
    rows,       \* tables encounters and connections, by encounter
    votes,      \* the connect vote that a socket's handler is at
    asks,       \* the block or report request that a user is at
    met         \* history: who met in an encounter, and who of them has voted

storeVars == vars
rvars == <<presence, queue, userMatch, match, recent, deadlines, graces,
           blocks, rows, votes, asks, met>>

NoRow  == [pair |-> {}, outcome |-> "none", link |-> "none"]
NoVote == [phase |-> "idle", match |-> NoMatch, pair |-> {}]
NoMeeting == [parties |-> {}, votes |-> {}]
NoAsk  == [phase |-> "idle", kind |-> "block", match |-> NoMatch, target |-> {}]

\* The unordered pair has an active connection.
Linked(pair) == \E m \in Matches : rows[m].link = "active" /\ rows[m].pair = pair

VoteGoes(u, c, state) == votes' = [votes EXCEPT ![u][c] = state]
AskGoes(u, state)     == asks' = [asks EXCEPT ![u] = state]

\* What one transaction of PersistConnection leaves of m: the encounter, and
\* the connection unless the pair has an active one.
Connected(m, pair) ==
    [pair |-> pair, outcome |-> "connected",
     link |-> IF Linked(pair) THEN rows[m].link ELSE "active"]

-----------------------------------------------------------------------------
(* Faulty variants, as in EncounterStore.                                  *)

\* goes on after the first vote as after the second
VoteAlone(u, c, m) ==
    /\ votes[u][c].phase = "idle"
    /\ ConnectVote(u, c, m)
    /\ VoteGoes(u, c, [NoVote EXCEPT !.phase = "voted", !.match = m])
    /\ UNCHANGED <<blocks, rows, asks>>

\* connections without the UNIQUE of encounter_id
PersistAgain(u, c) ==
    /\ votes[u][c].phase = "persisting"
    /\ rows' = [rows EXCEPT ![votes[u][c].match] = Connected(votes[u][c].match, votes[u][c].pair)]
    /\ VoteGoes(u, c, [votes[u][c] EXCEPT !.phase = "publishing"])
    /\ UNCHANGED <<storeVars, blocks, asks>>

\* publishes although the transaction failed
PersistFailsOn(u, c) ==
    /\ votes[u][c].phase = "persisting"
    /\ VoteGoes(u, c, [votes[u][c] EXCEPT !.phase = "publishing"])
    /\ UNCHANGED <<storeVars, blocks, rows, asks>>

-----------------------------------------------------------------------------
RelationsInit ==
    /\ Init
    /\ blocks = {}
    /\ rows = [m \in Matches |-> NoRow]
    /\ votes = [u \in Users |-> [c \in Conns |-> NoVote]]
    /\ asks = [u \in Users |-> NoAsk]
    /\ met = [m \in Matches |-> NoMeeting]

(* match.connect: the vote; for the second one CurrentMatch, in two reads;  *)
(* PersistConnection; PublishConnection.                                    *)

Vote(u, c, m) ==
    /\ votes[u][c].phase = "idle"
    /\ ConnectVote(u, c, m)
    /\ VoteGoes(u, c, IF match[m].parties \subseteq match'[m].connect
                      THEN [NoVote EXCEPT !.phase = "voted", !.match = m] ELSE NoVote)
    /\ UNCHANGED <<blocks, rows, asks>>

VoteReadsKey(u, c) ==
    /\ votes[u][c].phase = "voted"
    /\ VoteGoes(u, c, IF userMatch[u].match = votes[u][c].match
                      THEN [votes[u][c] EXCEPT !.phase = "found"] ELSE NoVote)
    /\ UNCHANGED <<storeVars, blocks, rows, asks>>

VoteReadsHash(u, c) ==
    LET m == votes[u][c].match IN
    /\ votes[u][c].phase = "found"
    /\ VoteGoes(u, c, IF Live(m)
                      THEN [votes[u][c] EXCEPT !.phase = "persisting", !.pair = match[m].parties]
                      ELSE NoVote)
    /\ UNCHANGED <<storeVars, blocks, rows, asks>>

\* The second connection of one encounter breaks a UNIQUE: PersistFails.
Persist(u, c) ==
    LET m == votes[u][c].match  pair == votes[u][c].pair IN
    /\ votes[u][c].phase = "persisting"
    /\ Linked(pair) \/ rows[m].link = "none"
    /\ rows' = [rows EXCEPT ![m] = Connected(m, pair)]
    /\ VoteGoes(u, c, [votes[u][c] EXCEPT !.phase = "publishing"])
    /\ UNCHANGED <<storeVars, blocks, asks>>

PersistFails(u, c) ==
    /\ votes[u][c].phase = "persisting"
    /\ VoteGoes(u, c, NoVote)
    /\ UNCHANGED <<storeVars, blocks, rows, asks>>

\* Refused or failed, the handler does not look.
Publish(u, c) ==
    /\ votes[u][c].phase = "publishing"
    /\ PublishConnection(votes[u][c].match) \/ UNCHANGED storeVars
    /\ VoteGoes(u, c, NoVote)
    /\ UNCHANGED <<blocks, rows, asks>>

(* block and report, for the peer of an encounter (CurrentMatch, in two     *)
(* reads) or of a connection (ConnectionPeer).                              *)

AskAboutMatch(u, kind, m) ==
    /\ asks[u].phase = "idle"
    /\ userMatch[u].match = m
    /\ AskGoes(u, [NoAsk EXCEPT !.phase = "asked", !.kind = kind, !.match = m])
    /\ UNCHANGED <<storeVars, blocks, rows, votes>>

AskReadsHash(u) ==
    LET m == asks[u].match IN
    /\ asks[u].phase = "asked"
    /\ AskGoes(u, IF Party(u, m)
                  THEN [asks[u] EXCEPT !.phase = "authorized", !.target = match[m].parties \ {u}]
                  ELSE NoAsk)
    /\ UNCHANGED <<storeVars, blocks, rows, votes>>

\* A block of a connection's peer may name an encounter too, any one, which
\* then authorizes nothing but is ended; a report of one leaves no trace here.
AskAboutLink(u, v, m) ==
    /\ asks[u].phase = "idle"
    /\ u # v /\ Linked({u, v})
    /\ AskGoes(u, [NoAsk EXCEPT !.phase = "authorized", !.match = m, !.target = {v}])
    /\ UNCHANGED <<storeVars, blocks, rows, votes>>

Block(u) ==
    /\ asks[u].phase = "authorized" /\ asks[u].kind = "block"
    /\ blocks' = blocks \cup ({u} \X asks[u].target)
    /\ rows' = [m \in Matches |->
                   IF rows[m].link = "active" /\ rows[m].pair = {u} \cup asks[u].target
                   THEN [rows[m] EXCEPT !.link = "ended"] ELSE rows[m]]
    /\ AskGoes(u, IF asks[u].match = NoMatch THEN NoAsk ELSE [asks[u] EXCEPT !.phase = "ending"])
    /\ UNCHANGED <<storeVars, votes>>

\* Refused or failed, the handler does not look.
BlockEnds(u) ==
    /\ asks[u].phase = "ending"
    /\ EndForUser(u, asks[u].match) \/ UNCHANGED storeVars
    /\ AskGoes(u, NoAsk)
    /\ UNCHANGED <<blocks, rows, votes>>

\* ReportMatch records the encounter unless it is recorded already.
Report(u) ==
    LET m == asks[u].match IN
    /\ asks[u].phase = "authorized" /\ asks[u].kind = "report"
    /\ rows' = [rows EXCEPT ![m] = IF @.outcome = "none"
                                   THEN [@ EXCEPT !.pair = {u} \cup asks[u].target,
                                                  !.outcome = "reported"] ELSE @]
    /\ AskGoes(u, NoAsk)
    /\ UNCHANGED <<storeVars, blocks, votes>>

\* The transaction fails, or the server dies before it or after it.
AskStops(u) ==
    /\ asks[u].phase # "idle"
    /\ AskGoes(u, NoAsk)
    /\ UNCHANGED <<storeVars, blocks, rows, votes>>

Unblock(u, v) ==
    /\ <<u, v>> \in blocks
    /\ blocks' = blocks \ {<<u, v>>}
    /\ UNCHANGED <<storeVars, rows, votes, asks>>

\* Either user of an active connection may end it.
Remove(m) ==
    /\ rows[m].link = "active"
    /\ rows' = [rows EXCEPT ![m].link = "ended"]
    /\ UNCHANGED <<storeVars, blocks, votes, asks>>

(* Everybody else: the store's other operations.  Ids are not used twice.   *)

UnknownMatch(m) ==
    /\ rows[m] = NoRow
    /\ \A u \in Users : asks[u].match # m /\ \A c \in Conns : votes[u][c].match # m

\* A socket that goes, or whose server dies, takes its handler with it.
Others ==
    /\ \/ \E u \in Users, c \in Conns :
             \/ Connect(u, c) /\ votes[u][c] = NoVote
             \/ Heartbeat(u, c) \/ Enqueue(u, c) \/ LeaveQueue(u, c) \/ CleanupQueued(u, c)
             \/ Disconnect(u, c)
             \/ \E m \in Matches : Reconnect(u, c, m) \/ EndMatch(u, c, m) \/ Extend(u, c, m)
       \/ \E u, v \in Users, cu, cv \in Conns, m \in Matches :
             UnknownMatch(m) /\ Claim(u, v, cu, cv, m, TRUE)
       \/ \E m \in Matches : Expire(m) \/ \E u \in Users : DisconnectExpiry(m, u)
       \/ \E pair \in SUBSET Users : RecentLapses(pair)
       \/ Tick
    /\ UNCHANGED <<blocks, rows, votes, asks>>

VoteStops(u, c) ==
    /\ votes[u][c].phase # "idle"
    /\ VoteGoes(u, c, NoVote)
    /\ UNCHANGED <<storeVars, blocks, rows, asks>>

RequestsNext ==
    \/ \E u \in Users, c \in Conns :
          \/ \E m \in Matches : Vote(u, c, m)
          \/ VoteReadsKey(u, c) \/ VoteReadsHash(u, c) \/ Persist(u, c) \/ PersistFails(u, c)
          \/ Publish(u, c) \/ VoteStops(u, c)
    \/ \E u \in Users :
          \/ \E m \in Matches, kind \in {"block", "report"} : AskAboutMatch(u, kind, m)
          \/ \E v \in Users, m \in Matches \cup {NoMatch} : AskAboutLink(u, v, m)
          \/ AskReadsHash(u) \/ Block(u) \/ BlockEnds(u) \/ Report(u) \/ AskStops(u)
          \/ \E v \in Users : Unblock(u, v)
    \/ \E m \in Matches : Remove(m)
    \/ Others

\* What the properties remember of an encounter when its hash is gone: no
\* request reads it.
Remember ==
    met' = [m \in Matches |->
               IF match'[m].ttl > 0
               THEN [parties |-> match'[m].parties, votes |-> match'[m].connect] ELSE met[m]]

RelationsNext == RequestsNext /\ Remember

RelationsSpec == RelationsInit /\ [][RelationsNext]_rvars

-----------------------------------------------------------------------------

\* A connection is made only of an encounter in which both users asked for it,
\* and between just these two, though the encounter may be over, and its hash
\* gone from Redis, by the time it is written, and afterwards.
LinkedByMutualVotes ==
    \A m \in Matches :
        /\ rows[m].outcome = "connected" =>
              /\ met[m].parties # {} /\ met[m].votes = met[m].parties
              /\ rows[m].pair = met[m].parties
        /\ rows[m].link # "none" => rows[m].outcome = "connected"

\* connection.created is published only of what PostgreSQL holds.
PublishedIsPersisted ==
    \A m \in Matches : match[m].created => rows[m].outcome = "connected"

\* A connection that was removed, or ended by a block, does not come back from
\* the same encounter, whatever handler of it is late or asked again; and a
\* report of it does not hide that the two were connected.
EndedStaysEnded ==
    [][\A m \in Matches :
          /\ rows[m].link = "ended" => rows'[m].link = "ended"
          /\ rows[m].outcome = "connected" => rows'[m].outcome = "connected"]_rvars
=============================================================================
