---------------------------- MODULE EncounterStore ----------------------------
(***************************************************************************)
(* The Redis state of discovery: presence, the waiting queue, encounters   *)
(* and their two deadline schedules (internal/discovery/store.go).  Every  *)
(* Lua script is one atomic action, taken with any arguments a socket, the *)
(* block endpoint or the sweeper may pass; what those callers read before  *)
(* they call is modelled by the modules that compose this one.             *)
(*                                                                         *)
(* Time.  A key with a TTL holds the ticks it has left and is gone at 0; a *)
(* deadline holds the ticks to go and is due ("<= now") at 0.  Tick passes *)
(* one unit for all of them, so behaviours are unbounded and the state is  *)
(* finite.  A script's clock argument is taken to be the time at which the *)
(* script runs: a call lasts much less than a tick.                        *)
(***************************************************************************)
EXTENDS Integers

CONSTANTS
    Users,
    Conns, NoConn,        \* ids of sockets, and the missing id
    Matches, NoMatch,     \* ids of encounters, and the missing id
    presenceTTL,          \* 40 s, in ticks, as are the three below
    reconnectGrace,       \* 45 s
    encounterLength,      \* 60 s
    matchTTL              \* 300 s

ASSUME StoreAssumption ==
    /\ NoConn \notin Conns
    /\ NoMatch \notin Matches
    /\ presenceTTL \in Nat \ {0}
    /\ reconnectGrace \in Nat \ {0}
    /\ encounterLength \in Nat \ {0}
    /\ matchTTL \in Nat \ {0}

VARIABLES
    presence,     \* presence:<user>, the socket that speaks for the user
    queue,        \* queue and preferences: the socket each waiting user joined on
    userMatch,    \* user-match:<user>, the encounter the user is in
    match,        \* match:<id>, the encounter itself
    recent,       \* recent:<pair>, the pairs that met less than recentTTL ago
    deadlines,    \* deadlines: when the sweeper ends an encounter
    graces        \* disconnect-deadlines: when it gives up on a lost user

vars == <<presence, queue, userMatch, match, recent, deadlines, graces>>

-----------------------------------------------------------------------------
Never == -1                       \* no such field or member

NoPresence  == [conn |-> NoConn, ttl |-> 0]
NoUserMatch == [match |-> NoMatch, ttl |-> 0]
Missing ==
    [ttl |-> 0, parties |-> {}, state |-> "missing", left |-> 0, extend |-> {},
     connect |-> {}, created |-> FALSE, gone |-> [u \in Users |-> Never]]

Live(m)   == match[m].ttl > 0
Party(u, m) == u \in match[m].parties

\* The checks the scripts start with: the socket speaks for the user, the
\* user is in the encounter, and the encounter names the user.
Speaks(u, c) == c # NoConn /\ presence[u].conn = c
In(u, m)     == userMatch[u].match = m /\ Party(u, m)

\* The user may take the encounter up again: its grace is not over.
MayReturn(u, c, m) == Speaks(u, c) /\ In(u, m) /\ match[m].gone[u] # 0

\* The pair may be claimed: both are there, waiting and in no encounter.  That
\* it was v's socket cv that put v in the queue is not checked.
MayClaim(u, v, cu, cv, allowRecent) ==
    /\ u # v
    /\ Speaks(u, cu) /\ Speaks(v, cv)
    /\ userMatch[u] = NoUserMatch /\ userMatch[v] = NoUserMatch
    /\ queue[u] # NoConn /\ queue[v] # NoConn
    /\ {u, v} \in recent => allowRecent

\* A new random id, which no key of the store mentions.
FreshConn(u, c)  == c # presence[u].conn /\ c # queue[u]
FreshMatch(m) ==
    /\ ~Live(m)
    /\ deadlines[m] = Never
    /\ \A u \in Users : graces[m][u] = Never /\ userMatch[u].match # m

\* The last lines of the four scripts that end an encounter.  Both parties'
\* user-match keys are deleted whatever they hold.
Drop(m) ==
    /\ userMatch' = [u \in Users |-> IF Party(u, m) THEN NoUserMatch ELSE userMatch[u]]
    /\ deadlines' = [deadlines EXCEPT ![m] = Never]
    /\ graces' = [graces EXCEPT ![m] = [u \in Users |-> IF Party(u, m) THEN Never ELSE @[u]]]
    /\ match' = [match EXCEPT ![m] = Missing]
    /\ UNCHANGED <<presence, queue, recent>>

-----------------------------------------------------------------------------
(* Faulty variants of the actions below, each with one slip a script could  *)
(* have.  No action of Next uses them: they show what each property detects. *)

\* renews user-match but not the encounter it leads to
HeartbeatOwnKeysOnly(u, c) ==
    /\ Speaks(u, c)
    /\ presence' = [presence EXCEPT ![u].ttl = presenceTTL]
    /\ userMatch' = [userMatch EXCEPT ![u].ttl =
                        IF userMatch[u] = NoUserMatch THEN 0 ELSE matchTTL]
    /\ UNCHANGED <<queue, match, recent, deadlines, graces>>

\* does not look for an encounter the user is in
EnqueueUnchecked(u, c) ==
    /\ Speaks(u, c)
    /\ queue' = [queue EXCEPT ![u] = c]
    /\ UNCHANGED <<presence, userMatch, match, recent, deadlines, graces>>

\* clears the encounter's field but leaves the member in the schedule
ReconnectLeavesMember(u, c, m) ==
    /\ MayReturn(u, c, m)
    /\ match' = [match EXCEPT ![m].gone[u] = Never]
    /\ UNCHANGED <<presence, queue, userMatch, recent, deadlines, graces>>

\* forgets to compare the deadline with the clock
OpenWithoutClock(m) == match[m].state \in {"active", "extended"}

\* ends what it finds but does not clear a member whose encounter is gone
ExpireLiveOnly(m) ==
    /\ deadlines[m] = 0
    /\ match[m].state = "active" /\ match[m].left = 0
    /\ Drop(m)

\* compares with the deadline the wrong way round
ExpireEarlyOnly(m) ==
    /\ deadlines[m] = 0
    /\ \/ /\ ~Live(m)
          /\ deadlines' = [deadlines EXCEPT ![m] = Never]
          /\ UNCHANGED <<presence, queue, userMatch, match, recent, graces>>
       \/ /\ match[m].state = "active" /\ match[m].left > 0
          /\ Drop(m)

\* is called with its two spans in the wrong order
HeartbeatSwapped(u, c) ==
    LET m == userMatch[u].match IN
    /\ Speaks(u, c)
    /\ presence' = [presence EXCEPT ![u].ttl = matchTTL]
    /\ \/ m = NoMatch /\ UNCHANGED <<userMatch, match>>
       \/ /\ m # NoMatch
          /\ userMatch' = [userMatch EXCEPT ![u].ttl = presenceTTL]
          /\ match' = [match EXCEPT ![m].ttl = IF Live(m) THEN presenceTTL ELSE 0]
    /\ UNCHANGED <<queue, recent, deadlines, graces>>

\* does not compare the socket with the one that speaks for the user
DisconnectAnybody(u, c) ==
    /\ presence' = [presence EXCEPT ![u] = NoPresence]
    /\ queue' = [queue EXCEPT ![u] = NoConn]
    /\ \/ \E m \in Matches :
             /\ In(u, m)
             /\ match' = [match EXCEPT ![m].gone[u] = reconnectGrace]
             /\ graces' = [graces EXCEPT ![m][u] = reconnectGrace]
       \/ /\ \A m \in Matches : ~In(u, m)
          /\ UNCHANGED <<match, graces>>
    /\ UNCHANGED <<userMatch, recent, deadlines>>

-----------------------------------------------------------------------------
\* Votes are taken: the encounter is extended, or its minute is not over.
Open(m) == match[m].state = "extended" \/ (match[m].state = "active" /\ match[m].left > 0)

Init ==
    /\ presence = [u \in Users |-> NoPresence]
    /\ queue = [u \in Users |-> NoConn]
    /\ userMatch = [u \in Users |-> NoUserMatch]
    /\ match = [m \in Matches |-> Missing]
    /\ recent = {}
    /\ deadlines = [m \in Matches |-> Never]
    /\ graces = [m \in Matches |-> [u \in Users |-> Never]]

Connect(u, c) ==
    /\ FreshConn(u, c)
    /\ presence' = [presence EXCEPT ![u] = [conn |-> c, ttl |-> presenceTTL]]
    /\ UNCHANGED <<queue, userMatch, match, recent, deadlines, graces>>

\* Renews the user's own keys and the encounter, but not the peer's user-match.
Heartbeat(u, c) ==
    LET m == userMatch[u].match IN
    /\ Speaks(u, c)
    /\ presence' = [presence EXCEPT ![u].ttl = presenceTTL]
    /\ \/ /\ m = NoMatch
          /\ UNCHANGED <<userMatch, match>>
       \/ /\ m # NoMatch
          /\ userMatch' = [userMatch EXCEPT ![u].ttl = matchTTL]
          /\ match' = [match EXCEPT ![m].ttl = IF Live(m) THEN matchTTL ELSE 0]
    /\ UNCHANGED <<queue, recent, deadlines, graces>>

Enqueue(u, c) ==
    /\ Speaks(u, c)
    /\ userMatch[u] = NoUserMatch
    /\ queue' = [queue EXCEPT ![u] = c]
    /\ UNCHANGED <<presence, userMatch, match, recent, deadlines, graces>>

LeaveQueue(u, c) ==
    /\ Speaks(u, c)
    /\ queue' = [queue EXCEPT ![u] = NoConn]
    /\ UNCHANGED <<presence, userMatch, match, recent, deadlines, graces>>

\* Another user's search met an entry whose socket no longer speaks for u.
CleanupQueued(u, c) ==
    /\ queue[u] = c
    /\ presence[u].conn # c
    /\ queue' = [queue EXCEPT ![u] = NoConn]
    /\ UNCHANGED <<presence, userMatch, match, recent, deadlines, graces>>

Reconnect(u, c, m) ==
    /\ MayReturn(u, c, m)
    /\ match' = [match EXCEPT ![m].gone[u] = Never]
    /\ graces' = [graces EXCEPT ![m][u] = Never]
    /\ UNCHANGED <<presence, queue, userMatch, recent, deadlines>>

Claim(u, v, cu, cv, m, allowRecent) ==
    /\ FreshMatch(m)
    /\ MayClaim(u, v, cu, cv, allowRecent)
    /\ queue' = [queue EXCEPT ![u] = NoConn, ![v] = NoConn]
    /\ match' = [match EXCEPT ![m] = [Missing EXCEPT
                    !.ttl = matchTTL, !.parties = {u, v},
                    !.state = "active", !.left = encounterLength]]
    /\ userMatch' = [w \in Users |->
                        IF w \in {u, v} THEN [match |-> m, ttl |-> matchTTL] ELSE userMatch[w]]
    /\ recent' = recent \cup {{u, v}}
    /\ deadlines' = [deadlines EXCEPT ![m] = encounterLength]
    /\ UNCHANGED <<presence, graces>>

EndMatch(u, c, m) ==
    /\ Speaks(u, c)
    /\ In(u, m)
    /\ Drop(m)

\* The block endpoint: the same without a socket.
EndForUser(u, m) ==
    /\ In(u, m)
    /\ Drop(m)

Extend(u, c, m) ==
    /\ Speaks(u, c)
    /\ In(u, m)
    /\ match[m].state = "active"
    /\ Open(m)
    /\ LET votes == match[m].extend \cup {u}
           both  == match[m].parties \subseteq votes
       IN /\ match' = [match EXCEPT ![m].extend = votes,
                                    ![m].state = IF both THEN "extended" ELSE @]
          /\ deadlines' = [deadlines EXCEPT ![m] = IF both THEN Never ELSE @]
    /\ UNCHANGED <<presence, queue, userMatch, recent, graces>>

ConnectVote(u, c, m) ==
    /\ Speaks(u, c)
    /\ In(u, m)
    /\ Open(m)
    /\ ~match[m].created
    /\ match' = [match EXCEPT ![m].connect = @ \cup {u}]
    /\ UNCHANGED <<presence, queue, userMatch, recent, deadlines, graces>>

\* After the connection was written to PostgreSQL: no socket and no deadline
\* is checked, only that the encounter is still there with both votes.
PublishConnection(m) ==
    /\ Live(m)
    /\ match[m].parties \subseteq match[m].connect
    /\ ~match[m].created
    /\ match' = [match EXCEPT ![m].created = TRUE]
    /\ UNCHANGED <<presence, queue, userMatch, recent, deadlines, graces>>

Disconnect(u, c) ==
    /\ Speaks(u, c)
    /\ presence' = [presence EXCEPT ![u] = NoPresence]
    /\ queue' = [queue EXCEPT ![u] = NoConn]
    /\ \/ \E m \in Matches :
             /\ In(u, m)
             /\ match' = [match EXCEPT ![m].gone[u] = reconnectGrace]
             /\ graces' = [graces EXCEPT ![m][u] = reconnectGrace]
       \/ /\ \A m \in Matches : ~In(u, m)
          /\ UNCHANGED <<match, graces>>
    /\ UNCHANGED <<userMatch, recent, deadlines>>

-----------------------------------------------------------------------------
(* The sweeper, every 500 ms: one script per due member of each schedule.  *)

Expire(m) ==
    /\ deadlines[m] = 0
    /\ \/ /\ ~Live(m)
          /\ deadlines' = [deadlines EXCEPT ![m] = Never]
          /\ UNCHANGED <<presence, queue, userMatch, match, recent, graces>>
       \/ /\ match[m].state = "active" /\ match[m].left = 0
          /\ Drop(m)

DisconnectExpiry(m, u) ==
    /\ graces[m][u] = 0
    /\ \/ /\ match[m].gone[u] # 0
          /\ graces' = [graces EXCEPT ![m][u] = Never]
          /\ UNCHANGED <<presence, queue, userMatch, match, recent, deadlines>>
       \/ /\ match[m].gone[u] = 0
          /\ Drop(m)

-----------------------------------------------------------------------------
(* The clock: TTLs run out, deadlines come closer.                          *)

Countdown(n) == IF n > 0 THEN n - 1 ELSE n

Age(hash) ==
    IF hash.ttl <= 1 THEN Missing
    ELSE [hash EXCEPT !.ttl = @ - 1, !.left = Countdown(@),
                      !.gone = [u \in Users |-> Countdown(hash.gone[u])]]

Tick ==
    /\ presence' = [u \in Users |-> IF presence[u].ttl <= 1 THEN NoPresence
                                    ELSE [presence[u] EXCEPT !.ttl = @ - 1]]
    /\ userMatch' = [u \in Users |-> IF userMatch[u].ttl <= 1 THEN NoUserMatch
                                     ELSE [userMatch[u] EXCEPT !.ttl = @ - 1]]
    /\ match' = [m \in Matches |-> Age(match[m])]
    /\ deadlines' = [m \in Matches |-> Countdown(deadlines[m])]
    /\ graces' = [m \in Matches |-> [u \in Users |-> Countdown(graces[m][u])]]
    /\ UNCHANGED <<queue, recent>>

\* recentTTL (15 min) is far longer than every other span: its end is not
\* counted in ticks but may come at any time.
RecentLapses(pair) ==
    /\ pair \in recent
    /\ recent' = recent \ {pair}
    /\ UNCHANGED <<presence, queue, userMatch, match, deadlines, graces>>

Next ==
    \/ \E u \in Users, c \in Conns :
          \/ Connect(u, c) \/ Heartbeat(u, c) \/ Enqueue(u, c) \/ LeaveQueue(u, c)
          \/ CleanupQueued(u, c) \/ Disconnect(u, c)
    \/ \E u \in Users, c \in Conns, m \in Matches :
          \/ Reconnect(u, c, m) \/ EndMatch(u, c, m)
          \/ Extend(u, c, m) \/ ConnectVote(u, c, m)
    \/ \E u, v \in Users, cu, cv \in Conns, m \in Matches, allowRecent \in BOOLEAN :
          Claim(u, v, cu, cv, m, allowRecent)
    \/ \E u \in Users, m \in Matches : EndForUser(u, m) \/ DisconnectExpiry(m, u)
    \/ \E m \in Matches : PublishConnection(m) \/ Expire(m)
    \/ \E pair \in SUBSET Users : RecentLapses(pair)
    \/ Tick

Spec == Init /\ [][Next]_vars

\* The clock goes on, and the sweeper, which runs for ever and tries every due
\* member again half a second later, gets to each.
FairSpec ==
    /\ Spec
    /\ WF_vars(Tick)
    /\ \A m \in Matches : WF_vars(Expire(m))
    /\ \A m \in Matches, u \in Users : WF_vars(DisconnectExpiry(m, u))
-----------------------------------------------------------------------------
(* Properties.                                                             *)

Hash ==
    [ttl : 0..matchTTL, parties : SUBSET Users,
     state : {"missing", "active", "extended"}, left : 0..encounterLength,
     extend : SUBSET Users, connect : SUBSET Users, created : BOOLEAN,
     gone : [Users -> Never..reconnectGrace]]

\* The shape of the keys the scripts of store.go write.
TypeOK ==
    /\ presence \in [Users -> [conn : Conns \cup {NoConn}, ttl : 0..presenceTTL]]
    /\ queue \in [Users -> Conns \cup {NoConn}]
    /\ userMatch \in [Users -> [match : Matches \cup {NoMatch}, ttl : 0..matchTTL]]
    /\ match \in [Matches -> Hash]
    /\ recent \subseteq SUBSET Users
    /\ deadlines \in [Matches -> Never..encounterLength]
    /\ graces \in [Matches -> [Users -> Never..reconnectGrace]]

\* A user-match key leads to an encounter that exists, names the user and
\* outlives the key: the scripts that end an encounter leave no user locked
\* out of the queue by a key to nothing, and no heartbeat renews one key
\* without the other.
MappedToLiveMatch ==
    \A u \in Users, m \in Matches :
        userMatch[u].match = m =>
            Live(m) /\ Party(u, m) /\ userMatch[u].ttl <= match[m].ttl

\* A user waits in the queue or is in an encounter, never both, whatever
\* sockets of theirs come and go between enqueueScript and claimScript.
QueuedIsUnmatched ==
    \A u \in Users : queue[u] # NoConn => userMatch[u] = NoUserMatch

\* While an encounter lives the sweeper's two schedules agree with its own
\* fields: an active one is due exactly when it says, an extended one never,
\* and a lost user's grace is the one in the encounter.  So none is swept
\* early, and none that is due is missed.
SchedulesAgree ==
    \A m \in Matches : Live(m) =>
        /\ deadlines[m] = IF match[m].state = "active" THEN match[m].left ELSE Never
        /\ graces[m] = match[m].gone

\* Neither user alone keeps an encounter past its minute or makes a
\* connection of it (extendScript, connectScript, publishConnectionScript).
ConsentIsMutual ==
    \A m \in Matches :
        /\ match[m].state = "extended" => match[m].extend = match[m].parties
        /\ match[m].created => match[m].connect = match[m].parties

\* What the invariants above rest on: an encounter without a TTL is no
\* encounter at all, and only its parties have voted or are missed.
OnlyPartiesAct ==
    \A m \in Matches :
        /\ ~Live(m) => match[m] = Missing
        /\ match[m].extend \cup match[m].connect \subseteq match[m].parties

\* An active encounter whose minute is over takes no more votes, from any
\* socket, while it waits for the sweeper: it stays as it is or goes.
DueIsFrozen ==
    [][\A m \in Matches :
          match[m].state = "active" /\ match[m].left = 0 =>
              \/ match'[m] = Missing
              \/ /\ match'[m].state = "active"
                 /\ match'[m].extend = match[m].extend
                 /\ match'[m].connect = match[m].connect]_vars

\* A minute ends: whatever heartbeats, votes and reconnects come, an active
\* encounter is in the end extended by both or gone (expireScript).
EncounterEnds ==
    \A m \in Matches : (match[m].state = "active") ~> (match[m].state # "active")

\* When everybody has left for good, crashed or not, the sweeper and the TTLs
\* clear every encounter and both schedules.
AbandonedIsCleared ==
    <>[](\A u \in Users : presence[u] = NoPresence) =>
        <>[](\A m \in Matches :
                ~Live(m) /\ deadlines[m] = Never /\ \A u \in Users : graces[m][u] = Never)

-----------------------------------------------------------------------------
\* What the hash of an encounter says to the people in it, once its TTL, its
\* clocks and its graces are left aside.
Seen(hash) ==
    [parties |-> hash.parties, state |-> hash.state,
     over |-> hash.state = "active" /\ hash.left = 0,
     extend |-> hash.extend, connect |-> hash.connect, created |-> hash.created]

Meeting == INSTANCE Encounter WITH encounter <- [m \in Matches |-> Seen(match[m])]

\* The store implements the abstract encounter: no script, sweep or lapse of a
\* key gives the two people a step that Encounter does not have.
StoreImplementsEncounter == Meeting!EncounterSpec
=============================================================================
