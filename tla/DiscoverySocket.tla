--------------------------- MODULE DiscoverySocket ---------------------------
(***************************************************************************)
(* The sockets of discovery over the store: the life of one call of        *)
(* Handler.socket (internal/discovery/handler.go), from the Connect that    *)
(* takes the user's presence over, through the three separate reads and     *)
(* writes of the recovery, to the deferred Disconnect.  A user may have     *)
(* several sockets, on several server instances; every Redis call is a step *)
(* of its own, and other sockets, the block endpoint, the sweeper and the   *)
(* clock act between any two.                                               *)
(*                                                                         *)
(* Time passes only while every socket waits in its read loop: what a       *)
(* handler does between two reads takes far less than a tick.               *)
(***************************************************************************)
EXTENDS EncounterStore

CONSTANT readTimeout       \* 35 s, in ticks: the longest silence of a client

ASSUME SocketAssumption == readTimeout \in Nat \ {0}

VARIABLE sock              \* the handler of each socket of each user

svars == <<presence, queue, userMatch, match, recent, deadlines, graces, sock>>
storeVars == vars

\* phase: where the handler is.
\*   "closed"      not called yet, or returned
\*   "dead"        gone without its cleanup
\*   "opening"     presence taken, connection.ready to be written, user-match to be read
\*   "reading"     user-match read (seen), its encounter's hash to be read
\*   "recovering"  the hash read, Reconnect to be called
\*   "serving"     in the read loop, with left ticks to the read timeout
\*   "searching"   in tryMatch, after its Enqueue
\*   "closing"     returning, the deferred Disconnect to be called
Phases == {"closed", "dead", "opening", "reading", "recovering", "serving", "searching", "closing"}

Closed == [phase |-> "closed", seen |-> NoMatch, left |-> 0]
At(phase) == [Closed EXCEPT !.phase = phase]
Serving == [At("serving") EXCEPT !.left = readTimeout]

Goes(u, c, state) == sock' = [sock EXCEPT ![u][c] = state]
Runs(u, c)  == sock[u][c].phase \notin {"closed", "dead"}
Waits(u, c) == sock[u][c].phase = "serving" /\ sock[u][c].left > 0

\* Where CurrentMatch leads when it finds, and when it does not find, a match.
AfterUserMatch(u, c) ==
    IF userMatch[u].match = NoMatch THEN Serving
    ELSE [At("reading") EXCEPT !.seen = userMatch[u].match]

-----------------------------------------------------------------------------
(* Faulty variants, as in EncounterStore: no action of SocketNext uses them. *)

\* serves the user although Reconnect was refused
RecoverUnchecked(u, c) ==
    LET m == sock[u][c].seen IN
    /\ sock[u][c].phase = "recovering"
    /\ Goes(u, c, Serving)
    /\ Reconnect(u, c, m) \/ (~MayReturn(u, c, m) /\ UNCHANGED storeVars)

\* cleans up in the context of the request, which is cancelled by then
CloseCancelled(u, c) ==
    /\ sock[u][c].phase = "closing"
    /\ Goes(u, c, Closed)
    /\ UNCHANGED storeVars

-----------------------------------------------------------------------------
SocketInit ==
    /\ Init
    /\ sock = [u \in Users |-> [c \in Conns |-> Closed]]

Accept(u, c) ==
    /\ ~Runs(u, c)
    /\ Connect(u, c)
    /\ Goes(u, c, At("opening"))

\* Any step of the handler may fail or find the client gone: it returns.
Fail(u, c) ==
    /\ Runs(u, c) /\ sock[u][c].phase # "closing"
    /\ Goes(u, c, At("closing"))
    /\ UNCHANGED storeVars

\* CurrentMatch reads the key, then the hash it names; in between the
\* encounter may end.
ReadUserMatch(u, c) ==
    /\ sock[u][c].phase = "opening"
    /\ Goes(u, c, AfterUserMatch(u, c))
    /\ UNCHANGED storeVars

ReadHash(u, c) ==
    LET m == sock[u][c].seen IN
    /\ sock[u][c].phase = "reading"
    /\ Goes(u, c, IF Live(m) THEN [At("recovering") EXCEPT !.seen = m] ELSE Serving)
    /\ UNCHANGED storeVars

Recover(u, c) ==
    LET m == sock[u][c].seen IN
    /\ sock[u][c].phase = "recovering"
    /\ \/ /\ Reconnect(u, c, m)
          /\ Goes(u, c, Serving)
       \/ /\ ~MayReturn(u, c, m)
          /\ Goes(u, c, At("closing"))
          /\ UNCHANGED storeVars

\* One frame of a serving socket: presence.heartbeat, ...
Beat(u, c) ==
    /\ Waits(u, c)
    /\ \/ /\ Heartbeat(u, c)
          /\ Goes(u, c, Serving)
       \/ /\ ~Speaks(u, c)
          /\ Goes(u, c, At("closing"))
          /\ UNCHANGED storeVars

\* ... queue.join, ...
Join(u, c) ==
    /\ Waits(u, c)
    /\ Enqueue(u, c)
    /\ Goes(u, c, At("searching"))

\* ... or any other with a script of its own, of the encounter the client names.
Ask(u, c) ==
    /\ Waits(u, c)
    /\ \/ LeaveQueue(u, c)
       \/ \E m \in Matches : EndMatch(u, c, m) \/ Extend(u, c, m) \/ ConnectVote(u, c, m)
    /\ Goes(u, c, Serving)

\* A frame that changes nothing in the store (webrtc.*, or refused by its
\* script) still starts the read timeout again.
Chat(u, c) ==
    /\ Waits(u, c)
    /\ Goes(u, c, Serving)
    /\ UNCHANGED storeVars

\* tryMatch: claim somebody whose entry it read, drop a stale entry, or end.
Search(u, c) ==
    /\ sock[u][c].phase = "searching"
    /\ \/ /\ \E v \in Users, cv \in Conns, m \in Matches, allowRecent \in BOOLEAN :
                /\ queue[v] = cv
                /\ Claim(u, v, c, cv, m, allowRecent)
          /\ Goes(u, c, Serving)
       \/ /\ \E v \in Users \ {u}, cv \in Conns : CleanupQueued(v, cv)
          /\ UNCHANGED sock
       \/ /\ Goes(u, c, Serving)
          /\ UNCHANGED storeVars

TimesOut(u, c) ==
    /\ sock[u][c].phase = "serving" /\ sock[u][c].left = 0
    /\ Goes(u, c, At("closing"))
    /\ UNCHANGED storeVars

\* The deferred Disconnect, refused when another socket took presence over
\* or presence lapsed.
Close(u, c) ==
    /\ sock[u][c].phase = "closing"
    /\ \/ Disconnect(u, c)
       \/ ~Speaks(u, c) /\ UNCHANGED storeVars
    /\ Goes(u, c, Closed)

\* The server dies, or the cleanup does not reach Redis in its three seconds.
Crash(u, c) ==
    /\ Runs(u, c)
    /\ Goes(u, c, At("dead"))
    /\ UNCHANGED storeVars

\* A block, the end of a connect vote's persistence, the sweeper.
Others ==
    /\ \/ \E u \in Users, m \in Matches : EndForUser(u, m) \/ DisconnectExpiry(m, u)
       \/ \E m \in Matches : PublishConnection(m) \/ Expire(m)
       \/ \E pair \in SUBSET Users : RecentLapses(pair)
    /\ UNCHANGED sock

Clock ==
    /\ \A u \in Users, c \in Conns : ~Runs(u, c) \/ Waits(u, c)
    /\ Tick
    /\ sock' = [u \in Users |-> [c \in Conns |->
                   [sock[u][c] EXCEPT !.left = Countdown(@)]]]

Handle(u, c) ==
    \/ Accept(u, c) \/ Fail(u, c) \/ ReadUserMatch(u, c) \/ ReadHash(u, c) \/ Recover(u, c)
    \/ Beat(u, c) \/ Join(u, c) \/ Ask(u, c) \/ Chat(u, c) \/ Search(u, c)
    \/ TimesOut(u, c) \/ Close(u, c)

SocketNext ==
    \/ \E u \in Users, c \in Conns : Handle(u, c) \/ Crash(u, c)
    \/ Others
    \/ Clock

SocketSpec == SocketInit /\ [][SocketNext]_svars

-----------------------------------------------------------------------------
\* The handlers have seen an encounter just while they recover it.
SocketTypeOK ==
    /\ TypeOK
    /\ sock \in [Users -> [Conns ->
                    [phase : Phases, seen : Matches \cup {NoMatch}, left : 0..readTimeout]]]
    /\ \A u \in Users, c \in Conns :
          sock[u][c].phase \in {"reading", "recovering"} <=> sock[u][c].seen # NoMatch

\* A user whose socket speaks for them and serves them is not being given up
\* on: whatever sockets of theirs failed, overlapped or crashed before, the
\* recovery has taken them off the disconnect schedule, so the sweeper cannot
\* end their encounter with "peer_disconnected".
ServedIsNotTimed ==
    \A u \in Users, c \in Conns, m \in Matches :
        sock[u][c].phase \in {"serving", "searching"} /\ Speaks(u, c) /\ In(u, m) =>
            graces[m][u] = Never

\* Presence is held by a handler that will give it back: only a server that
\* dies leaves it to its TTL, not one that refuses a recovery, times a client
\* out or fails half-way.
PresenceIsHandled ==
    \A u \in Users, c \in Conns : Speaks(u, c) => sock[u][c].phase # "closed"

\* A handler that is slow to return takes nothing from the socket that came
\* after it: presence goes by the cleanup of the very socket that held it, to a
\* newer one, or by its TTL, and a user is put on the disconnect schedule only
\* by the cleanup of the socket that spoke for them.
CleanupIsOwn ==
    [][\A u \in Users :
          /\ \A c \in Conns : Speaks(u, c) /\ ~Speaks(u, c)' =>
                \/ sock[u][c].phase = "closing"
                \/ \E d \in Conns : Speaks(u, d)' /\ sock'[u][d].phase = "opening"
                \/ presence[u].ttl <= 1
          /\ \A m \in Matches : graces[m][u] = Never /\ graces'[m][u] # Never =>
                \E c \in Conns : Speaks(u, c) /\ sock[u][c].phase = "closing"]_svars
=============================================================================
