------------------------ MODULE DiscoverySocketProofs ------------------------
(***************************************************************************)
(* What holds of any number of users, sockets and encounters, of any        *)
(* timeouts, and of a server that may die at any step: the sockets use the  *)
(* store only as EncounterStore says, so its theorems hold under them, and  *)
(* a user who is served is on no disconnect schedule.                       *)
(***************************************************************************)
EXTENDS DiscoverySocket, EncounterStoreProofs

-----------------------------------------------------------------------------
(* Sockets implement the store.                                            *)

\* What the handlers do between two Redis calls leaves the store alone; each
\* call is one of its scripts, with arguments that the store's Next allows.
LEMMA SocketStep == ASSUME SocketTypeOK, [SocketNext]_svars PROVE [Next]_vars
  <1>1. ASSUME NEW u \in Users, NEW c \in Conns, Handle(u, c) PROVE [Next]_vars
    <2>1. CASE Accept(u, c)
      BY <2>1 DEF Accept, Next
    <2>2. CASE Fail(u, c) \/ ReadUserMatch(u, c) \/ ReadHash(u, c) \/ Chat(u, c) \/ TimesOut(u, c)
      BY <2>2 DEF Fail, ReadUserMatch, ReadHash, Chat, TimesOut, storeVars
    <2>3. CASE Recover(u, c)
      <3>1. CASE UNCHANGED storeVars
        BY <3>1 DEF storeVars
      <3>2. CASE Reconnect(u, c, sock[u][c].seen)
        <4>1. sock[u][c].seen \in Matches
          BY <2>3 DEF SocketTypeOK, Recover
        <4>2. QED
          BY <3>2, <4>1 DEF Next
      <3>3. QED
        BY <2>3, <3>1, <3>2 DEF Recover
    <2>4. CASE Beat(u, c)
      BY <2>4 DEF Beat, Next, storeVars
    <2>5. CASE Join(u, c)
      BY <2>5 DEF Join, Next
    <2>6. CASE Ask(u, c)
      BY <2>6 DEF Ask, Next
    <2>7. CASE Search(u, c)
      <3>1. CASE UNCHANGED storeVars
        BY <3>1 DEF storeVars
      <3>2. CASE \E v \in Users, cv \in Conns, m \in Matches, allowRecent \in BOOLEAN :
                    Claim(u, v, c, cv, m, allowRecent)
        BY <3>2 DEF Next
      <3>3. CASE \E v \in Users \ {u}, cv \in Conns : CleanupQueued(v, cv)
        BY <3>3 DEF Next
      <3>4. QED
        BY <2>7, <3>1, <3>2, <3>3 DEF Search
    <2>8. CASE Close(u, c)
      BY <2>8 DEF Close, Next, storeVars
    <2>9. QED
      BY <1>1, <2>1, <2>2, <2>3, <2>4, <2>5, <2>6, <2>7, <2>8 DEF Handle
  <1>2. CASE Others
    BY <1>2 DEF Others, Next
  <1>3. CASE Clock
    BY <1>3 DEF Clock, Next
  <1>4. ASSUME NEW u \in Users, NEW c \in Conns, Crash(u, c) PROVE [Next]_vars
    BY <1>4 DEF Crash, storeVars
  <1>5. CASE UNCHANGED svars
    BY <1>5 DEF svars, vars
  <1>6. QED
    BY <1>1, <1>2, <1>3, <1>4, <1>5 DEF SocketNext

-----------------------------------------------------------------------------
(* The states of a handler.                                                *)

HandlerStates ==
    {s \in [phase : Phases, seen : Matches \cup {NoMatch}, left : 0..readTimeout] :
        s.phase \in {"reading", "recovering"} <=> s.seen # NoMatch}

\* Going on to a state of a handler keeps the table of handlers well typed.
LEMMA GoesType ==
  ASSUME SocketTypeOK, TypeOK', NEW u \in Users, NEW c \in Conns, NEW s \in HandlerStates,
         Goes(u, c, s)
  PROVE  SocketTypeOK'
  BY DEF Goes, SocketTypeOK, HandlerStates

\* The states the handlers go on to, written out.
LEMMA StateRecords ==
  /\ \A phase : At(phase) = [phase |-> phase, seen |-> NoMatch, left |-> 0]
  /\ \A phase, m : [At(phase) EXCEPT !.seen = m] = [phase |-> phase, seen |-> m, left |-> 0]
  /\ Serving = [phase |-> "serving", seen |-> NoMatch, left |-> readTimeout]
  <1>1. ASSUME NEW phase PROVE At(phase) = [phase |-> phase, seen |-> NoMatch, left |-> 0]
    BY DEF At, Closed
  <1>2. QED
    BY <1>1 DEF Serving

\* The states the handlers go on to are states of a handler.
LEMMA NextStates ==
  /\ \A phase \in Phases \ {"reading", "recovering"} : At(phase) \in HandlerStates
  /\ \A phase \in {"reading", "recovering"}, m \in Matches :
        [At(phase) EXCEPT !.seen = m] \in HandlerStates
  /\ Closed \in HandlerStates /\ Serving \in HandlerStates
  <1>1. /\ NoMatch \notin Matches
        /\ 0 \in 0..readTimeout /\ readTimeout \in 0..readTimeout
    BY StoreAssumption, SocketAssumption
  <1>2. ASSUME NEW phase \in Phases, NEW m \in Matches \cup {NoMatch}, NEW n \in 0..readTimeout,
               phase \in {"reading", "recovering"} <=> m # NoMatch
        PROVE  [phase |-> phase, seen |-> m, left |-> n] \in HandlerStates
    BY <1>2 DEF HandlerStates
  <1>0. ASSUME NEW phase PROVE At(phase) = [phase |-> phase, seen |-> NoMatch, left |-> 0]
    BY StateRecords
  <1>3. ASSUME NEW phase \in Phases \ {"reading", "recovering"} PROVE At(phase) \in HandlerStates
    <2>1. At(phase) = [phase |-> phase, seen |-> NoMatch, left |-> 0]
      BY <1>0
    <2>2. phase \in Phases /\ ~(phase \in {"reading", "recovering"})
      OBVIOUS
    <2>3. [phase |-> phase, seen |-> NoMatch, left |-> 0] \in HandlerStates
      BY <1>1, <1>2, <2>2
    <2>4. QED
      BY <2>1, <2>3
  <1>4. ASSUME NEW phase \in {"reading", "recovering"}, NEW m \in Matches
        PROVE  [At(phase) EXCEPT !.seen = m] \in HandlerStates
    <2>1. [At(phase) EXCEPT !.seen = m] = [phase |-> phase, seen |-> m, left |-> 0]
      BY StateRecords
    <2>2. phase \in Phases /\ m # NoMatch
      BY <1>1 DEF Phases
    <2>3. QED
      BY <1>1, <1>2, <2>1, <2>2
  <1>5. Closed \in HandlerStates
    <2>1. "closed" \in Phases /\ "closed" \notin {"reading", "recovering"}
      BY DEF Phases
    <2>2. QED
      BY <1>1, <1>2, <2>1 DEF Closed
  <1>6. Serving = [phase |-> "serving", seen |-> NoMatch, left |-> readTimeout]
    BY StateRecords
  <1>7. Serving \in HandlerStates
    BY <1>1, <1>2, <1>6 DEF Phases
  <1>8. QED
    BY <1>3, <1>4, <1>5, <1>7

\* Every handler is in one of its phases, and has seen an encounter just while
\* it recovers it.
LEMMA SocketTypeStep == ASSUME SocketTypeOK, [SocketNext]_svars PROVE SocketTypeOK'
  <1>t. TypeOK'
    BY SocketStep, TypeStep DEF SocketTypeOK
  <1>1. ASSUME NEW u \in Users, NEW c \in Conns, Handle(u, c) \/ Crash(u, c) PROVE SocketTypeOK'
    <2>1. CASE UNCHANGED sock
      BY <2>1, <1>t DEF SocketTypeOK
    <2>2. ASSUME NEW phase \in Phases \ {"reading", "recovering"}, Goes(u, c, At(phase))
          PROVE  SocketTypeOK'
      BY <2>2, <1>t, GoesType, NextStates
    <2>3. CASE Goes(u, c, Closed) \/ Goes(u, c, Serving)
      BY <2>3, <1>t, GoesType, NextStates
    <2>4. ASSUME NEW phase \in {"reading", "recovering"}, NEW m \in Matches,
                 Goes(u, c, [At(phase) EXCEPT !.seen = m])
          PROVE  SocketTypeOK'
      BY <2>4, <1>t, GoesType, NextStates
    <2>5. {"opening", "searching", "closing", "dead"} \subseteq Phases \ {"reading", "recovering"}
      BY DEF Phases
    <2>6. CASE Accept(u, c) \/ Fail(u, c) \/ Join(u, c) \/ TimesOut(u, c)
      BY <2>6, <2>2, <2>5 DEF Accept, Fail, Join, TimesOut
    <2>7. CASE ReadUserMatch(u, c)
      <3>1. userMatch[u].match \in Matches \cup {NoMatch}
        BY DEF SocketTypeOK, TypeOK
      <3>2. QED
        BY <2>3, <2>4, <2>7, <3>1 DEF ReadUserMatch, AfterUserMatch
    <2>8. CASE ReadHash(u, c)
      <3>1. sock[u][c].seen \in Matches
        BY <2>8 DEF SocketTypeOK, ReadHash
      <3>2. QED
        BY <2>3, <2>4, <2>8, <3>1 DEF ReadHash
    <2>9. CASE Recover(u, c) \/ Beat(u, c) \/ Ask(u, c) \/ Chat(u, c) \/ Close(u, c) \/ Crash(u, c)
      BY <2>9, <2>2, <2>3, <2>5 DEF Recover, Beat, Ask, Chat, Close, Crash
    <2>10. CASE Search(u, c)
      BY <2>1, <2>3, <2>10 DEF Search
    <2>11. QED
      BY <1>1, <2>6, <2>7, <2>8, <2>9, <2>10 DEF Handle
  <1>2. CASE Others \/ UNCHANGED svars
    BY <1>2, <1>t DEF Others, svars, SocketTypeOK
  <1>3. CASE Clock
    <2>1. ASSUME NEW n \in 0..readTimeout PROVE Countdown(n) \in 0..readTimeout
      BY SocketAssumption DEF Countdown
    <2>2. QED
      BY <1>3, <1>t, <2>1 DEF Clock, SocketTypeOK
  <1>4. QED
    BY <1>1, <1>2, <1>3 DEF SocketNext

\* Connect to Disconnect, on any number of sockets and servers: what the
\* handlers do to Redis is a behaviour of the store, whose theorems therefore
\* hold of a running server (StoreMapping, StoreQueue, StoreSchedules, ...).
THEOREM SocketImplementsStore == SocketSpec => Spec /\ []SocketTypeOK
  <1>1. SocketInit => Init /\ SocketTypeOK
    <2>1. SocketInit => Init /\ TypeOK
      BY MissingIsHash, StoreAssumption
      DEF SocketInit, Init, TypeOK, NoPresence, NoUserMatch, Never
    <2>2. QED
      BY <2>1, SocketAssumption DEF SocketInit, SocketTypeOK, Closed, Phases
  <1>2. SocketTypeOK /\ [SocketNext]_svars => [Next]_vars /\ SocketTypeOK'
    BY SocketStep, SocketTypeStep
  <1>3. QED
    BY <1>1, <1>2, PTL DEF SocketSpec, Spec

-----------------------------------------------------------------------------
(* A user who is served is on no disconnect schedule.  Only Disconnect puts  *)
(* a user there, and it takes their presence away; the next socket takes     *)
(* presence back before it reads which encounter to recover.  So the         *)
(* invariant follows a socket through its two reads: the encounter it saw is *)
(* still the user's only one, because a user whose entry in the queue is not *)
(* the socket's own cannot be claimed under it.                              *)

Recovering == {"opening", "reading", "recovering"}
Served     == {"serving", "searching"}

Reliable(u, c) ==
    /\ sock[u][c].phase \in Served /\ Speaks(u, c) =>
          \A m \in Matches : userMatch[u].match = m => graces[m][u] = Never
    /\ sock[u][c].phase = "reading" /\ Speaks(u, c) =>
          userMatch[u].match \in {sock[u][c].seen, NoMatch}
    /\ queue[u] = c => sock[u][c].phase \notin Recovering

ReliableInv == SocketTypeOK /\ \A u \in Users, c \in Conns : Reliable(u, c)

\* What most steps do to a user: keys of theirs may go, none appears.
Undisturbed(u) ==
    /\ presence'[u].conn \in {presence[u].conn, NoConn}
    /\ queue'[u] \in {queue[u], NoConn}
    /\ userMatch'[u].match \in {userMatch[u].match, NoMatch}
    /\ \A m \in Matches : graces'[m][u] \in {graces[m][u], Never, Countdown(graces[m][u])}

\* What most steps do to a handler: it stays, stops, or goes on serving.
Onward(u, c) ==
    \/ sock'[u][c].phase = sock[u][c].phase /\ sock'[u][c].seen = sock[u][c].seen
    \/ sock'[u][c].phase \in {"closing", "closed", "dead"}
    \/ sock[u][c].phase \in Served /\ sock'[u][c].phase \in Served

\* Ending an encounter only deletes keys.
LEMMA DropDisturbsNobody ==
  ASSUME TypeOK, NEW m \in Matches, Drop(m), NEW w \in Users PROVE Undisturbed(w)
  BY DEF TypeOK, Drop, Undisturbed, NoUserMatch

\* No script about an encounter writes a key for a user.
LEMMA MatchesDisturbNobody ==
  ASSUME TypeOK, NEW w \in Users,
         NEW u \in Users, NEW c \in Conns, NEW m \in Matches,
         \/ Reconnect(u, c, m) \/ EndMatch(u, c, m) \/ EndForUser(u, m)
         \/ Extend(u, c, m) \/ ConnectVote(u, c, m) \/ PublishConnection(m)
         \/ Expire(m) \/ DisconnectExpiry(m, u)
  PROVE  Undisturbed(w)
  <1>1. CASE Drop(m)
    BY <1>1, DropDisturbsNobody
  <1>4. CASE Reconnect(u, c, m)
    BY <1>4 DEF Reconnect, TypeOK, Undisturbed
  <1>5. CASE Extend(u, c, m) \/ ConnectVote(u, c, m) \/ PublishConnection(m)
    BY <1>5 DEF Extend, ConnectVote, PublishConnection, Undisturbed
  <1>6. CASE Expire(m) /\ ~Drop(m)
    BY <1>6 DEF Expire, Undisturbed
  <1>7. CASE DisconnectExpiry(m, u) /\ ~Drop(m)
    <2>1. /\ graces' = [graces EXCEPT ![m][u] = Never]
          /\ UNCHANGED <<presence, queue, userMatch>>
      BY <1>7 DEF DisconnectExpiry
    <2>2. QED
      BY <2>1 DEF TypeOK, Undisturbed
  <1>8. QED
    BY <1>1, <1>4, <1>5, <1>6, <1>7 DEF EndMatch, EndForUser

\* No script about a socket writes a key for a user other than its own.
LEMMA SocketsDisturbTheirUser ==
  ASSUME TypeOK, NEW w \in Users, NEW u \in Users, NEW c \in Conns,
         \/ Heartbeat(u, c) \/ LeaveQueue(u, c) \/ CleanupQueued(u, c)
         \/ w # u /\ (Connect(u, c) \/ Enqueue(u, c) \/ Disconnect(u, c))
  PROVE  Undisturbed(w)
  <1>2. CASE Heartbeat(u, c)
    BY <1>2 DEF Heartbeat, TypeOK, Undisturbed
  <1>3. CASE LeaveQueue(u, c) \/ CleanupQueued(u, c)
    BY <1>3 DEF LeaveQueue, CleanupQueued, TypeOK, Undisturbed
  <1>8. CASE w # u /\ (Connect(u, c) \/ Enqueue(u, c))
    BY <1>8 DEF Connect, Enqueue, TypeOK, Undisturbed
  <1>9. CASE w # u /\ Disconnect(u, c)
    <2>1. /\ presence' = [presence EXCEPT ![u] = NoPresence]
          /\ queue' = [queue EXCEPT ![u] = NoConn]
          /\ userMatch' = userMatch
          /\ \/ \E k \in Matches : graces' = [graces EXCEPT ![k][u] = reconnectGrace]
             \/ graces' = graces
      BY <1>9 DEF Disconnect
    <2>2. ASSUME NEW k \in Matches PROVE graces'[k][w] = graces[k][w]
      <3>1. graces \in [Matches -> [Users -> Never..reconnectGrace]] /\ w # u
        BY <1>9 DEF TypeOK
      <3>2. ASSUME NEW j \in Matches, graces' = [graces EXCEPT ![j][u] = reconnectGrace]
            PROVE  graces'[k][w] = graces[k][w]
        BY <3>1, <3>2
      <3>3. QED
        BY <2>1, <3>2
    <2>3. QED
      BY <1>9, <2>1, <2>2 DEF TypeOK, Undisturbed
  <1>10. QED
    BY <1>2, <1>3, <1>8, <1>9

\* The clock only deletes keys.
LEMMA TickDisturbsNobody == ASSUME TypeOK, Tick, NEW w \in Users PROVE Undisturbed(w)
  BY DEF TypeOK, Tick, Undisturbed, NoPresence, NoUserMatch

\* A handler that goes on, of a user nobody disturbed, stays reliable.
LEMMA ReliableOnward ==
  ASSUME TypeOK, NEW u \in Users, NEW c \in Conns, Reliable(u, c), Undisturbed(u), Onward(u, c)
  PROVE  Reliable(u, c)'
  <1>1. NoConn \notin Conns /\ NoMatch \notin Matches
    BY StoreAssumption
  <1>2. Speaks(u, c)' => Speaks(u, c)
    BY <1>1 DEF Speaks, Undisturbed
  <1>3. queue'[u] = c => queue[u] = c
    BY <1>1 DEF Undisturbed
  <1>4. ASSUME NEW m \in Matches, userMatch'[u].match = m, userMatch[u].match = m => graces[m][u] = Never
        PROVE  graces'[m][u] = Never
    BY <1>1, <1>4 DEF Undisturbed, Countdown, Never
  <1>5. QED
    BY <1>1, <1>2, <1>3, <1>4 DEF Reliable, Onward, Served, Recovering, Undisturbed

\* A step that writes the state of one handler leaves the others where they are.
LEMMA OthersStay ==
  ASSUME SocketTypeOK, NEW u \in Users, NEW c \in Conns, NEW s, Goes(u, c, s)
  PROVE  /\ sock'[u][c] = s
         /\ \A w \in Users, d \in Conns : w # u \/ d # c => sock'[w][d] = sock[w][d]
  BY DEF SocketTypeOK, Goes

\* Accept takes presence from the user's other sockets, under an id that the
\* queue does not hold.
LEMMA ReliableAccept ==
  ASSUME ReliableInv, NEW u \in Users, NEW c \in Conns, Accept(u, c),
         NEW w \in Users, NEW d \in Conns
  PROVE  Reliable(w, d)'
  <1>1. /\ sock'[u][c] = At("opening")
        /\ \A x \in Users, e \in Conns : x # u \/ e # c => sock'[x][e] = sock[x][e]
    BY OthersStay DEF ReliableInv, Accept
  <1>2. CASE w # u
    <2>1. Undisturbed(w)
      BY <1>2, SocketsDisturbTheirUser DEF ReliableInv, SocketTypeOK, Accept
    <2>2. QED
      BY <1>1, <1>2, <2>1, ReliableOnward DEF ReliableInv, SocketTypeOK, Onward
  <1>3. CASE w = u
    <2>1. presence'[u].conn = c /\ queue' = queue /\ queue[u] # c
      BY DEF Accept, Connect, FreshConn, ReliableInv, SocketTypeOK, TypeOK
    <2>2. CASE d = c
      BY <1>1, <1>3, <2>1, <2>2, StateRecords DEF Reliable, Served
    <2>3. CASE d # c
      BY <1>1, <1>3, <2>1, <2>3 DEF Reliable, ReliableInv, Speaks
    <2>4. QED
      BY <2>2, <2>3
  <1>4. QED
    BY <1>2, <1>3

\* The two reads: no encounter is seen, or the one the user is in, for a user
\* in an encounter is in one that exists (MappedToLiveMatch).
LEMMA ReliableRead ==
  ASSUME MapInv, ReliableInv, NEW u \in Users, NEW c \in Conns,
         ReadUserMatch(u, c) \/ ReadHash(u, c), NEW w \in Users, NEW d \in Conns
  PROVE  Reliable(w, d)'
  <1>1. UNCHANGED <<presence, queue, userMatch, graces>>
    BY DEF ReadUserMatch, ReadHash, storeVars, vars
  <1>2. PICK s : Goes(u, c, s)
    BY DEF ReadUserMatch, ReadHash
  <1>3. CASE w # u \/ d # c
    BY <1>1, <1>2, <1>3, OthersStay DEF ReliableInv, Reliable, Speaks
  <1>4. CASE w = u /\ d = c
    <2>1. queue[u] # c
      BY DEF ReliableInv, Reliable, Recovering, ReadUserMatch, ReadHash
    <2>2. CASE ReadUserMatch(u, c)
      <3>1. sock'[u][c] = AfterUserMatch(u, c)
        BY <2>2, OthersStay DEF ReadUserMatch, ReliableInv
      <3>2. CASE userMatch[u].match = NoMatch
        <4>1. sock'[u][c].phase = "serving" /\ \A m \in Matches : userMatch[u].match # m
          BY <3>1, <3>2, StoreAssumption, StateRecords DEF AfterUserMatch
        <4>2. QED
          BY <1>1, <1>4, <2>1, <4>1 DEF Reliable
      <3>3. CASE userMatch[u].match # NoMatch
        <4>1. sock'[u][c].phase = "reading" /\ sock'[u][c].seen = userMatch[u].match
          BY <3>1, <3>3, StateRecords DEF AfterUserMatch
        <4>2. QED
          BY <1>1, <1>4, <2>1, <4>1 DEF Reliable, Served
      <3>4. QED
        BY <3>2, <3>3
    <2>3. CASE ReadHash(u, c)
      <3>1. CASE Live(sock[u][c].seen)
        <4>1. sock'[u][c].phase = "recovering"
          BY <2>3, <3>1, OthersStay, StateRecords DEF ReadHash, ReliableInv
        <4>2. QED
          BY <1>1, <1>4, <2>1, <4>1 DEF Reliable, Served
      <3>2. CASE ~Live(sock[u][c].seen)
        <4>1. sock'[u][c].phase = "serving"
          BY <2>3, <3>2, OthersStay, StateRecords DEF ReadHash, ReliableInv
        <4>2. ASSUME Speaks(u, c), NEW m \in Matches, userMatch[u].match = m PROVE FALSE
          <5>1. m = sock[u][c].seen
            BY <2>3, <4>2, StoreAssumption DEF ReliableInv, Reliable, ReadHash
          <5>2. Live(m)
            BY <4>2 DEF MapInv, MappedToLiveMatch
          <5>3. QED
            BY <3>2, <5>1, <5>2
        <4>3. QED
          BY <1>1, <1>4, <2>1, <4>1, <4>2 DEF Reliable, Speaks
      <3>3. QED
        BY <3>1, <3>2
    <2>4. QED
      BY <2>2, <2>3
  <1>5. QED
    BY <1>3, <1>4

\* A Reconnect that succeeds has taken the user off the schedule.
LEMMA ReliableRecover ==
  ASSUME ReliableInv, NEW u \in Users, NEW c \in Conns, Recover(u, c),
         NEW w \in Users, NEW d \in Conns
  PROVE  Reliable(w, d)'
  <1> DEFINE m == sock[u][c].seen
  <1>1. m \in Matches
    BY DEF ReliableInv, SocketTypeOK, Recover
  <1>2. \A x \in Users, e \in Conns : x # u \/ e # c => sock'[x][e] = sock[x][e]
    BY OthersStay DEF ReliableInv, Recover
  <1>3. CASE UNCHANGED storeVars /\ Goes(u, c, At("closing"))
    <2>1. Undisturbed(w)
      BY <1>3 DEF storeVars, vars, Undisturbed
    <2>2. sock'[u][c].phase = "closing"
      BY <1>3, OthersStay, StateRecords DEF ReliableInv
    <2>3. QED
      BY <1>2, <2>1, <2>2, ReliableOnward DEF ReliableInv, SocketTypeOK, Onward
  <1>4. CASE Reconnect(u, c, m) /\ Goes(u, c, Serving)
    <2>1. Undisturbed(w)
      BY <1>1, <1>4, MatchesDisturbNobody DEF ReliableInv, SocketTypeOK
    <2>2. CASE w # u \/ d # c
      BY <1>2, <2>1, <2>2, ReliableOnward DEF ReliableInv, SocketTypeOK, Onward
    <2>3. CASE w = u /\ d = c
      <3>1. /\ MayReturn(u, c, m) /\ graces' = [graces EXCEPT ![m][u] = Never]
            /\ UNCHANGED <<presence, queue, userMatch>>
        BY <1>4 DEF Reconnect
      <3>2. graces'[m][u] = Never /\ userMatch[u].match = m
        BY <1>1, <3>1 DEF MayReturn, In, ReliableInv, SocketTypeOK, TypeOK
      <3>3. queue[u] # c
        BY DEF ReliableInv, Reliable, Recovering, Recover
      <3>4. sock'[u][c].phase = "serving"
        BY <1>4, OthersStay, StateRecords DEF ReliableInv
      <3>5. QED
        BY <2>3, <3>1, <3>2, <3>3, <3>4 DEF Reliable, Recovering
    <2>4. QED
      BY <2>2, <2>3
  <1>5. QED
    BY <1>3, <1>4 DEF Recover

\* A user who joins the queue is in no encounter.
LEMMA ReliableJoin ==
  ASSUME ReliableInv, NEW u \in Users, NEW c \in Conns, Join(u, c),
         NEW w \in Users, NEW d \in Conns
  PROVE  Reliable(w, d)'
  <1>1. /\ sock'[u][c] = At("searching")
        /\ \A x \in Users, e \in Conns : x # u \/ e # c => sock'[x][e] = sock[x][e]
    BY OthersStay DEF ReliableInv, Join
  <1>2. sock'[u][c].phase = "searching"
    BY <1>1, StateRecords
  <1>3. CASE w # u
    <2>1. Undisturbed(w)
      BY <1>3, SocketsDisturbTheirUser DEF ReliableInv, SocketTypeOK, Join
    <2>2. QED
      BY <1>1, <1>3, <2>1, ReliableOnward DEF ReliableInv, SocketTypeOK, Onward
  <1>4. CASE w = u
    <2>1. userMatch' = userMatch /\ userMatch[u].match = NoMatch /\ queue'[u] = c
      BY DEF Join, Enqueue, NoUserMatch, ReliableInv, SocketTypeOK, TypeOK
    <2>2. queue'[u] = d => sock'[u][d].phase \notin Recovering
      BY <1>2, <2>1 DEF Recovering
    <2>3. QED
      BY <1>4, <2>1, <2>2, StoreAssumption DEF Reliable
  <1>5. QED
    BY <1>3, <1>4

\* A claim takes two users who are both past their recovery into an encounter
\* that no schedule mentions.
LEMMA ReliableClaim ==
  ASSUME ReliableInv, NEW u \in Users, NEW c \in Conns, sock[u][c].phase = "searching",
         NEW v \in Users, NEW cv \in Conns, NEW m \in Matches, NEW r \in BOOLEAN,
         queue[v] = cv, Claim(u, v, c, cv, m, r), Goes(u, c, Serving),
         NEW w \in Users, NEW d \in Conns
  PROVE  Reliable(w, d)'
  <1>1. /\ sock'[u][c].phase = "serving"
        /\ \A x \in Users, e \in Conns : x # u \/ e # c => sock'[x][e] = sock[x][e]
    BY OthersStay, StateRecords DEF ReliableInv
  <1>2. /\ u # v /\ Speaks(u, c) /\ Speaks(v, cv)
        /\ presence' = presence /\ graces' = graces
        /\ queue' = [queue EXCEPT ![u] = NoConn, ![v] = NoConn]
        /\ userMatch' = [x \in Users |-> IF x \in {u, v} THEN [match |-> m, ttl |-> matchTTL]
                                         ELSE userMatch[x]]
        /\ \A x \in Users : graces[m][x] = Never
    BY DEF Claim, MayClaim, FreshMatch
  <1>3. CASE w \notin {u, v}
    <2>1. Undisturbed(w)
      BY <1>2, <1>3 DEF Undisturbed, ReliableInv, SocketTypeOK, TypeOK
    <2>2. QED
      BY <1>1, <1>3, <2>1, ReliableOnward DEF ReliableInv, SocketTypeOK, Onward
  <1>4. CASE w \in {u, v}
    <2>1. queue'[w] # d
      BY <1>2, <1>4, StoreAssumption DEF ReliableInv, SocketTypeOK, TypeOK
    <2>2. \A k \in Matches : userMatch'[w].match = k => graces'[k][w] = Never
      BY <1>2, <1>4
    <2>3. Speaks(w, d) => sock'[w][d].phase # "reading"
      <3>1. CASE w = u
        BY <1>1, <1>2, <3>1 DEF Speaks
      <3>2. CASE w = v
        <4>1. sock[v][cv].phase \notin Recovering
          BY DEF ReliableInv, Reliable
        <4>2. QED
          BY <1>1, <1>2, <3>2, <4>1 DEF Speaks, Recovering
      <3>3. QED
        BY <1>4, <3>1, <3>2
    <2>4. QED
      BY <1>2, <2>1, <2>2, <2>3 DEF Reliable, Speaks
  <1>5. QED
    BY <1>3, <1>4

\* A Disconnect that takes effect leaves nobody to speak for the user.
LEMMA ReliableDisconnect ==
  ASSUME ReliableInv, NEW u \in Users, NEW c \in Conns, Disconnect(u, c), Goes(u, c, Closed),
         NEW w \in Users, NEW d \in Conns
  PROVE  Reliable(w, d)'
  <1>1. CASE w # u
    <2>1. Undisturbed(w)
      BY <1>1, SocketsDisturbTheirUser DEF ReliableInv, SocketTypeOK
    <2>2. sock'[w][d] = sock[w][d]
      BY <1>1, OthersStay DEF ReliableInv
    <2>3. QED
      BY <2>1, <2>2, ReliableOnward DEF ReliableInv, SocketTypeOK, Onward
  <1>2. CASE w = u
    <2>1. /\ presence' = [presence EXCEPT ![u] = NoPresence]
          /\ queue' = [queue EXCEPT ![u] = NoConn]
      BY DEF Disconnect
    <2>2. presence'[u].conn = NoConn /\ queue'[u] = NoConn
      BY <2>1 DEF NoPresence, ReliableInv, SocketTypeOK, TypeOK
    <2>3. QED
      BY <1>2, <2>2, StoreAssumption DEF Reliable, Speaks
  <1>3. QED
    BY <1>1, <1>2

\* Every step of the handlers, of others and of the clock, and every crash.
LEMMA ReliableStep ==
  ASSUME MapInv, ReliableInv, [SocketNext]_svars, NEW w \in Users, NEW d \in Conns
  PROVE  Reliable(w, d)'
  <1> USE DEF ReliableInv, SocketTypeOK
  <1>1. ASSUME Undisturbed(w), Onward(w, d) PROVE Reliable(w, d)'
    BY <1>1, ReliableOnward
  <1>2. UNCHANGED storeVars => Undisturbed(w)
    BY DEF storeVars, vars, Undisturbed
  <1>3. UNCHANGED sock => Onward(w, d)
    BY DEF Onward
  <1>4. ASSUME NEW u \in Users, NEW c \in Conns, Handle(u, c) \/ Crash(u, c) PROVE Reliable(w, d)'
    <2>1. ASSUME NEW s \in {At("closing"), At("dead"), Closed, Serving}, Goes(u, c, s),
                 s = Serving => sock[u][c].phase \in Served
          PROVE  Onward(w, d)
      <3>1. CASE w = u /\ d = c
        <4>1. sock'[u][c] = s
          BY <2>1, OthersStay
        <4>2. /\ At("closing").phase = "closing" /\ At("dead").phase = "dead"
              /\ Closed.phase = "closed" /\ Serving.phase = "serving"
          BY StateRecords DEF Closed
        <4>3. QED
          BY <2>1, <3>1, <4>1, <4>2 DEF Onward, Served
      <3>2. CASE w # u \/ d # c
        <4>1. sock'[w][d] = sock[w][d]
          BY <2>1, <3>2, OthersStay
        <4>2. QED
          BY <4>1 DEF Onward
      <3>3. QED
        BY <3>1, <3>2
    <2>2. CASE Accept(u, c)
      BY <2>2, ReliableAccept
    <2>3. CASE Fail(u, c) \/ TimesOut(u, c) \/ Crash(u, c)
      <3>1. At("closing") # Serving /\ At("dead") # Serving
        BY StateRecords
      <3>2. Onward(w, d)
        BY <2>1, <2>3, <3>1 DEF Fail, TimesOut, Crash
      <3>3. QED
        BY <1>1, <1>2, <2>3, <3>2 DEF Fail, TimesOut, Crash
    <2>4. CASE ReadUserMatch(u, c) \/ ReadHash(u, c)
      BY <2>4, ReliableRead
    <2>5. CASE Recover(u, c)
      BY <2>5, ReliableRecover
    <2>6. CASE Beat(u, c)
      <3>1. Undisturbed(w)
        BY <1>2, <2>6, SocketsDisturbTheirUser DEF Beat
      <3>2. QED
        BY <1>1, <2>1, <2>6, <3>1 DEF Beat, Waits, Served
    <2>7. CASE Join(u, c)
      BY <2>7, ReliableJoin
    <2>8. CASE Ask(u, c)
      <3>1. Undisturbed(w)
        BY <2>8, SocketsDisturbTheirUser, MatchesDisturbNobody DEF Ask
      <3>2. QED
        BY <1>1, <2>1, <2>8, <3>1 DEF Ask, Waits, Served
    <2>9. CASE Chat(u, c)
      BY <1>1, <1>2, <2>1, <2>9 DEF Chat, Waits, Served
    <2>10. CASE Search(u, c)
      <3>1. CASE \E v \in Users \ {u}, cv \in Conns : CleanupQueued(v, cv) /\ UNCHANGED sock
        BY <1>1, <1>3, <3>1, SocketsDisturbTheirUser
      <3>2. CASE Goes(u, c, Serving) /\ UNCHANGED storeVars
        BY <1>1, <1>2, <2>1, <2>10, <3>2 DEF Search, Served
      <3>3. CASE \E v \in Users, cv \in Conns, m \in Matches, r \in BOOLEAN :
                    queue[v] = cv /\ Claim(u, v, c, cv, m, r) /\ Goes(u, c, Serving)
        BY <2>10, <3>3, ReliableClaim DEF Search
      <3>4. QED
        BY <2>10, <3>1, <3>2, <3>3 DEF Search
    <2>11. CASE Close(u, c)
      <3>1. CASE UNCHANGED storeVars
        <4>1. Closed # Serving
          BY StateRecords DEF Closed
        <4>2. Onward(w, d)
          BY <2>1, <2>11, <4>1 DEF Close
        <4>3. QED
          BY <1>1, <1>2, <3>1, <4>2
      <3>2. CASE Disconnect(u, c)
        BY <2>11, <3>2, ReliableDisconnect DEF Close
      <3>3. QED
        BY <2>11, <3>1, <3>2 DEF Close
    <2>12. QED
      BY <1>4, <2>2, <2>3, <2>4, <2>5, <2>6, <2>7, <2>8, <2>9, <2>10, <2>11 DEF Handle
  <1>5. CASE Others
    <2>1. CASE \E pair \in SUBSET Users : RecentLapses(pair)
      BY <1>1, <1>3, <1>5, <2>1 DEF RecentLapses, Undisturbed, Others
    <2>2. CASE \E m \in Matches : PublishConnection(m) \/ Expire(m)
      BY <1>1, <1>3, <1>5, <2>2, MatchesDisturbNobody DEF Others
    <2>3. CASE \E u \in Users, m \in Matches : EndForUser(u, m) \/ DisconnectExpiry(m, u)
      BY <1>1, <1>3, <1>5, <2>3, MatchesDisturbNobody DEF Others
    <2>4. QED
      BY <1>5, <2>1, <2>2, <2>3 DEF Others
  <1>6. CASE Clock
    <2>1. Undisturbed(w)
      BY <1>6, TickDisturbsNobody DEF Clock
    <2>2. sock'[w][d] = [sock[w][d] EXCEPT !.left = Countdown(@)]
      BY <1>6 DEF Clock
    <2>3. Onward(w, d)
      BY <2>2 DEF Onward
    <2>4. QED
      BY <1>1, <2>1, <2>3
  <1>7. CASE UNCHANGED svars
    BY <1>1, <1>2, <1>3, <1>7 DEF svars, storeVars, vars
  <1>8. QED
    BY <1>4, <1>5, <1>6, <1>7 DEF SocketNext

\* Whatever sockets of a user overlapped, failed or died with their server, a
\* user whose own socket is in its read loop is not being given up on: the
\* sweeper does not end the encounter of a user who is there.
THEOREM SocketServed == SocketSpec => []ServedIsNotTimed
  <1>1. SocketInit => ReliableInv
    <2>1. SocketInit => SocketTypeOK
      BY MissingIsHash, StoreAssumption, SocketAssumption
      DEF SocketInit, Init, TypeOK, NoPresence, NoUserMatch, Never, SocketTypeOK, Closed, Phases
    <2>2. QED
      BY <2>1 DEF SocketInit, ReliableInv, Reliable, Closed, Served, Recovering
  <1>2. MapInv /\ ReliableInv /\ [SocketNext]_svars => ReliableInv'
    BY ReliableStep, SocketTypeStep DEF ReliableInv
  <1>3. ReliableInv => ServedIsNotTimed
    BY DEF ReliableInv, Reliable, ServedIsNotTimed, Served, In
  <1>4. SocketSpec => []MapInv
    BY SocketImplementsStore, MapAlways, PTL
  <1>5. QED
    BY <1>1, <1>2, <1>3, <1>4, PTL DEF SocketSpec

-----------------------------------------------------------------------------
(* Presence.                                                               *)

\* The socket that speaks for w is the same or none.
NoNewSpeaker(w) == presence'[w].conn \in {presence[w].conn, NoConn}

\* No script but that of Connect gives presence to a socket.
LEMMA PresenceOnlyLeaves ==
  ASSUME TypeOK, NEW w \in Users, NEW u \in Users, NEW c \in Conns,
         \/ Heartbeat(u, c) \/ Enqueue(u, c) \/ LeaveQueue(u, c) \/ Disconnect(u, c)
         \/ \E v \in Users, d \in Conns : CleanupQueued(v, d)
         \/ \E v \in Users, d \in Conns, m \in Matches, r \in BOOLEAN : Claim(u, v, c, d, m, r)
         \/ UNCHANGED storeVars
  PROVE  NoNewSpeaker(w)
  <1>1. CASE Heartbeat(u, c)
    BY <1>1 DEF Heartbeat, TypeOK, NoNewSpeaker
  <1>2. CASE Disconnect(u, c)
    BY <1>2 DEF Disconnect, NoPresence, TypeOK, NoNewSpeaker
  <1>3. CASE Enqueue(u, c) \/ LeaveQueue(u, c)
    BY <1>3 DEF Enqueue, LeaveQueue, NoNewSpeaker
  <1>4. CASE \E v \in Users, d \in Conns : CleanupQueued(v, d)
    BY <1>4 DEF CleanupQueued, NoNewSpeaker
  <1>5. CASE \E v \in Users, d \in Conns, m \in Matches, r \in BOOLEAN : Claim(u, v, c, d, m, r)
    BY <1>5 DEF Claim, NoNewSpeaker
  <1>6. CASE UNCHANGED storeVars
    BY <1>6 DEF storeVars, vars, NoNewSpeaker
  <1>7. QED
    BY <1>1, <1>2, <1>3, <1>4, <1>5, <1>6

\* Presence is with a running handler after each step of one, after a crash,
\* and after the steps of others and of the clock.
LEMMA PresenceStep ==
  ASSUME SocketTypeOK, PresenceIsHandled, [SocketNext]_svars,
         NEW w \in Users, NEW d \in Conns, Speaks(w, d)'
  PROVE  sock'[w][d].phase # "closed"
  <1> USE DEF SocketTypeOK
  <1>1. ASSUME NoNewSpeaker(w) PROVE Speaks(w, d) /\ sock[w][d].phase # "closed"
    BY <1>1, StoreAssumption DEF NoNewSpeaker, PresenceIsHandled, Speaks
  <1>2. ASSUME NEW u \in Users, NEW c \in Conns, NEW s, Goes(u, c, s), NoNewSpeaker(w),
               w = u /\ d = c => s.phase # "closed"
        PROVE  sock'[w][d].phase # "closed"
    BY <1>1, <1>2, OthersStay
  <1>3. ASSUME NEW u \in Users, NEW c \in Conns, Handle(u, c) \/ Crash(u, c)
        PROVE  sock'[w][d].phase # "closed"
    <2>1. /\ \A phase \in Phases : At(phase).phase = phase
          /\ \A phase \in Phases, m \in Matches : [At(phase) EXCEPT !.seen = m].phase = phase
          /\ Serving.phase = "serving"
      BY StateRecords
    <2>2. CASE Accept(u, c)
      <3>1. sock'[u][c] = At("opening") /\ At("opening").phase = "opening"
        BY <2>1, <2>2, OthersStay DEF Accept, Phases
      <3>2. CASE w = u
        <4>1. presence'[u].conn = c
          BY <2>2 DEF Accept, Connect, TypeOK
        <4>2. QED
          BY <3>1, <3>2, <4>1 DEF Speaks
      <3>3. CASE w # u
        <4>1. NoNewSpeaker(w)
          BY <2>2, <3>3 DEF Accept, Connect, TypeOK, NoNewSpeaker
        <4>2. QED
          BY <1>2, <2>2, <3>3, <4>1 DEF Accept
      <3>4. QED
        BY <3>2, <3>3
    <2>3. CASE Fail(u, c) \/ TimesOut(u, c) \/ Crash(u, c)
      <3>1. NoNewSpeaker(w)
        BY <2>3, PresenceOnlyLeaves DEF Fail, TimesOut, Crash
      <3>2. QED
        BY <1>2, <2>1, <2>3, <3>1 DEF Fail, TimesOut, Crash, Phases
    <2>4. CASE ReadUserMatch(u, c) \/ ReadHash(u, c)
      <3>1. NoNewSpeaker(w)
        BY <2>4, PresenceOnlyLeaves DEF ReadUserMatch, ReadHash
      <3>2. sock[u][c].phase = "reading" => sock[u][c].seen \in Matches
        BY DEF TypeOK
      <3>3. CASE ReadUserMatch(u, c)
        <4>1. AfterUserMatch(u, c).phase # "closed"
          <5>1. CASE userMatch[u].match = NoMatch
            BY <2>1, <5>1 DEF AfterUserMatch
          <5>2. CASE userMatch[u].match # NoMatch
            BY <5>2, StateRecords DEF AfterUserMatch
          <5>3. QED
            BY <5>1, <5>2
        <4>2. QED
          BY <1>2, <3>1, <3>3, <4>1 DEF ReadUserMatch
      <3>4. CASE ReadHash(u, c)
        BY <1>2, <2>1, <3>1, <3>2, <3>4 DEF ReadHash, Phases
      <3>5. QED
        BY <2>4, <3>3, <3>4
    <2>5. CASE Recover(u, c)
      <3>1. NoNewSpeaker(w)
        <4>1. sock[u][c].seen \in Matches
          BY <2>5 DEF Recover
        <4>2. QED
          BY <2>5, <4>1, PresenceOnlyLeaves, MatchesDisturbNobody DEF Recover, NoNewSpeaker, Undisturbed
      <3>2. QED
        BY <1>2, <2>1, <2>5, <3>1 DEF Recover, Phases
    <2>6. CASE Beat(u, c) \/ Join(u, c) \/ Chat(u, c)
      <3>1. NoNewSpeaker(w)
        BY <2>6, PresenceOnlyLeaves DEF Beat, Join, Chat
      <3>2. QED
        BY <1>2, <2>1, <2>6, <3>1 DEF Beat, Join, Chat, Phases
    <2>7. CASE Ask(u, c)
      <3>1. NoNewSpeaker(w)
        BY <2>7, PresenceOnlyLeaves, MatchesDisturbNobody DEF Ask, NoNewSpeaker, Undisturbed
      <3>2. QED
        BY <1>2, <2>1, <2>7, <3>1 DEF Ask
    <2>8. CASE Search(u, c)
      <3>1. NoNewSpeaker(w)
        BY <2>8, PresenceOnlyLeaves DEF Search
      <3>2. CASE UNCHANGED sock
        BY <1>1, <3>1, <3>2
      <3>3. CASE Goes(u, c, Serving)
        BY <1>2, <2>1, <3>1, <3>3
      <3>4. QED
        BY <2>8, <3>2, <3>3 DEF Search
    <2>9. CASE Close(u, c)
      <3>1. NoNewSpeaker(w)
        BY <2>9, PresenceOnlyLeaves DEF Close
      <3>2. ~Speaks(u, c)'
        <4>1. CASE Disconnect(u, c)
          <5>1. presence'[u].conn = NoConn
            BY <4>1 DEF Disconnect, NoPresence, TypeOK
          <5>2. QED
            BY <5>1, StoreAssumption DEF Speaks
        <4>2. CASE ~Speaks(u, c) /\ UNCHANGED storeVars
          BY <4>2 DEF Speaks, storeVars, vars
        <4>3. QED
          BY <2>9, <4>1, <4>2 DEF Close
      <3>3. QED
        BY <1>2, <2>9, <3>1, <3>2 DEF Close
    <2>10. QED
      BY <1>3, <2>2, <2>3, <2>4, <2>5, <2>6, <2>7, <2>8, <2>9 DEF Handle
  <1>4. CASE Others
    <2>1. CASE \E pair \in SUBSET Users : RecentLapses(pair)
      BY <1>1, <1>4, <2>1 DEF RecentLapses, NoNewSpeaker, Others
    <2>2. CASE \/ \E u \in Users, m \in Matches : EndForUser(u, m) \/ DisconnectExpiry(m, u)
               \/ \E m \in Matches : PublishConnection(m) \/ Expire(m)
      <3>1. NoNewSpeaker(w)
        BY <2>2, MatchesDisturbNobody DEF NoNewSpeaker, Undisturbed
      <3>2. QED
        BY <1>1, <1>4, <3>1 DEF Others
    <2>3. QED
      BY <1>4, <2>1, <2>2 DEF Others
  <1>5. CASE Clock
    <2>1. NoNewSpeaker(w)
      BY <1>5, TickDisturbsNobody DEF Clock, NoNewSpeaker, Undisturbed
    <2>2. sock'[w][d] = [sock[w][d] EXCEPT !.left = Countdown(@)]
      BY <1>5 DEF Clock
    <2>3. QED
      BY <1>1, <2>1, <2>2
  <1>6. CASE UNCHANGED svars
    BY <1>1, <1>6 DEF svars, NoNewSpeaker
  <1>7. QED
    BY <1>3, <1>4, <1>5, <1>6 DEF SocketNext

\* Presence is taken by a handler that is then running, and a handler that
\* returns has given it back or lost it: a closed one never holds it, on any
\* number of sockets, servers and crashes.
THEOREM SocketPresence == SocketSpec => []PresenceIsHandled
  <1>1. SocketInit => PresenceIsHandled
    BY StoreAssumption DEF SocketInit, Init, PresenceIsHandled, Speaks, NoPresence
  <1>2. SocketTypeOK /\ PresenceIsHandled /\ [SocketNext]_svars => PresenceIsHandled'
    BY PresenceStep DEF PresenceIsHandled
  <1>3. QED
    BY <1>1, <1>2, SocketImplementsStore, PTL DEF SocketSpec

-----------------------------------------------------------------------------
(* Cleanups.                                                               *)

\* The user keeps the socket that speaks for them, and is not given up on.
Untouched(w) ==
    /\ presence'[w].conn = presence[w].conn
    /\ \A m \in Matches : graces[m][w] = Never => graces'[m][w] = Never

LEMMA DropTouchesNobody ==
  ASSUME TypeOK, NEW m \in Matches, Drop(m), NEW w \in Users PROVE Untouched(w)
  <1>1. ASSUME NEW k \in Matches PROVE graces'[k][w] \in {graces[k][w], Never}
    <2>1. CASE k = m
      BY <2>1 DEF Drop, TypeOK
    <2>2. CASE k # m
      BY <2>2 DEF Drop, TypeOK
    <2>3. QED
      BY <2>1, <2>2
  <1>2. QED
    BY <1>1 DEF Drop, Untouched

\* Apart from Connect, Disconnect and the clock nothing in the store does that.
LEMMA StoreTouchesNobody ==
  ASSUME TypeOK, NEW w \in Users, NEW u \in Users, NEW c \in Conns,
         \/ Heartbeat(u, c) \/ Enqueue(u, c) \/ LeaveQueue(u, c)
         \/ \E v \in Users, d \in Conns : CleanupQueued(v, d)
         \/ \E v \in Users, d \in Conns, m \in Matches, r \in BOOLEAN : Claim(u, v, c, d, m, r)
         \/ \E m \in Matches : \/ Reconnect(u, c, m) \/ EndMatch(u, c, m) \/ Extend(u, c, m)
                               \/ ConnectVote(u, c, m) \/ EndForUser(u, m)
                               \/ DisconnectExpiry(m, u) \/ PublishConnection(m) \/ Expire(m)
         \/ \E pair \in SUBSET Users : RecentLapses(pair)
         \/ UNCHANGED storeVars
  PROVE  Untouched(w)
  <1>1. CASE Heartbeat(u, c)
    BY <1>1 DEF Heartbeat, TypeOK, Untouched
  <1>2. CASE Enqueue(u, c) \/ LeaveQueue(u, c)
    BY <1>2 DEF Enqueue, LeaveQueue, Untouched
  <1>3. CASE \E v \in Users, d \in Conns : CleanupQueued(v, d)
    BY <1>3 DEF CleanupQueued, Untouched
  <1>4. CASE \E v \in Users, d \in Conns, m \in Matches, r \in BOOLEAN : Claim(u, v, c, d, m, r)
    BY <1>4 DEF Claim, Untouched
  <1>5. CASE \E pair \in SUBSET Users : RecentLapses(pair)
    BY <1>5 DEF RecentLapses, Untouched
  <1>6. CASE UNCHANGED storeVars
    BY <1>6 DEF storeVars, vars, Untouched
  <1>7. ASSUME NEW m \in Matches,
               \/ Reconnect(u, c, m) \/ EndMatch(u, c, m) \/ Extend(u, c, m)
               \/ ConnectVote(u, c, m) \/ EndForUser(u, m)
               \/ DisconnectExpiry(m, u) \/ PublishConnection(m) \/ Expire(m)
        PROVE  Untouched(w)
    <2>1. CASE Drop(m)
      BY <2>1, DropTouchesNobody
    <2>2. CASE graces' = [graces EXCEPT ![m][u] = Never] /\ UNCHANGED presence
      BY <2>2 DEF TypeOK, Untouched
    <2>3. CASE UNCHANGED <<presence, graces>>
      BY <2>3 DEF Untouched
    <2>4. QED
      BY <1>7, <2>1, <2>2, <2>3 DEF Reconnect, EndMatch, Extend, ConnectVote, EndForUser,
         DisconnectExpiry, PublishConnection, Expire
  <1>8. QED
    BY <1>1, <1>2, <1>3, <1>4, <1>5, <1>6, <1>7

\* What CleanupIsOwn says of a step and a user.
LEMMA CleanupStep ==
  ASSUME SocketTypeOK, [SocketNext]_svars, NEW w \in Users
  PROVE  /\ \A d \in Conns : Speaks(w, d) /\ ~Speaks(w, d)' =>
               \/ sock[w][d].phase = "closing"
               \/ \E e \in Conns : Speaks(w, e)' /\ sock'[w][e].phase = "opening"
               \/ presence[w].ttl <= 1
         /\ \A m \in Matches : graces[m][w] = Never /\ graces'[m][w] # Never =>
               \E d \in Conns : Speaks(w, d) /\ sock[w][d].phase = "closing"
  <1> DEFINE Goal ==
               /\ \A d \in Conns : Speaks(w, d) /\ ~Speaks(w, d)' =>
                     \/ sock[w][d].phase = "closing"
                     \/ \E e \in Conns : Speaks(w, e)' /\ sock'[w][e].phase = "opening"
                     \/ presence[w].ttl <= 1
               /\ \A m \in Matches : graces[m][w] = Never /\ graces'[m][w] # Never =>
                     \E d \in Conns : Speaks(w, d) /\ sock[w][d].phase = "closing"
  <1>1. TypeOK
    BY DEF SocketTypeOK
  <1>2. ASSUME Untouched(w) PROVE Goal
    BY <1>2 DEF Untouched, Speaks
  <1>3. ASSUME NEW u \in Users, NEW c \in Conns, Accept(u, c) PROVE Goal
    <2>1. graces' = graces
      BY <1>3 DEF Accept, Connect
    <2>2. CASE w # u
      BY <1>1, <1>2, <1>3, <2>1, <2>2 DEF Accept, Connect, TypeOK, Untouched
    <2>3. CASE w = u
      <3>1. presence'[w].conn = c
        BY <1>1, <1>3, <2>3 DEF Accept, Connect, TypeOK
      <3>2. sock'[w][c].phase = "opening"
        BY <1>3, <2>3 DEF Accept, Goes, SocketTypeOK, At, Closed
      <3>3. Speaks(w, c)'
        BY <3>1, StoreAssumption DEF Speaks
      <3>4. QED
        BY <2>1, <3>2, <3>3
    <2>4. QED
      BY <2>2, <2>3
  <1>4. ASSUME NEW u \in Users, NEW c \in Conns, Close(u, c), Disconnect(u, c) PROVE Goal
    <2>1. Speaks(u, c) /\ sock[u][c].phase = "closing"
      BY <1>4 DEF Close, Disconnect
    <2>2. CASE w = u
      BY <2>1, <2>2 DEF Speaks
    <2>3. CASE w # u
      <3>1. presence'[w] = presence[w]
        BY <1>1, <1>4, <2>3 DEF Disconnect, TypeOK
      <3>2. ASSUME NEW m \in Matches PROVE graces'[m][w] = graces[m][w]
        <4>1. \/ graces' = graces
              \/ \E k \in Matches : graces' = [graces EXCEPT ![k][u] = reconnectGrace]
          BY <1>4 DEF Disconnect
        <4>2. QED
          BY <1>1, <2>3, <4>1 DEF TypeOK
      <3>3. QED
        BY <1>2, <3>1, <3>2 DEF Untouched
    <2>4. QED
      BY <2>2, <2>3
  <1>5. ASSUME NEW u \in Users, NEW c \in Conns, Handle(u, c) \/ Crash(u, c),
               ~Accept(u, c), ~(Close(u, c) /\ Disconnect(u, c))
        PROVE  Goal
    <2>1. CASE \/ Fail(u, c) \/ ReadUserMatch(u, c) \/ ReadHash(u, c) \/ Chat(u, c)
               \/ TimesOut(u, c) \/ Crash(u, c) \/ Close(u, c)
      <3>1. UNCHANGED storeVars
        BY <1>5, <2>1 DEF Fail, ReadUserMatch, ReadHash, Chat, TimesOut, Crash, Close
      <3>2. QED
        BY <1>1, <1>2, <3>1, StoreTouchesNobody
    <2>2. CASE Recover(u, c)
      <3>1. sock[u][c].seen \in Matches
        BY <2>2 DEF Recover, SocketTypeOK
      <3>2. QED
        BY <1>1, <1>2, <2>2, <3>1, StoreTouchesNobody DEF Recover
    <2>3. CASE Beat(u, c) \/ Join(u, c)
      BY <1>1, <1>2, <2>3, StoreTouchesNobody DEF Beat, Join
    <2>4. CASE Ask(u, c)
      BY <1>1, <1>2, <2>4, StoreTouchesNobody DEF Ask
    <2>5. CASE Search(u, c)
      BY <1>1, <1>2, <2>5, StoreTouchesNobody DEF Search
    <2>6. QED
      BY <1>5, <2>1, <2>2, <2>3, <2>4, <2>5 DEF Handle
  <1>6. CASE Others
    <2>1. ASSUME NEW u \in Users, NEW m \in Matches,
                 EndForUser(u, m) \/ DisconnectExpiry(m, u) \/ PublishConnection(m) \/ Expire(m)
          PROVE  Untouched(w)
      <3>1. CASE Drop(m)
        BY <1>1, <3>1, DropTouchesNobody
      <3>2. CASE graces' = [graces EXCEPT ![m][u] = Never] /\ UNCHANGED presence
        BY <1>1, <3>2 DEF TypeOK, Untouched
      <3>3. CASE UNCHANGED <<presence, graces>>
        BY <3>3 DEF Untouched
      <3>4. QED
        BY <2>1, <3>1, <3>2, <3>3 DEF EndForUser, DisconnectExpiry, PublishConnection, Expire
    <2>2. CASE \E pair \in SUBSET Users : RecentLapses(pair)
      BY <1>2, <2>2 DEF RecentLapses, Untouched
    <2>3. QED
      BY <1>2, <1>6, <2>1, <2>2 DEF Others
  <1>7. CASE Clock
    <2>1. presence[w].ttl <= 1 \/ presence'[w].conn = presence[w].conn
      BY <1>1, <1>7 DEF Clock, Tick, TypeOK
    <2>2. ASSUME NEW m \in Matches, graces[m][w] = Never PROVE graces'[m][w] = Never
      BY <1>7, <2>2 DEF Clock, Tick, Countdown, Never
    <2>3. QED
      BY <2>1, <2>2 DEF Speaks
  <1>8. CASE UNCHANGED svars
    BY <1>2, <1>8 DEF svars, Untouched
  <1>9. QED
    BY <1>3, <1>4, <1>5, <1>6, <1>7, <1>8 DEF SocketNext, Handle

\* However late a handler returns, its deferred Disconnect takes nothing from a
\* newer socket of the user: presence goes by the cleanup of the socket that held
\* it, to a newer one, or by its TTL, and a grace begins only with that cleanup.
THEOREM SocketCleanup == SocketSpec => CleanupIsOwn
  <1>1. SocketTypeOK /\ [SocketNext]_svars =>
          \A u \in Users :
             /\ \A c \in Conns : Speaks(u, c) /\ ~Speaks(u, c)' =>
                   \/ sock[u][c].phase = "closing"
                   \/ \E d \in Conns : Speaks(u, d)' /\ sock'[u][d].phase = "opening"
                   \/ presence[u].ttl <= 1
             /\ \A m \in Matches : graces[m][u] = Never /\ graces'[m][u] # Never =>
                   \E c \in Conns : Speaks(u, c) /\ sock[u][c].phase = "closing"
    BY CleanupStep
  <1>2. QED
    BY <1>1, SocketImplementsStore, PTL DEF SocketSpec, CleanupIsOwn
=============================================================================
