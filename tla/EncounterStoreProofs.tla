------------------------- MODULE EncounterStoreProofs -------------------------
(***************************************************************************)
(* Proofs about EncounterStore, for any users, sockets, encounters and     *)
(* spans.  Typing first, then what one step does to one encounter          *)
(* (HashStep), then each invariant from these two.                         *)
(***************************************************************************)
EXTENDS EncounterStore, TLAPS

Presences   == [conn : Conns \cup {NoConn}, ttl : 0..presenceTTL]
UserMatches == [match : Matches \cup {NoMatch}, ttl : 0..matchTTL]

-----------------------------------------------------------------------------
(* Typing.                                                                  *)

\* The hash of an encounter that does not exist is a well-typed hash.
LEMMA MissingIsHash == Missing \in Hash
  BY StoreAssumption DEF Missing, Hash, Never

\* Writing a well-typed hash under one id keeps the table well typed and
\* leaves the other encounters alone.
LEMMA HashUpdate ==
  ASSUME match \in [Matches -> Hash], NEW m \in Matches, NEW h \in Hash,
         match' = [match EXCEPT ![m] = h]
  PROVE  /\ match' \in [Matches -> Hash]
         /\ match'[m] = h
         /\ \A n \in Matches : n # m => match'[n] = match[n]
  OBVIOUS

\* Setting one user's reconnect deadline in a hash keeps it well typed.
LEMMA GoneUpdate ==
  ASSUME NEW h \in Hash, NEW u \in Users, NEW n \in Never..reconnectGrace
  PROVE  [h EXCEPT !.gone[u] = n] \in Hash
  BY DEF Hash

\* Setting one member of the disconnect schedule keeps the schedule well typed.
LEMMA GraceUpdate ==
  ASSUME graces \in [Matches -> [Users -> Never..reconnectGrace]],
         NEW m \in Matches, NEW u \in Users, NEW n \in Never..reconnectGrace,
         graces' = [graces EXCEPT ![m][u] = n]
  PROVE  graces' \in [Matches -> [Users -> Never..reconnectGrace]]
  OBVIOUS

\* A countdown stays in the range of its deadline and never passes 0.
LEMMA CountdownType ==
  ASSUME NEW k \in Nat, NEW n \in Never..k
  PROVE  Countdown(n) \in Never..k /\ (n \in 0..k => Countdown(n) \in 0..k)
  BY DEF Countdown, Never

\* The clock keeps a hash well typed.
LEMMA AgeType == ASSUME NEW h \in Hash PROVE Age(h) \in Hash
  <1>1. CASE h.ttl <= 1
    BY <1>1, MissingIsHash DEF Age
  <1>2. CASE ~(h.ttl <= 1)
    <2>1. h.ttl - 1 \in 0..matchTTL
      BY <1>2, StoreAssumption DEF Hash
    <2>2. Countdown(h.left) \in 0..encounterLength
      BY StoreAssumption DEF Hash, Countdown
    <2>3. [u \in Users |-> Countdown(h.gone[u])] \in [Users -> Never..reconnectGrace]
      BY StoreAssumption, CountdownType DEF Hash
    <2>4. QED
      BY <1>2, <2>1, <2>2, <2>3 DEF Age, Hash
  <1>3. QED
    BY <1>1, <1>2

\* The scripts that end an encounter write well-typed keys.
LEMMA DropType == ASSUME TypeOK, NEW m \in Matches, Drop(m) PROVE TypeOK'
  <1>1. match' \in [Matches -> Hash]
    BY MissingIsHash, HashUpdate DEF TypeOK, Drop
  <1>2. userMatch' \in [Users -> UserMatches]
    BY StoreAssumption DEF TypeOK, Drop, UserMatches, NoUserMatch
  <1>3. deadlines' \in [Matches -> Never..encounterLength]
    BY StoreAssumption DEF TypeOK, Drop, Never
  <1>4. graces' \in [Matches -> [Users -> Never..reconnectGrace]]
    <2>1. [u \in Users |-> IF Party(u, m) THEN Never ELSE graces[m][u]]
             \in [Users -> Never..reconnectGrace]
      BY StoreAssumption DEF TypeOK, Never
    <2>2. QED
      BY <2>1 DEF TypeOK, Drop
  <1>5. QED
    BY <1>1, <1>2, <1>3, <1>4 DEF TypeOK, Drop, UserMatches

\* heartbeatScript renews keys within their TTLs.
LEMMA HeartbeatType ==
  ASSUME TypeOK, NEW u \in Users, NEW c \in Conns, Heartbeat(u, c) PROVE TypeOK'
  <1> DEFINE m == userMatch[u].match
  <1>1. presence' \in [Users -> Presences]
    BY StoreAssumption DEF TypeOK, Heartbeat, Presences
  <1>2. CASE m = NoMatch
    BY <1>1, <1>2, StoreAssumption DEF TypeOK, Heartbeat, Presences
  <1>3. CASE m # NoMatch
    <2>1. m \in Matches
      BY <1>3 DEF TypeOK
    <2>2. userMatch' \in [Users -> UserMatches]
      <3>1. userMatch' = [userMatch EXCEPT ![u].ttl = matchTTL]
        BY <1>3 DEF Heartbeat
      <3>2. matchTTL \in 0..matchTTL
        BY StoreAssumption
      <3>3. QED
        BY <3>1, <3>2 DEF TypeOK, UserMatches
    <2> DEFINE n == IF Live(m) THEN matchTTL ELSE 0
               h == [match[m] EXCEPT !.ttl = n]
    <2>3. h \in Hash
      <3>1. match[m] \in Hash
        BY <2>1 DEF TypeOK
      <3>2. n \in 0..matchTTL
        BY StoreAssumption
      <3> HIDE DEF n, m
      <3>3. QED
        BY <3>1, <3>2 DEF Hash
    <2>4. match' = [match EXCEPT ![m] = h]
      BY <1>3 DEF Heartbeat
    <2> HIDE DEF h, m
    <2>5. match' \in [Matches -> Hash]
      BY <2>1, <2>3, <2>4, HashUpdate DEF TypeOK
    <2>6. QED
      BY <1>1, <2>2, <2>5 DEF TypeOK, Heartbeat, Presences, UserMatches
  <1>4. QED
    BY <1>2, <1>3

\* disconnectScript writes well-typed keys, in an encounter or in none.
LEMMA DisconnectType ==
  ASSUME TypeOK, NEW u \in Users, NEW c \in Conns, Disconnect(u, c) PROVE TypeOK'
  <1>1. presence' \in [Users -> Presences]
    BY StoreAssumption DEF TypeOK, Disconnect, Presences, NoPresence
  <1>2. queue' \in [Users -> Conns \cup {NoConn}]
    BY DEF TypeOK, Disconnect
  <1>3. reconnectGrace \in Never..reconnectGrace
    BY StoreAssumption DEF Never
  <1>4. /\ match' \in [Matches -> Hash]
        /\ graces' \in [Matches -> [Users -> Never..reconnectGrace]]
    <2>1. ASSUME NEW m \in Matches, In(u, m),
                 match' = [match EXCEPT ![m].gone[u] = reconnectGrace],
                 graces' = [graces EXCEPT ![m][u] = reconnectGrace]
          PROVE  /\ match' \in [Matches -> Hash]
                 /\ graces' \in [Matches -> [Users -> Never..reconnectGrace]]
      <3> DEFINE h == [match[m] EXCEPT !.gone[u] = reconnectGrace]
      <3>1. h \in Hash
        BY <1>3, GoneUpdate DEF TypeOK
      <3>2. match' = [match EXCEPT ![m] = h]
        BY <2>1
      <3> HIDE DEF h
      <3>3. QED
        BY <2>1, <1>3, <3>1, <3>2, HashUpdate, GraceUpdate DEF TypeOK
    <2>2. QED
      BY <2>1 DEF TypeOK, Disconnect
  <1>5. QED
    BY <1>1, <1>2, <1>4 DEF TypeOK, Disconnect, Presences

\* reconnectScript writes well-typed keys.
LEMMA ReconnectType ==
  ASSUME TypeOK, NEW u \in Users, NEW c \in Conns, NEW m \in Matches, Reconnect(u, c, m)
  PROVE  TypeOK'
  <1> DEFINE h == [match[m] EXCEPT !.gone[u] = Never]
  <1>1. Never \in Never..reconnectGrace
    BY StoreAssumption DEF Never
  <1>2. h \in Hash
    BY <1>1, GoneUpdate DEF TypeOK
  <1>3. match' = [match EXCEPT ![m] = h]
    BY DEF Reconnect
  <1> HIDE DEF h
  <1>4. match' \in [Matches -> Hash]
    BY <1>2, <1>3, HashUpdate DEF TypeOK
  <1>5. graces' \in [Matches -> [Users -> Never..reconnectGrace]]
    BY <1>1, GraceUpdate DEF TypeOK, Reconnect
  <1>6. QED
    BY <1>4, <1>5 DEF TypeOK, Reconnect

\* extendScript writes well-typed keys, with one vote or with both.
LEMMA ExtendType ==
  ASSUME TypeOK, NEW u \in Users, NEW c \in Conns, NEW m \in Matches, Extend(u, c, m)
  PROVE  TypeOK'
  <1> DEFINE votes == match[m].extend \cup {u}
             both  == match[m].parties \subseteq votes
             h == [match[m] EXCEPT !.extend = votes, !.state = IF both THEN "extended" ELSE @]
  <1>1. match[m] \in Hash
    BY DEF TypeOK
  <1>2. h \in Hash
    <2> HIDE DEF both
    <2>1. QED
      BY <1>1 DEF Hash
  <1>3. match' = [match EXCEPT ![m] = h]
    BY DEF Extend
  <1>4. deadlines' = [deadlines EXCEPT ![m] = IF both THEN Never ELSE deadlines[m]]
    BY DEF Extend
  <1> HIDE DEF both, h
  <1>5. match' \in [Matches -> Hash]
    BY <1>2, <1>3, HashUpdate DEF TypeOK
  <1>6. deadlines' \in [Matches -> Never..encounterLength]
    BY <1>4, StoreAssumption DEF TypeOK, Never
  <1>7. QED
    BY <1>5, <1>6 DEF TypeOK, Extend

\* connectScript writes well-typed keys.
LEMMA ConnectVoteType ==
  ASSUME TypeOK, NEW u \in Users, NEW c \in Conns, NEW m \in Matches, ConnectVote(u, c, m)
  PROVE  TypeOK'
  <1> DEFINE h == [match[m] EXCEPT !.connect = @ \cup {u}]
  <1>1. match[m] \in Hash
    BY DEF TypeOK
  <1>2. h \in Hash
    BY <1>1 DEF Hash
  <1>3. match' = [match EXCEPT ![m] = h]
    BY DEF ConnectVote
  <1> HIDE DEF h
  <1>4. QED
    BY <1>2, <1>3, HashUpdate DEF TypeOK, ConnectVote

\* publishConnectionScript writes well-typed keys.
LEMMA PublishConnectionType ==
  ASSUME TypeOK, NEW m \in Matches, PublishConnection(m) PROVE TypeOK'
  <1> DEFINE h == [match[m] EXCEPT !.created = TRUE]
  <1>1. match[m] \in Hash
    BY DEF TypeOK
  <1>2. h \in Hash
    BY <1>1 DEF Hash
  <1>3. match' = [match EXCEPT ![m] = h]
    BY DEF PublishConnection
  <1> HIDE DEF h
  <1>4. QED
    BY <1>2, <1>3, HashUpdate DEF TypeOK, PublishConnection

\* claimScript writes a well-typed encounter and two keys that lead to it.
LEMMA ClaimType ==
  ASSUME TypeOK, NEW u \in Users, NEW v \in Users, NEW cu \in Conns, NEW cv \in Conns,
         NEW m \in Matches, NEW r \in BOOLEAN, Claim(u, v, cu, cv, m, r)
  PROVE  TypeOK'
  <1> DEFINE h == [Missing EXCEPT !.ttl = matchTTL, !.parties = {u, v},
                                  !.state = "active", !.left = encounterLength]
  <1>1. h \in Hash
    <2>1. {u, v} \in SUBSET Users /\ matchTTL \in 0..matchTTL
          /\ encounterLength \in 0..encounterLength
      BY StoreAssumption
    <2>2. QED
      BY <2>1, MissingIsHash DEF Hash
  <1>2. match' = [match EXCEPT ![m] = h]
    BY DEF Claim
  <1> HIDE DEF h
  <1>3. match' \in [Matches -> Hash]
    BY <1>1, <1>2, HashUpdate DEF TypeOK
  <1>4. userMatch' \in [Users -> UserMatches]
    BY StoreAssumption DEF TypeOK, Claim, UserMatches
  <1>5. queue' \in [Users -> Conns \cup {NoConn}]
    BY DEF TypeOK, Claim
  <1>6. recent' \subseteq SUBSET Users
    BY DEF TypeOK, Claim
  <1>7. deadlines' \in [Matches -> Never..encounterLength]
    BY StoreAssumption DEF TypeOK, Claim, Never
  <1>8. QED
    BY <1>3, <1>4, <1>5, <1>6, <1>7 DEF TypeOK, Claim, UserMatches

\* The clock takes no TTL and no deadline out of its range.
LEMMA TickType == ASSUME TypeOK, Tick PROVE TypeOK'
  <1>1. presence' \in [Users -> Presences]
    <2>1. ASSUME NEW u \in Users
          PROVE  (IF presence[u].ttl <= 1 THEN NoPresence
                  ELSE [presence[u] EXCEPT !.ttl = @ - 1]) \in Presences
      BY StoreAssumption DEF TypeOK, Presences, NoPresence
    <2>2. QED
      BY <2>1 DEF Tick
  <1>2. userMatch' \in [Users -> UserMatches]
    <2>1. ASSUME NEW u \in Users
          PROVE  (IF userMatch[u].ttl <= 1 THEN NoUserMatch
                  ELSE [userMatch[u] EXCEPT !.ttl = @ - 1]) \in UserMatches
      BY StoreAssumption DEF TypeOK, UserMatches, NoUserMatch
    <2>2. QED
      BY <2>1 DEF Tick
  <1>3. match' \in [Matches -> Hash]
    BY AgeType DEF Tick, TypeOK
  <1>4. deadlines' \in [Matches -> Never..encounterLength]
    BY CountdownType, StoreAssumption DEF Tick, TypeOK
  <1>5. graces' \in [Matches -> [Users -> Never..reconnectGrace]]
    <2>1. ASSUME NEW m \in Matches, NEW u \in Users
          PROVE  Countdown(graces[m][u]) \in Never..reconnectGrace
      BY CountdownType, StoreAssumption DEF TypeOK
    <2>2. QED
      BY <2>1 DEF Tick
  <1>6. QED
    BY <1>1, <1>2, <1>3, <1>4, <1>5 DEF TypeOK, Tick, Presences, UserMatches

\* No script, sweep or tick writes a key of another shape.
LEMMA TypeStep == ASSUME TypeOK, [Next]_vars PROVE TypeOK'
  <1>1. ASSUME NEW u \in Users, NEW c \in Conns,
               \/ Connect(u, c) \/ Enqueue(u, c) \/ LeaveQueue(u, c) \/ CleanupQueued(u, c)
        PROVE  TypeOK'
    <2>1. CASE Connect(u, c)
      BY <2>1, StoreAssumption DEF TypeOK, Connect
    <2>2. CASE Enqueue(u, c)
      BY <2>2 DEF TypeOK, Enqueue
    <2>3. CASE LeaveQueue(u, c)
      BY <2>3 DEF TypeOK, LeaveQueue
    <2>4. CASE CleanupQueued(u, c)
      BY <2>4 DEF TypeOK, CleanupQueued
    <2>5. QED
      BY <1>1, <2>1, <2>2, <2>3, <2>4
  <1>2. ASSUME NEW m \in Matches, Expire(m) PROVE TypeOK'
    <2>1. CASE Drop(m)
      BY <2>1, DropType
    <2>2. CASE ~Drop(m)
      BY <1>2, <2>2, StoreAssumption DEF TypeOK, Expire, Never
    <2>3. QED
      BY <2>1, <2>2
  <1>3. ASSUME NEW m \in Matches, NEW u \in Users, DisconnectExpiry(m, u) PROVE TypeOK'
    <2>1. CASE Drop(m)
      BY <2>1, DropType
    <2>2. CASE ~Drop(m)
      <3>1. Never \in Never..reconnectGrace
        BY StoreAssumption DEF Never
      <3>2. graces' \in [Matches -> [Users -> Never..reconnectGrace]]
        BY <1>3, <2>2, <3>1, GraceUpdate DEF TypeOK, DisconnectExpiry
      <3>3. QED
        BY <1>3, <2>2, <3>2 DEF TypeOK, DisconnectExpiry
    <2>3. QED
      BY <2>1, <2>2
  <1>4. ASSUME NEW p \in SUBSET Users, RecentLapses(p) PROVE TypeOK'
    BY <1>4 DEF TypeOK, RecentLapses
  <1>5. CASE UNCHANGED vars
    BY <1>5 DEF TypeOK, vars
  <1>6. QED
    BY <1>1, <1>2, <1>3, <1>4, <1>5, HeartbeatType, DisconnectType, ReconnectType, DropType,
       ExtendType, ConnectVoteType, PublishConnectionType, ClaimType, TickType
    DEF Next, EndMatch, EndForUser

\* Every key the scripts of store.go write keeps its shape, whatever the
\* sockets, the sweeper and the clock do.
THEOREM StoreTypes == Spec => []TypeOK
  <1>1. Init => TypeOK
    BY MissingIsHash, StoreAssumption DEF Init, TypeOK, NoPresence, NoUserMatch, Never
  <1>2. TypeOK /\ [Next]_vars => TypeOK'
    BY TypeStep
  <1>3. QED
    BY <1>1, <1>2, PTL DEF Spec

-----------------------------------------------------------------------------
(* What a step may do to one encounter, from its hash h to its hash g.      *)

SameVotes(h, g) ==
    g.parties = h.parties /\ g.extend = h.extend /\ g.connect = h.connect /\ g.created = h.created

Kept(h, g)    == g.ttl > 0 /\ SameVotes(h, g) /\ g.state = h.state /\ g.left = h.left
Begun(h, g)   == /\ h.ttl = 0
                 /\ g.ttl > 0 /\ g.state = "active" /\ g.left = encounterLength
                 /\ g.extend = {} /\ g.connect = {} /\ ~g.created
                 /\ \E u, v \in Users : u # v /\ g.parties = {u, v}
Aged(h, g)    == /\ h.ttl > 1 /\ g.ttl = h.ttl - 1
                 /\ SameVotes(h, g) /\ g.state = h.state /\ g.left = Countdown(h.left)
Extended(h, g) ==
    \E u \in h.parties :
        /\ h.state = "active" /\ h.left > 0 /\ g.ttl = h.ttl
        /\ g.extend = h.extend \cup {u}
        /\ g.state = IF g.parties \subseteq g.extend THEN "extended" ELSE "active"
        /\ g.parties = h.parties /\ g.left = h.left
        /\ g.connect = h.connect /\ g.created = h.created
Voted(h, g) ==
    \E u \in h.parties :
        /\ h.state = "extended" \/ (h.state = "active" /\ h.left > 0)
        /\ ~h.created /\ g.ttl = h.ttl
        /\ g.connect = h.connect \cup {u}
        /\ g.parties = h.parties /\ g.state = h.state /\ g.left = h.left
        /\ g.extend = h.extend /\ g.created = h.created
Announced(h, g) ==
    /\ h.ttl > 0 /\ g.ttl = h.ttl
    /\ h.parties \subseteq h.connect
    /\ g.parties = h.parties /\ g.state = h.state /\ g.left = h.left
    /\ g.extend = h.extend /\ g.connect = h.connect /\ g.created

HashStep(m) ==
    \/ match'[m] = match[m]
    \/ match'[m] = Missing
    \/ Live(m) /\ Kept(match[m], match'[m])
    \/ Begun(match[m], match'[m])
    \/ Aged(match[m], match'[m])
    \/ Extended(match[m], match'[m])
    \/ Voted(match[m], match'[m])
    \/ Announced(match[m], match'[m])

\* An encounter that is no longer there is the missing one.
GoneIsMissing == \A m \in Matches : ~Live(m) => match[m] = Missing

\* Each step does one of these things to each encounter, and leaves no trace
\* of one whose hash is gone.
LEMMA StepOfHash ==
  ASSUME TypeOK, GoneIsMissing, [Next]_vars, NEW k \in Matches
  PROVE  HashStep(k) /\ (match'[k].ttl = 0 => match'[k] = Missing)
  <1> DEFINE Goal == HashStep(k) /\ (match'[k].ttl = 0 => match'[k] = Missing)
  <1>h. /\ match[k] \in Hash
        /\ match[k].ttl = 0 => match[k] = Missing
        /\ Missing.ttl = 0
    BY StoreAssumption DEF TypeOK, GoneIsMissing, Live, Hash, Missing
  <1>a. ASSUME match'[k] = match[k] PROVE Goal
    BY <1>a, <1>h DEF HashStep
  <1>b. ASSUME match'[k] = Missing PROVE Goal
    BY <1>b DEF HashStep
  <1>1. ASSUME UNCHANGED match PROVE Goal
    BY <1>1, <1>a
  <1>2. ASSUME NEW m \in Matches, match' = [match EXCEPT ![m] = Missing] PROVE Goal
    BY <1>2, <1>a, <1>b DEF TypeOK
  <1>3. ASSUME NEW u \in Users, NEW c \in Conns, Heartbeat(u, c) PROVE Goal
    <2> DEFINE m == userMatch[u].match
    <2>1. CASE m = NoMatch
      BY <1>1, <1>3, <2>1 DEF Heartbeat
    <2>2. CASE m # NoMatch
      <3>1. match' = [match EXCEPT ![m].ttl = IF Live(m) THEN matchTTL ELSE 0]
        BY <1>3, <2>2 DEF Heartbeat
      <3>2. CASE m # k
        BY <3>1, <3>2, <1>a DEF TypeOK
      <3>3. CASE m = k /\ Live(k)
        <4>1. match'[k] = [match[k] EXCEPT !.ttl = matchTTL]
          BY <3>1, <3>3 DEF TypeOK
        <4>2. match'[k].ttl > 0 /\ Kept(match[k], match'[k])
          BY <4>1, <1>h, StoreAssumption DEF Kept, SameVotes, Hash
        <4>3. QED
          BY <4>2, <3>3, StoreAssumption DEF HashStep
      <3>4. CASE m = k /\ ~Live(k)
        <4>1. match'[k] = [match[k] EXCEPT !.ttl = 0]
          BY <3>1, <3>4 DEF TypeOK
        <4>2. match'[k] = match[k]
          BY <4>1, <3>4, <1>h DEF Live, Hash
        <4>3. QED
          BY <4>2, <1>a
      <3>5. QED
        BY <3>2, <3>3, <3>4
    <2>3. QED
      BY <2>1, <2>2
  <1>4. ASSUME NEW u \in Users, NEW m \in Matches, NEW n \in Never..reconnectGrace,
               Party(u, m), match' = [match EXCEPT ![m].gone[u] = n]
        PROVE  Goal
    <2>1. CASE m # k
      BY <1>4, <2>1, <1>a DEF TypeOK
    <2>2. CASE m = k
      <3>1. match'[k] = [match[k] EXCEPT !.gone[u] = n]
        BY <1>4, <2>2 DEF TypeOK
      <3>2. match[k].ttl > 0
        BY <1>4, <2>2, <1>h DEF Party, Missing, Hash
      <3>3. Kept(match[k], match'[k])
        BY <3>1, <3>2, <1>h DEF Kept, SameVotes, Hash
      <3>4. QED
        BY <3>2, <3>3 DEF HashStep, Live, Kept
    <2>3. QED
      BY <2>1, <2>2
  <1>5. ASSUME NEW u \in Users, NEW c \in Conns, Disconnect(u, c) PROVE Goal
    <2>1. reconnectGrace \in Never..reconnectGrace
      BY StoreAssumption DEF Never
    <2>2. QED
      BY <1>1, <1>4, <1>5, <2>1 DEF Disconnect, In
  <1>6. ASSUME NEW u \in Users, NEW c \in Conns, NEW m \in Matches, Reconnect(u, c, m) PROVE Goal
    <2>1. Never \in Never..reconnectGrace
      BY StoreAssumption DEF Never
    <2>2. QED
      BY <1>4, <1>6, <2>1 DEF Reconnect, MayReturn, In
  <1>7. ASSUME NEW u \in Users, NEW v \in Users, NEW cu \in Conns, NEW cv \in Conns,
               NEW m \in Matches, NEW r \in BOOLEAN, Claim(u, v, cu, cv, m, r)
        PROVE  Goal
    <2>1. CASE m # k
      BY <1>7, <2>1, <1>a DEF TypeOK, Claim
    <2>2. CASE m = k
      <3>1. match'[k] = [Missing EXCEPT !.ttl = matchTTL, !.parties = {u, v},
                                        !.state = "active", !.left = encounterLength]
        BY <1>7, <2>2 DEF TypeOK, Claim
      <3>2. match[k].ttl = 0
        BY <1>7, <2>2, <1>h DEF Claim, FreshMatch, Live, Hash
      <3>3. u # v /\ match'[k].parties = {u, v}
        BY <3>1, <1>7 DEF Claim, MayClaim, Missing
      <3>4. \E x, y \in Users : x # y /\ match'[k].parties = {x, y}
        BY <3>3
      <3>5. Begun(match[k], match'[k])
        BY <3>1, <3>2, <3>4, StoreAssumption DEF Begun, Missing
      <3>6. QED
        BY <3>5, <3>1 DEF HashStep, Begun
    <2>3. QED
      BY <2>1, <2>2
  <1>8. ASSUME NEW u \in Users, NEW c \in Conns, NEW m \in Matches, Extend(u, c, m) PROVE Goal
    <2>1. CASE m # k
      BY <1>8, <2>1, <1>a DEF TypeOK, Extend
    <2>2. CASE m = k
      <3> DEFINE votes == match[k].extend \cup {u}
                 both  == match[k].parties \subseteq votes
      <3>1. match'[k] = [match[k] EXCEPT !.extend = votes,
                                         !.state = IF both THEN "extended" ELSE @]
        BY <1>8, <2>2 DEF TypeOK, Extend
      <3>2. u \in match[k].parties /\ match[k].state = "active" /\ match[k].left > 0
        BY <1>8, <2>2 DEF Extend, In, Party, Open
      <3>3. match[k].ttl > 0
        BY <3>2, <1>h DEF Missing, Hash
      <3> HIDE DEF both
      <3>4. /\ match'[k].ttl = match[k].ttl /\ match'[k].extend = votes
            /\ match'[k].state = IF both THEN "extended" ELSE "active"
            /\ match'[k].parties = match[k].parties /\ match'[k].left = match[k].left
            /\ match'[k].connect = match[k].connect /\ match'[k].created = match[k].created
        BY <3>1, <3>2, <1>h DEF Hash
      <3>5. Extended(match[k], match'[k])
        BY <3>2, <3>4 DEF Extended, both
      <3>6. QED
        BY <3>3, <3>4, <3>5 DEF HashStep
    <2>3. QED
      BY <2>1, <2>2
  <1>9. ASSUME NEW u \in Users, NEW c \in Conns, NEW m \in Matches, ConnectVote(u, c, m) PROVE Goal
    <2>1. CASE m # k
      BY <1>9, <2>1, <1>a DEF TypeOK, ConnectVote
    <2>2. CASE m = k
      <3>1. match'[k] = [match[k] EXCEPT !.connect = @ \cup {u}]
        BY <1>9, <2>2 DEF TypeOK, ConnectVote
      <3>2. /\ u \in match[k].parties /\ ~match[k].created
            /\ match[k].state = "extended" \/ (match[k].state = "active" /\ match[k].left > 0)
        BY <1>9, <2>2 DEF ConnectVote, In, Party, Open
      <3>3. match[k].ttl > 0
        BY <3>2, <1>h DEF Missing, Hash
      <3>4. Voted(match[k], match'[k]) /\ match'[k].ttl = match[k].ttl
        BY <3>1, <3>2, <1>h DEF Voted, Hash
      <3>5. QED
        BY <3>3, <3>4 DEF HashStep
    <2>3. QED
      BY <2>1, <2>2
  <1>10. ASSUME NEW m \in Matches, PublishConnection(m) PROVE Goal
    <2>1. CASE m # k
      BY <1>10, <2>1, <1>a DEF TypeOK, PublishConnection
    <2>2. CASE m = k
      <3>1. match'[k] = [match[k] EXCEPT !.created = TRUE]
        BY <1>10, <2>2 DEF TypeOK, PublishConnection
      <3>2. match[k].ttl > 0 /\ match[k].parties \subseteq match[k].connect
        BY <1>10, <2>2 DEF PublishConnection, Live
      <3>3. Announced(match[k], match'[k])
        BY <3>1, <3>2, <1>h DEF Announced, Hash
      <3>4. QED
        BY <3>2, <3>3, <1>h DEF HashStep, Announced, Hash
    <2>3. QED
      BY <2>1, <2>2
  <1>11. ASSUME Tick PROVE Goal
    <2>1. match'[k] = Age(match[k])
      BY <1>11 DEF Tick
    <2>2. CASE match[k].ttl <= 1
      BY <2>1, <2>2, <1>b DEF Age
    <2>3. CASE ~(match[k].ttl <= 1)
      <3>1. /\ match'[k].ttl = match[k].ttl - 1
            /\ match'[k].left = Countdown(match[k].left)
            /\ match'[k].state = match[k].state
            /\ SameVotes(match[k], match'[k])
        BY <2>1, <2>3, <1>h DEF Age, SameVotes, Hash
      <3>2. Aged(match[k], match'[k])
        BY <2>3, <3>1, <1>h DEF Aged, Hash
      <3>3. QED
        BY <2>3, <3>1, <3>2, <1>h DEF HashStep, Hash
    <2>4. QED
      BY <2>2, <2>3
  <1> HIDE DEF Goal
  <1>12. ASSUME NEW u \in Users, NEW c \in Conns,
                \/ Connect(u, c) \/ Enqueue(u, c) \/ LeaveQueue(u, c) \/ CleanupQueued(u, c)
         PROVE  Goal
    BY <1>12, <1>1 DEF Connect, Enqueue, LeaveQueue, CleanupQueued
  <1>13. ASSUME NEW u \in Users, NEW m \in Matches, DisconnectExpiry(m, u) \/ EndForUser(u, m)
         PROVE  Goal
    BY <1>13, <1>1, <1>2 DEF DisconnectExpiry, EndForUser, Drop
  <1>14. ASSUME NEW m \in Matches, Expire(m) PROVE Goal
    BY <1>14, <1>1, <1>2 DEF Expire, Drop
  <1>15. ASSUME NEW u \in Users, NEW c \in Conns, NEW m \in Matches, EndMatch(u, c, m) PROVE Goal
    BY <1>15, <1>2 DEF EndMatch, Drop
  <1>16. ASSUME NEW p \in SUBSET Users, RecentLapses(p) PROVE Goal
    BY <1>16, <1>1 DEF RecentLapses
  <1>17. ASSUME UNCHANGED vars PROVE Goal
    <2>1. UNCHANGED match
      BY <1>17 DEF vars
    <2>2. QED
      BY <2>1, <1>1
  <1>18. ASSUME Next PROVE Goal
    BY <1>18, <1>3, <1>5, <1>6, <1>7, <1>8, <1>9, <1>10, <1>11, <1>12, <1>13, <1>14, <1>15,
       <1>16 DEF Next
  <1>19. QED
    BY <1>17, <1>18 DEF Goal

-----------------------------------------------------------------------------
(* Consent.                                                                 *)

\* The inductive invariant of the votes.
ConsentInv == TypeOK /\ OnlyPartiesAct /\ ConsentIsMutual

\* It holds of an encounter after a step that did one of the eight things.
LEMMA ConsentStep == ASSUME ConsentInv, [Next]_vars PROVE ConsentInv'
  <1>1. TypeOK /\ TypeOK'
    BY TypeStep DEF ConsentInv
  <1>2. GoneIsMissing
    BY DEF ConsentInv, OnlyPartiesAct, GoneIsMissing
  <1>3. ASSUME NEW k \in Matches
        PROVE  /\ match'[k].ttl = 0 => match'[k] = Missing
               /\ match'[k].extend \cup match'[k].connect \subseteq match'[k].parties
               /\ match'[k].state = "extended" => match'[k].extend = match'[k].parties
               /\ match'[k].created => match'[k].connect = match'[k].parties
    <2>1. HashStep(k) /\ (match'[k].ttl = 0 => match'[k] = Missing)
      BY <1>1, <1>2, StepOfHash
    <2>2. /\ match[k] \in Hash /\ match'[k] \in Hash
          /\ match[k].extend \cup match[k].connect \subseteq match[k].parties
          /\ match[k].state = "extended" => match[k].extend = match[k].parties
          /\ match[k].created => match[k].connect = match[k].parties
      BY <1>1 DEF TypeOK, ConsentInv, OnlyPartiesAct, ConsentIsMutual
    <2> DEFINE Goal ==
                 /\ match'[k].extend \cup match'[k].connect \subseteq match'[k].parties
                 /\ match'[k].state = "extended" => match'[k].extend = match'[k].parties
                 /\ match'[k].created => match'[k].connect = match'[k].parties
    <2>3. ASSUME match'[k] = match[k] PROVE Goal
      BY <2>2, <2>3
    <2>4. ASSUME match'[k] = Missing PROVE Goal
      BY <2>4 DEF Missing
    <2>5. ASSUME Kept(match[k], match'[k]) \/ Aged(match[k], match'[k]) PROVE Goal
      BY <2>2, <2>5 DEF Kept, Aged, SameVotes
    <2>6. ASSUME Begun(match[k], match'[k]) PROVE Goal
      BY <2>2, <2>6 DEF Begun
    <2>7. ASSUME Extended(match[k], match'[k]) PROVE Goal
      BY <2>2, <2>7 DEF Extended, Hash
    <2>8. ASSUME Voted(match[k], match'[k]) PROVE Goal
      BY <2>2, <2>8 DEF Voted
    <2>9. ASSUME Announced(match[k], match'[k]) PROVE Goal
      BY <2>2, <2>9 DEF Announced
    <2>10. QED
      BY <2>1, <2>3, <2>4, <2>5, <2>6, <2>7, <2>8, <2>9 DEF HashStep
  <1>4. OnlyPartiesAct' /\ ConsentIsMutual'
    <2>1. \A k \in Matches : match'[k].ttl \in Nat
      BY <1>1, StoreAssumption DEF TypeOK, Hash
    <2>2. QED
      BY <1>3, <2>1 DEF OnlyPartiesAct, ConsentIsMutual, Live
  <1>5. QED
    BY <1>1, <1>4 DEF ConsentInv

\* The invariant behind StoreConsent: votes and states agree in every hash.
LEMMA ConsentAlways == Spec => []ConsentInv
  <1>1. Init => ConsentInv
    <2>1. ASSUME Init PROVE ConsentInv
      <3>1. TypeOK
        BY <2>1, MissingIsHash, StoreAssumption
        DEF Init, TypeOK, NoPresence, NoUserMatch, Never
      <3>2. OnlyPartiesAct /\ ConsentIsMutual
        BY <2>1 DEF Init, OnlyPartiesAct, ConsentIsMutual, Live, Missing
      <3>3. QED
        BY <3>1, <3>2 DEF ConsentInv
    <2>2. QED
      BY <2>1
  <1>2. ConsentInv /\ [Next]_vars => ConsentInv'
    BY ConsentStep
  <1>3. QED
    BY <1>1, <1>2, PTL DEF Spec

\* An encounter goes on past its minute, or becomes a connection, only when
\* both of its users voted for it (extendScript, connectScript,
\* publishConnectionScript).
THEOREM StoreConsent == Spec => []ConsentIsMutual
  <1>1. ConsentInv => ConsentIsMutual
    BY DEF ConsentInv
  <1>2. QED
    BY <1>1, ConsentAlways, PTL

\* No vote is counted in an encounter whose minute is over, in the up to half
\* a second before the sweeper ends it.
THEOREM StoreDueIsFrozen == Spec => DueIsFrozen
  <1> DEFINE Frozen(m) ==
               match[m].state = "active" /\ match[m].left = 0 =>
                 \/ match'[m] = Missing
                 \/ /\ match'[m].state = "active"
                    /\ match'[m].extend = match[m].extend
                    /\ match'[m].connect = match[m].connect
  <1>1. ASSUME ConsentInv, [Next]_vars PROVE \A m \in Matches : Frozen(m)
    <2> SUFFICES ASSUME NEW m \in Matches, match[m].state = "active", match[m].left = 0
                 PROVE  Frozen(m)
      OBVIOUS
    <2>1. TypeOK /\ GoneIsMissing
      BY <1>1 DEF ConsentInv, OnlyPartiesAct, GoneIsMissing
    <2>2. HashStep(m)
      BY <1>1, <2>1, StepOfHash
    <2>3. match[m] \in Hash /\ match[m] # Missing
      BY <2>1 DEF TypeOK, Missing
    <2>4. match[m].ttl # 0
      BY <2>1, <2>3, StoreAssumption DEF GoneIsMissing, Live, Hash
    <2>5. QED
      BY <2>2, <2>3, <2>4
      DEF HashStep, Kept, Begun, Aged, Extended, Voted, Announced, SameVotes
  <1>2. QED
    BY <1>1, ConsentAlways, PTL DEF Spec, DueIsFrozen

-----------------------------------------------------------------------------
(* Users, encounters and the queue.                                         *)

\* The inductive invariant of the user-match keys: with the encounter they
\* lead to, and with the queue.
MapInv == TypeOK /\ OnlyPartiesAct /\ MappedToLiveMatch /\ QueuedIsUnmatched

\* The steps that write fields of one encounter other than its parties and
\* its TTL, and no user-match key.
FieldStep ==
  \/ \E u \in Users, c \in Conns, m \in Matches :
        Reconnect(u, c, m) \/ Extend(u, c, m) \/ ConnectVote(u, c, m)
  \/ \E m \in Matches : PublishConnection(m)
  \/ \E u \in Users, c \in Conns : Disconnect(u, c)

\* These steps put nobody in an encounter or in the queue, and leave every
\* TTL and every pair of parties as they are.
LEMMA FieldSteps ==
  ASSUME TypeOK, FieldStep
  PROVE  /\ userMatch' = userMatch
         /\ \A u \in Users : queue'[u] # NoConn => queue[u] # NoConn
         /\ \A k \in Matches : /\ match'[k].ttl = match[k].ttl
                               /\ match'[k].parties = match[k].parties
  <1> DEFINE Goal ==
               /\ userMatch' = userMatch
               /\ \A u \in Users : queue'[u] # NoConn => queue[u] # NoConn
               /\ \A k \in Matches : /\ match'[k].ttl = match[k].ttl
                                     /\ match'[k].parties = match[k].parties
  <1>1. match \in [Matches -> Hash]
    BY DEF TypeOK
  <1>2. ASSUME NEW u \in Users, NEW c \in Conns, NEW m \in Matches, Reconnect(u, c, m) PROVE Goal
    BY <1>1, <1>2 DEF Reconnect, Hash
  <1>3. ASSUME NEW u \in Users, NEW c \in Conns, NEW m \in Matches, Extend(u, c, m) PROVE Goal
    BY <1>1, <1>3 DEF Extend, Hash
  <1>4. ASSUME NEW u \in Users, NEW c \in Conns, NEW m \in Matches, ConnectVote(u, c, m) PROVE Goal
    BY <1>1, <1>4 DEF ConnectVote, Hash
  <1>5. ASSUME NEW m \in Matches, PublishConnection(m) PROVE Goal
    BY <1>1, <1>5 DEF PublishConnection, Hash
  <1>6. ASSUME NEW u \in Users, NEW c \in Conns, Disconnect(u, c) PROVE Goal
    <2>1. \A w \in Users : queue'[w] # NoConn => queue[w] # NoConn
      BY <1>6 DEF Disconnect, TypeOK
    <2>2. QED
      BY <1>1, <1>6, <2>1 DEF Disconnect, Hash
  <1>7. QED
    BY <1>2, <1>3, <1>4, <1>5, <1>6 DEF FieldStep

\* Ending an encounter strands nobody: it deletes the keys of both its parties.
LEMMA DropKeepsMap ==
  ASSUME MapInv, NEW m \in Matches, Drop(m)
  PROVE  MappedToLiveMatch' /\ QueuedIsUnmatched'
  <1>1. QueuedIsUnmatched'
    BY DEF Drop, MapInv, TypeOK, QueuedIsUnmatched
  <1>2. ASSUME NEW u \in Users, NEW k \in Matches, userMatch'[u].match = k
        PROVE  match'[k].ttl > 0 /\ u \in match'[k].parties /\ userMatch'[u].ttl <= match'[k].ttl
    <2>1. ~Party(u, m) /\ userMatch'[u] = userMatch[u]
      BY <1>2, StoreAssumption DEF Drop, MapInv, TypeOK, NoUserMatch
    <2>2. Live(k) /\ Party(u, k) /\ userMatch[u].ttl <= match[k].ttl
      BY <1>2, <2>1 DEF MapInv, MappedToLiveMatch
    <2>3. match'[k] = match[k]
      BY <2>1, <2>2 DEF Drop, MapInv, TypeOK
    <2>4. QED
      BY <2>1, <2>2, <2>3 DEF Live, Party
  <1>3. QED
    BY <1>1, <1>2 DEF MappedToLiveMatch, Live, Party

\* A heartbeat renews the encounter whenever it renews the key that leads to it.
LEMMA HeartbeatKeepsMap ==
  ASSUME MapInv, NEW u \in Users, NEW c \in Conns, Heartbeat(u, c)
  PROVE  MappedToLiveMatch' /\ QueuedIsUnmatched'
  <1> DEFINE m == userMatch[u].match
  <1>1. CASE m = NoMatch
    BY <1>1 DEF Heartbeat, MapInv, MappedToLiveMatch, QueuedIsUnmatched, Live, Party
  <1>2. CASE m # NoMatch
    <2>1. m \in Matches /\ Live(m)
      BY <1>2 DEF MapInv, TypeOK, MappedToLiveMatch
    <2>2. /\ userMatch' = [userMatch EXCEPT ![u].ttl = matchTTL]
          /\ match' = [match EXCEPT ![m].ttl = matchTTL]
          /\ queue' = queue
      BY <1>2, <2>1 DEF Heartbeat
    <2>3. QueuedIsUnmatched'
      <3>1. userMatch[u] # NoUserMatch
        BY <1>2 DEF NoUserMatch
      <3>2. QED
        BY <2>2, <3>1 DEF MapInv, TypeOK, QueuedIsUnmatched
    <2>4. ASSUME NEW w \in Users, NEW k \in Matches, userMatch'[w].match = k
          PROVE  match'[k].ttl > 0 /\ w \in match'[k].parties
                 /\ userMatch'[w].ttl <= match'[k].ttl
      <3>1. userMatch[w].match = k /\ match'[k].parties = match[k].parties
        BY <2>1, <2>2, <2>4 DEF MapInv, TypeOK, Hash
      <3>2. Live(k) /\ Party(w, k) /\ userMatch[w].ttl <= match[k].ttl
        BY <3>1 DEF MapInv, MappedToLiveMatch
      <3>3. userMatch[w].ttl <= matchTTL /\ userMatch[w].ttl \in Nat
        BY StoreAssumption DEF MapInv, TypeOK
      <3>4. CASE k = m
        <4>1. match'[k].ttl = matchTTL
          BY <2>1, <2>2, <3>4 DEF MapInv, TypeOK, Hash
        <4>2. userMatch'[w].ttl \in {userMatch[w].ttl, matchTTL}
          BY <2>2 DEF MapInv, TypeOK
        <4>3. QED
          BY <3>1, <3>2, <3>3, <4>1, <4>2, StoreAssumption DEF Party
      <3>5. CASE k # m
        <4>1. w # u
          BY <3>1, <3>5
        <4>2. match'[k] = match[k] /\ userMatch'[w] = userMatch[w]
          BY <2>1, <2>2, <3>5, <4>1 DEF MapInv, TypeOK
        <4>3. QED
          BY <3>2, <4>2 DEF Live, Party
      <3>6. QED
        BY <3>4, <3>5
    <2>5. QED
      BY <2>3, <2>4 DEF MappedToLiveMatch, Live, Party
  <1>3. QED
    BY <1>1, <1>2

\* A claim maps both users to the encounter it writes, under a fresh id.
LEMMA ClaimKeepsMap ==
  ASSUME MapInv, NEW u \in Users, NEW v \in Users, NEW cu \in Conns, NEW cv \in Conns,
         NEW m \in Matches, NEW r \in BOOLEAN, Claim(u, v, cu, cv, m, r)
  PROVE  MappedToLiveMatch' /\ QueuedIsUnmatched'
  <1>1. QueuedIsUnmatched'
    BY DEF Claim, MapInv, TypeOK, QueuedIsUnmatched
  <1>2. match'[m].ttl = matchTTL /\ match'[m].parties = {u, v}
    BY DEF Claim, MapInv, TypeOK, Missing
  <1>3. ASSUME NEW w \in Users, NEW k \in Matches, userMatch'[w].match = k
        PROVE  match'[k].ttl > 0 /\ w \in match'[k].parties /\ userMatch'[w].ttl <= match'[k].ttl
    <2>1. CASE w \in {u, v}
      <3>1. userMatch'[w] = [match |-> m, ttl |-> matchTTL]
        BY <2>1 DEF Claim
      <3>2. k = m
        BY <1>3, <3>1
      <3>3. QED
        BY <1>2, <2>1, <3>1, <3>2, StoreAssumption
    <2>2. CASE w \notin {u, v}
      <3>1. userMatch'[w] = userMatch[w] /\ k # m
        BY <1>3, <2>2 DEF Claim, FreshMatch
      <3>2. match'[k] = match[k]
        BY <3>1 DEF Claim, MapInv, TypeOK
      <3>3. QED
        BY <1>3, <3>1, <3>2 DEF MapInv, MappedToLiveMatch, Live, Party
    <2>3. QED
      BY <2>1, <2>2
  <1>4. QED
    BY <1>1, <1>3 DEF MappedToLiveMatch, Live, Party

\* The key and the encounter lose a tick together, and the key goes first.
LEMMA TickKeepsMap ==
  ASSUME MapInv, Tick
  PROVE  MappedToLiveMatch' /\ QueuedIsUnmatched'
  <1>1. QueuedIsUnmatched'
    BY DEF Tick, MapInv, TypeOK, QueuedIsUnmatched, NoUserMatch
  <1>2. ASSUME NEW u \in Users, NEW k \in Matches, userMatch'[u].match = k
        PROVE  match'[k].ttl > 0 /\ u \in match'[k].parties /\ userMatch'[u].ttl <= match'[k].ttl
    <2>1. /\ userMatch[u].ttl > 1
          /\ userMatch'[u].match = userMatch[u].match
          /\ userMatch'[u].ttl = userMatch[u].ttl - 1
      <3>1. userMatch[u].ttl \in Nat
        BY StoreAssumption DEF MapInv, TypeOK
      <3>2. ~(userMatch[u].ttl <= 1)
        BY <1>2, StoreAssumption DEF Tick, NoUserMatch
      <3>3. QED
        BY <3>1, <3>2 DEF Tick, MapInv, TypeOK
    <2>2. Party(u, k) /\ userMatch[u].ttl <= match[k].ttl
      BY <1>2, <2>1 DEF MapInv, MappedToLiveMatch
    <2>3. match[k] \in Hash /\ userMatch[u].ttl \in Nat
      BY StoreAssumption DEF MapInv, TypeOK
    <2>4. match'[k].ttl = match[k].ttl - 1 /\ match'[k].parties = match[k].parties
      <3>1. match[k].ttl \in Nat
        BY <2>3, StoreAssumption DEF Hash
      <3>2. ~(match[k].ttl <= 1)
        BY <2>1, <2>2, <2>3, <3>1
      <3>3. QED
        BY <2>3, <3>2 DEF Tick, Age, Hash
    <2>5. match[k].ttl \in Nat
      BY <2>3, StoreAssumption DEF Hash
    <2>6. QED
      BY <2>1, <2>2, <2>3, <2>4, <2>5 DEF Party
  <1>3. QED
    BY <1>1, <1>2 DEF MappedToLiveMatch, Live, Party

\* Every script, sweep and tick preserves the invariant behind StoreMapping.
LEMMA MapStep ==
  ASSUME MapInv, TypeOK', OnlyPartiesAct', [Next]_vars PROVE MapInv'
  <1> DEFINE Goal == MappedToLiveMatch' /\ QueuedIsUnmatched'
  <1>1. ASSUME UNCHANGED <<userMatch, match>>,
               \A u \in Users : queue'[u] # NoConn =>
                                  queue[u] # NoConn \/ userMatch[u] = NoUserMatch
        PROVE  Goal
    BY <1>1 DEF MapInv, MappedToLiveMatch, QueuedIsUnmatched, Live, Party
  <1>2. ASSUME FieldStep PROVE Goal
    BY <1>2, FieldSteps
    DEF MapInv, MappedToLiveMatch, QueuedIsUnmatched, Live, Party
  <1>3. ASSUME NEW u \in Users, NEW c \in Conns,
               \/ Connect(u, c) \/ Enqueue(u, c) \/ LeaveQueue(u, c) \/ CleanupQueued(u, c)
        PROVE  Goal
    <2>1. CASE Connect(u, c)
      BY <1>1, <2>1 DEF Connect
    <2>2. CASE Enqueue(u, c)
      BY <1>1, <2>2 DEF Enqueue, MapInv, TypeOK
    <2>3. CASE LeaveQueue(u, c)
      BY <1>1, <2>3 DEF LeaveQueue, MapInv, TypeOK
    <2>4. CASE CleanupQueued(u, c)
      BY <1>1, <2>4 DEF CleanupQueued, MapInv, TypeOK
    <2>5. QED
      BY <1>3, <2>1, <2>2, <2>3, <2>4
  <1>4. ASSUME NEW m \in Matches, NEW u \in Users, DisconnectExpiry(m, u) \/ EndForUser(u, m)
        PROVE  Goal
    BY <1>1, <1>4, DropKeepsMap DEF DisconnectExpiry, EndForUser
  <1>5. ASSUME NEW m \in Matches, Expire(m) PROVE Goal
    BY <1>1, <1>5, DropKeepsMap DEF Expire
  <1>6. ASSUME NEW m \in Matches, NEW u \in Users, NEW c \in Conns, EndMatch(u, c, m) PROVE Goal
    BY <1>6, DropKeepsMap DEF EndMatch
  <1>7. ASSUME NEW p \in SUBSET Users, RecentLapses(p) PROVE Goal
    BY <1>1, <1>7 DEF RecentLapses
  <1>8. ASSUME UNCHANGED vars PROVE Goal
    BY <1>1, <1>8 DEF vars
  <1>9. Goal
    <2> HIDE DEF Goal
    <2>1. CASE Next
      BY <2>1, <1>2, <1>3, <1>4, <1>5, <1>6, <1>7, HeartbeatKeepsMap, ClaimKeepsMap,
         TickKeepsMap DEF Next, FieldStep, Goal
    <2>2. QED
      BY <2>1, <1>8
  <1>10. QED
    BY <1>9 DEF MapInv

\* The invariant behind StoreMapping and StoreQueue.
LEMMA MapAlways == Spec => []MapInv
  <1>1. Init /\ TypeOK /\ OnlyPartiesAct => MapInv
    BY StoreAssumption DEF Init, MapInv, MappedToLiveMatch, QueuedIsUnmatched, NoUserMatch
  <1>2. MapInv /\ TypeOK' /\ OnlyPartiesAct' /\ [Next]_vars => MapInv'
    BY MapStep
  <1>3. ConsentInv => TypeOK /\ OnlyPartiesAct
    BY DEF ConsentInv
  <1>4. QED
    BY <1>1, <1>2, <1>3, ConsentAlways, PTL DEF Spec

\* Whoever holds a user-match key is a party of an encounter that exists and
\* outlives the key: no ending, heartbeat or lapse of a TTL strands a user.
THEOREM StoreMapping == Spec => []MappedToLiveMatch
  <1>1. MapInv => MappedToLiveMatch
    BY DEF MapInv
  <1>2. QED
    BY <1>1, MapAlways, PTL

\* A queued user is in no encounter, so no claim takes a user out of one the
\* store still maps them to.
THEOREM StoreQueue == Spec => []QueuedIsUnmatched
  <1>1. MapInv => QueuedIsUnmatched
    BY DEF MapInv
  <1>2. QED
    BY <1>1, MapAlways, PTL

-----------------------------------------------------------------------------
(* The schedules.                                                           *)

SchedInv == TypeOK /\ OnlyPartiesAct /\ SchedulesAgree

\* What SchedulesAgree says of one encounter.
Agrees(m) ==
    match[m].ttl > 0 =>
        /\ deadlines[m] = IF match[m].state = "active" THEN match[m].left ELSE Never
        /\ graces[m] = match[m].gone

\* The members of the two schedules and the fields of the encounter are
\* written together, in every script and by the clock.
LEMMA SchedStep ==
  ASSUME SchedInv, [Next]_vars PROVE SchedulesAgree'
  <1> DEFINE Goal == \A k \in Matches : Agrees(k)'
  <1>0. /\ match \in [Matches -> Hash] /\ deadlines \in [Matches -> Never..encounterLength]
        /\ graces \in [Matches -> [Users -> Never..reconnectGrace]]
        /\ \A k \in Matches : Agrees(k)
        /\ \A k \in Matches : match[k].ttl \in Nat /\ (match[k].ttl = 0 => match[k] = Missing)
    BY StoreAssumption DEF SchedInv, TypeOK, SchedulesAgree, Agrees, Live, Hash, OnlyPartiesAct
  <1>1. ASSUME UNCHANGED <<match, deadlines, graces>> PROVE Goal
    BY <1>0, <1>1 DEF Agrees
  <1>2. ASSUME NEW m \in Matches, Drop(m) PROVE Goal
    BY <1>0, <1>2 DEF Agrees, Drop, Missing
  <1>3. ASSUME NEW u \in Users, NEW c \in Conns, Heartbeat(u, c) PROVE Goal
    <2> DEFINE m == userMatch[u].match
    <2>1. CASE m = NoMatch
      BY <1>1, <1>3, <2>1 DEF Heartbeat
    <2>2. CASE m # NoMatch
      <3>1. m \in Matches
        BY <2>2 DEF SchedInv, TypeOK
      <3>2. /\ match' = [match EXCEPT ![m].ttl = IF Live(m) THEN matchTTL ELSE 0]
            /\ UNCHANGED <<deadlines, graces>>
        BY <1>3, <2>2 DEF Heartbeat
      <3> HIDE DEF m
      <3>3. QED
        BY <1>0, <3>1, <3>2 DEF Agrees, Live, Hash
    <2>3. QED
      BY <2>1, <2>2
  <1>4. ASSUME NEW u \in Users, NEW m \in Matches, NEW n \in Never..reconnectGrace,
               match' = [match EXCEPT ![m].gone[u] = n],
               graces' = [graces EXCEPT ![m][u] = n], deadlines' = deadlines
        PROVE  Goal
    <2>1. ASSUME NEW k \in Matches, k # m PROVE Agrees(k)'
      BY <1>0, <1>4, <2>1 DEF Agrees
    <2>2. /\ match'[m] = [match[m] EXCEPT !.gone[u] = n] /\ match[m] \in Hash
          /\ graces'[m] = [graces[m] EXCEPT ![u] = n] /\ deadlines'[m] = deadlines[m]
      BY <1>0, <1>4
    <2>3. /\ match'[m].ttl = match[m].ttl /\ match'[m].state = match[m].state
          /\ match'[m].left = match[m].left /\ match'[m].gone = [match[m].gone EXCEPT ![u] = n]
      BY <2>2 DEF Hash
    <2>4. Agrees(m)'
      BY <1>0, <2>2, <2>3 DEF Agrees
    <2>5. QED
      BY <2>1, <2>4
  <1>5. ASSUME NEW u \in Users, NEW c \in Conns, Disconnect(u, c) PROVE Goal
    <2>1. reconnectGrace \in Never..reconnectGrace
      BY StoreAssumption DEF Never
    <2>2. QED
      BY <1>1, <1>4, <1>5, <2>1 DEF Disconnect
  <1>6. ASSUME NEW u \in Users, NEW c \in Conns, NEW m \in Matches, Reconnect(u, c, m) PROVE Goal
    <2>1. Never \in Never..reconnectGrace
      BY StoreAssumption DEF Never
    <2>2. QED
      BY <1>4, <1>6, <2>1 DEF Reconnect
  <1>7. ASSUME NEW u \in Users, NEW v \in Users, NEW cu \in Conns, NEW cv \in Conns,
               NEW m \in Matches, NEW r \in BOOLEAN, Claim(u, v, cu, cv, m, r)
        PROVE  Goal
    <2>1. /\ match'[m].state = "active" /\ match'[m].left = encounterLength
          /\ match'[m].gone = [w \in Users |-> Never]
      BY <1>0, <1>7 DEF Claim, Missing
    <2>2. deadlines'[m] = encounterLength /\ graces'[m] = [w \in Users |-> Never]
      BY <1>0, <1>7 DEF Claim, FreshMatch
    <2>3. ASSUME NEW k \in Matches, k # m PROVE Agrees(k)'
      BY <1>0, <1>7, <2>3 DEF Claim, Agrees
    <2>4. QED
      BY <2>1, <2>2, <2>3 DEF Agrees
  <1>8. ASSUME NEW u \in Users, NEW c \in Conns, NEW m \in Matches, Extend(u, c, m) PROVE Goal
    <2> DEFINE both == match[m].parties \subseteq match[m].extend \cup {u}
    <2>1. /\ match[m].state = "active" /\ match[m].ttl > 0
          /\ graces' = graces
          /\ deadlines' = [deadlines EXCEPT ![m] = IF both THEN Never ELSE @]
          /\ match' = [match EXCEPT ![m].extend = match[m].extend \cup {u},
                                    ![m].state = IF both THEN "extended" ELSE @]
      BY <1>0, <1>8 DEF Extend, Missing
    <2> HIDE DEF both
    <2>2. Agrees(m)'
      BY <1>0, <2>1 DEF Agrees, Hash
    <2>3. ASSUME NEW k \in Matches, k # m PROVE Agrees(k)'
      BY <1>0, <2>1, <2>3 DEF Agrees
    <2>4. QED
      BY <2>2, <2>3
  <1>9. ASSUME NEW u \in Users, NEW c \in Conns, NEW m \in Matches, ConnectVote(u, c, m) PROVE Goal
    BY <1>0, <1>9 DEF ConnectVote, Agrees, Hash
  <1>10. ASSUME NEW m \in Matches, PublishConnection(m) PROVE Goal
    BY <1>0, <1>10 DEF PublishConnection, Agrees, Hash
  <1>11. ASSUME NEW m \in Matches, Expire(m) PROVE Goal
    <2>1. CASE Drop(m)
      BY <1>2, <2>1
    <2>2. CASE ~Drop(m)
      BY <1>0, <1>11, <2>2 DEF Expire, Agrees, Live
    <2>3. QED
      BY <2>1, <2>2
  <1>12. ASSUME NEW u \in Users, NEW m \in Matches, DisconnectExpiry(m, u) PROVE Goal
    <2>1. CASE Drop(m)
      BY <1>2, <2>1
    <2>2. CASE ~Drop(m)
      <3>1. /\ graces[m][u] = 0 /\ match[m].gone[u] # 0
            /\ graces' = [graces EXCEPT ![m][u] = Never]
            /\ match' = match /\ deadlines' = deadlines
        BY <1>12, <2>2 DEF DisconnectExpiry
      <3>2. ~(match[m].ttl > 0)
        BY <1>0, <3>1 DEF Agrees
      <3>3. QED
        BY <1>0, <3>1, <3>2 DEF Agrees
    <2>3. QED
      BY <2>1, <2>2
  <1>13. ASSUME Tick PROVE Goal
    <2> SUFFICES ASSUME NEW k \in Matches, match'[k].ttl > 0 PROVE Agrees(k)'
      BY DEF Agrees
    <2>1. /\ match'[k].state = match[k].state
          /\ match'[k].left = Countdown(match[k].left)
          /\ match'[k].gone = [u \in Users |-> Countdown(match[k].gone[u])]
          /\ match[k].ttl > 0
      <3>1. match'[k] = Age(match[k])
        BY <1>13 DEF Tick
      <3>2. ~(match[k].ttl <= 1)
        BY <3>1 DEF Age, Missing
      <3>3. QED
        BY <1>0, <3>1, <3>2 DEF Age, Hash
    <2>2. /\ deadlines'[k] = Countdown(deadlines[k])
          /\ graces'[k] = [u \in Users |-> Countdown(graces[k][u])]
      BY <1>13 DEF Tick
    <2>3. QED
      BY <1>0, <2>1, <2>2 DEF Agrees, Countdown, Never
  <1>14. ASSUME NEW u \in Users, NEW c \in Conns,
               \/ Connect(u, c) \/ Enqueue(u, c) \/ LeaveQueue(u, c) \/ CleanupQueued(u, c)
        PROVE  Goal
    BY <1>1, <1>14 DEF Connect, Enqueue, LeaveQueue, CleanupQueued
  <1>15. ASSUME NEW p \in SUBSET Users, RecentLapses(p) PROVE Goal
    BY <1>1, <1>15 DEF RecentLapses
  <1>16. ASSUME UNCHANGED vars PROVE Goal
    BY <1>1, <1>16 DEF vars
  <1>17. Goal
    <2> HIDE DEF Goal
    <2>1. CASE Next
      BY <2>1, <1>2, <1>3, <1>5, <1>6, <1>7, <1>8, <1>9, <1>10, <1>11, <1>12, <1>13, <1>14,
         <1>15 DEF Next, EndMatch, EndForUser
    <2>2. QED
      BY <2>1, <1>16
  <1>18. QED
    BY <1>17 DEF SchedulesAgree, Agrees, Live

\* The sweeper's schedules are those of the encounters themselves: an active
\* encounter is always due at its own deadline, an extended one never, and a
\* user is given up on exactly when the encounter says.
THEOREM StoreSchedules == Spec => []SchedulesAgree
  <1>1. Init => SchedulesAgree
    BY DEF Init, SchedulesAgree, Live, Missing
  <1>2. SchedulesAgree /\ TypeOK /\ OnlyPartiesAct /\ [Next]_vars => SchedulesAgree'
    BY SchedStep DEF SchedInv
  <1>3. ConsentInv => TypeOK /\ OnlyPartiesAct
    BY DEF ConsentInv
  <1>4. QED
    BY <1>1, <1>2, <1>3, ConsentAlways, PTL DEF Spec

-----------------------------------------------------------------------------
(***************************************************************************)
(* The store implements the abstract encounter: its initial states are      *)
(* abstract initial states, and what a step does to the hash of an          *)
(* encounter (StepOfHash) is an abstract step of it or none.                *)
(***************************************************************************)

\* An encounter that is there has a state.
LiveIsNamed == \A m \in Matches : Live(m) => match[m].state # "missing"

NamedInv == TypeOK /\ GoneIsMissing /\ LiveIsNamed

\* Once its TTL is over an encounter looks like none.
LEMMA SeenOfMissing == Seen(Missing) = Meeting!NoEncounter
  BY DEF Seen, Missing, Meeting!NoEncounter, Meeting!Of

\* Two hashes that differ in TTL and clock only are seen alike.
LEMMA SeenEqual ==
  ASSUME NEW h, NEW g, g.parties = h.parties, g.state = h.state,
         g.extend = h.extend, g.connect = h.connect, g.created = h.created,
         (g.state = "active" /\ g.left = 0) <=> (h.state = "active" /\ h.left = 0)
  PROVE  Seen(g) = Seen(h)
  BY DEF Seen

\* What is seen of a hash is given by its fields.
LEMMA SeenFields ==
  ASSUME NEW h, NEW o \in BOOLEAN, (h.state = "active" /\ h.left = 0) = o
  PROVE  Seen(h) = Meeting!Of(h.parties, h.state, o, h.extend, h.connect, h.created)
  BY DEF Seen, Meeting!Of

\* The steps of Encounter, field by field.
LEMMA MeetFields ==
  ASSUME NEW u \in Users, NEW v \in Users, u # v
  PROVE  Meeting!Meet(Meeting!NoEncounter, Meeting!Of({u, v}, "active", FALSE, {}, {}, FALSE))
  BY DEF Meeting!Meet

LEMMA WantMoreFields ==
  ASSUME NEW p, NEW u \in p, NEW x, NEW c, NEW d, NEW s, NEW e, NEW f,
         s = IF p \subseteq x \cup {u} THEN "extended" ELSE "active",
         e = Meeting!Of(p, "active", FALSE, x, c, d),
         f = Meeting!Of(p, s, FALSE, x \cup {u}, c, d)
  PROVE  Meeting!WantMore(e, f)
  <1>1. e.parties = p /\ e.state = "active" /\ e.over = FALSE /\ e.extend = x /\ e.connect = c /\ e.created = d
    BY DEF Meeting!Of
  <1>2. QED
    BY <1>1, Zenon DEF Meeting!WantMore, Meeting!TakesVotes

LEMMA WantContactFields ==
  ASSUME NEW p, NEW u \in p, NEW s, NEW o \in BOOLEAN, NEW x, NEW c, NEW e, NEW f,
         s = "extended" \/ (s = "active" /\ ~o),
         e = Meeting!Of(p, s, o, x, c, FALSE),
         f = Meeting!Of(p, s, o, x, c \cup {u}, FALSE)
  PROVE  Meeting!WantContact(e, f)
  <1>1. e.parties = p /\ e.state = s /\ e.over = o /\ e.extend = x /\ e.connect = c /\ e.created = FALSE
    BY DEF Meeting!Of
  <1>2. QED
    BY <1>1, Zenon DEF Meeting!WantContact, Meeting!TakesVotes

LEMMA LinkFields ==
  ASSUME NEW p, NEW s, NEW o, NEW x, NEW c, NEW d, NEW e, NEW f, s # "missing", p \subseteq c,
         e = Meeting!Of(p, s, o, x, c, d), f = Meeting!Of(p, s, o, x, c, TRUE)
  PROVE  Meeting!Link(e, f)
  <1>1. e.parties = p /\ e.state = s /\ e.over = o /\ e.extend = x /\ e.connect = c
    BY DEF Meeting!Of
  <1>2. Meeting!NoEncounter.state = "missing"
    BY DEF Meeting!NoEncounter, Meeting!Of
  <1>3. QED
    BY <1>1, <1>2, Zenon DEF Meeting!Link

LEMMA RunOutFields ==
  ASSUME NEW p, NEW x, NEW c, NEW d, NEW e, NEW f,
         e = Meeting!Of(p, "active", FALSE, x, c, d), f = Meeting!Of(p, "active", TRUE, x, c, d)
  PROVE  Meeting!RunOut(e, f)
  <1>1. e.parties = p /\ e.state = "active" /\ e.extend = x /\ e.connect = c /\ e.created = d
    BY DEF Meeting!Of
  <1>2. QED
    BY <1>1, Zenon DEF Meeting!RunOut

\* What is seen in the store has a name from the start to the end.
LEMMA NamedStep ==
  ASSUME NamedInv, TypeOK', GoneIsMissing', [Next]_vars
  PROVE  NamedInv'
  <1> SUFFICES ASSUME NEW m \in Matches, Live(m)' PROVE match'[m].state # "missing"
    BY DEF NamedInv, LiveIsNamed, Live
  <1>1. HashStep(m) /\ match[m] \in Hash /\ match'[m] \in Hash
    BY StepOfHash DEF NamedInv, TypeOK
  <1>2. Live(m) => match[m].state # "missing"
    BY DEF NamedInv, LiveIsNamed
  <1>3. match'[m].ttl > 0
    BY DEF Live
  <1>4. CASE match'[m] = match[m]
    BY <1>2, <1>3, <1>4 DEF Live
  <1>5. CASE match'[m] = Missing
    BY <1>3, <1>5 DEF Missing
  <1>6. CASE Live(m) /\ Kept(match[m], match'[m])
    BY <1>2, <1>6 DEF Kept
  <1>7. CASE Begun(match[m], match'[m])
    BY <1>7 DEF Begun
  <1>8. CASE Aged(match[m], match'[m])
    BY <1>1, <1>2, <1>8 DEF Aged, Live, Hash
  <1>9. CASE Extended(match[m], match'[m])
    BY <1>9 DEF Extended
  <1>10. CASE Voted(match[m], match'[m])
    BY <1>10 DEF Voted
  <1>11. CASE Announced(match[m], match'[m])
    BY <1>2, <1>11 DEF Announced, Live
  <1>12. QED
    BY <1>1, <1>4, <1>5, <1>6, <1>7, <1>8, <1>9, <1>10, <1>11 DEF HashStep

\* What a step does to one encounter is an abstract step of it, or nothing.
LEMMA SeenStep ==
  ASSUME NamedInv, TypeOK', [Next]_vars, NEW m \in Matches
  PROVE  \/ Seen(match'[m]) = Seen(match[m])
         \/ Meeting!EncounterStep(Seen(match[m]), Seen(match'[m]))
  <1> DEFINE h == match[m]
             g == match'[m]
             Goal == Seen(g) = Seen(h) \/ Meeting!EncounterStep(Seen(h), Seen(g))
  <1>1. HashStep(m) /\ h \in Hash /\ g \in Hash
    BY StepOfHash DEF NamedInv, TypeOK
  <1>2. h.left \in Nat /\ g.left \in Nat /\ h.created \in BOOLEAN /\ g.created \in BOOLEAN
    BY <1>1, StoreAssumption DEF Hash
  <1>3. CASE g = h
    BY <1>3
  <1>4. CASE g = Missing
    BY <1>4, SeenOfMissing DEF Meeting!EncounterStep, Meeting!End
  <1>5. CASE Live(m) /\ Kept(h, g)
    BY <1>5, SeenEqual DEF Kept, SameVotes
  <1>6. CASE Begun(h, g)
    <2>1. h = Missing
      BY <1>6 DEF NamedInv, GoneIsMissing, Live, Begun
    <2>2. Seen(h) = Meeting!NoEncounter
      BY <2>1, SeenOfMissing
    <2>3. PICK u \in Users, v \in Users : u # v /\ g.parties = {u, v}
      BY <1>6 DEF Begun
    <2>4. g.left # 0 /\ g.state = "active" /\ g.extend = {} /\ g.connect = {}
      BY <1>6, StoreAssumption DEF Begun
    <2>5. g.created = FALSE
      BY <1>2, <1>6 DEF Begun
    <2>6. Seen(g) = Meeting!Of({u, v}, "active", FALSE, {}, {}, FALSE)
      BY <2>3, <2>4, <2>5, SeenFields
    <2>7. QED
      BY <2>2, <2>3, <2>6, MeetFields DEF Meeting!EncounterStep
  <1>7. CASE Aged(h, g)
    <2>1. g.state = h.state /\ SameVotes(h, g)
      BY <1>7 DEF Aged
    <2>2. CASE h.state = "active" /\ h.left # 0 /\ g.left = 0
      <3>1. Seen(h) = Meeting!Of(h.parties, "active", FALSE, h.extend, h.connect, h.created)
        BY <2>2, SeenFields
      <3>2. Seen(g) = Meeting!Of(h.parties, "active", TRUE, h.extend, h.connect, h.created)
        BY <2>1, <2>2, SeenFields DEF SameVotes
      <3>3. QED
        BY <3>1, <3>2, RunOutFields DEF Meeting!EncounterStep
    <2>3. CASE ~(h.state = "active" /\ h.left # 0 /\ g.left = 0)
      <3>1. h.left = 0 => g.left = 0
        BY <1>7 DEF Aged, Countdown
      <3>2. QED
        BY <2>1, <2>3, <3>1, SeenEqual DEF SameVotes
    <2>4. QED
      BY <2>2, <2>3
  <1>8. CASE Extended(h, g)
    <2>1. PICK u \in h.parties :
            /\ h.state = "active" /\ h.left > 0
            /\ g.extend = h.extend \cup {u}
            /\ g.state = IF g.parties \subseteq g.extend THEN "extended" ELSE "active"
            /\ g.parties = h.parties /\ g.left = h.left
            /\ g.connect = h.connect /\ g.created = h.created
      BY <1>8 DEF Extended
    <2>2. g.left # 0 /\ h.left # 0
      BY <1>2, <2>1
    <2>3. Seen(h) = Meeting!Of(h.parties, "active", FALSE, h.extend, h.connect, h.created)
      BY <2>1, <2>2, SeenFields
    <2>4. Seen(g) = Meeting!Of(h.parties, g.state, FALSE, h.extend \cup {u}, h.connect, h.created)
      BY <2>1, <2>2, SeenFields
    <2>5. g.state = IF h.parties \subseteq h.extend \cup {u} THEN "extended" ELSE "active"
      BY <2>1
    <2>6. Meeting!WantMore(Seen(h), Seen(g))
      BY <2>3, <2>4, <2>5, WantMoreFields
    <2>7. QED
      BY <2>6, Zenon DEF Meeting!EncounterStep
  <1>9. CASE Voted(h, g)
    <2>1. PICK u \in h.parties :
            /\ h.state = "extended" \/ (h.state = "active" /\ h.left > 0)
            /\ ~h.created
            /\ g.connect = h.connect \cup {u}
            /\ g.parties = h.parties /\ g.state = h.state /\ g.left = h.left
            /\ g.extend = h.extend /\ g.created = h.created
      BY <1>9 DEF Voted
    <2>2. h.created = FALSE
      BY <1>2, <2>1
    <2>3. PICK o \in BOOLEAN : (h.state = "active" /\ h.left = 0) = o
      OBVIOUS
    <2>4. h.state = "extended" \/ (h.state = "active" /\ ~o)
      BY <1>2, <2>1, <2>3
    <2>5. Seen(h) = Meeting!Of(h.parties, h.state, o, h.extend, h.connect, FALSE)
      BY <2>2, <2>3, SeenFields
    <2>6. Seen(g) = Meeting!Of(h.parties, h.state, o, h.extend, h.connect \cup {u}, FALSE)
      BY <2>1, <2>2, <2>3, SeenFields
    <2>7. QED
      BY <2>4, <2>5, <2>6, WantContactFields DEF Meeting!EncounterStep
  <1>10. CASE Announced(h, g)
    <2>1. h.state # "missing"
      BY <1>10 DEF NamedInv, LiveIsNamed, Live, Announced
    <2>2. g.created = TRUE
      BY <1>2, <1>10 DEF Announced
    <2>3. PICK o \in BOOLEAN : (h.state = "active" /\ h.left = 0) = o
      OBVIOUS
    <2>4. Seen(h) = Meeting!Of(h.parties, h.state, o, h.extend, h.connect, h.created)
      BY <2>3, SeenFields
    <2>5. Seen(g) = Meeting!Of(h.parties, h.state, o, h.extend, h.connect, TRUE)
      BY <1>10, <2>2, <2>3, SeenFields DEF Announced
    <2>6. h.parties \subseteq h.connect
      BY <1>10 DEF Announced
    <2>7. QED
      BY <2>1, <2>4, <2>5, <2>6, LinkFields DEF Meeting!EncounterStep
  <1>11. QED
    BY <1>1, <1>3, <1>4, <1>5, <1>6, <1>7, <1>8, <1>9, <1>10 DEF HashStep

\* Every behaviour of the store is one of the abstract encounter: nobody is kept
\* past the minute, linked or made to vote but by steps Encounter has.
THEOREM StoreImplements == Spec => StoreImplementsEncounter
  <1> DEFINE encounter == [m \in Matches |-> Seen(match[m])]
  <1>1. Init => NamedInv /\ Meeting!EncounterInit
    <2> SUFFICES ASSUME Init PROVE NamedInv /\ Meeting!EncounterInit
      OBVIOUS
    <2>1. \A m \in Matches : match[m] = Missing
      BY DEF Init
    <2>2. Missing.ttl = 0
      BY DEF Missing
    <2>3. TypeOK
      BY MissingIsHash, StoreAssumption DEF Init, TypeOK, NoPresence, NoUserMatch, Never
    <2>4. encounter = [m \in Matches |-> Meeting!NoEncounter]
      BY <2>1, SeenOfMissing
    <2>5. GoneIsMissing /\ LiveIsNamed
      BY <2>1, <2>2 DEF GoneIsMissing, LiveIsNamed, Live
    <2>6. QED
      BY <2>3, <2>4, <2>5 DEF NamedInv, Meeting!EncounterInit
  <1>2. NamedInv /\ TypeOK' /\ GoneIsMissing' /\ [Next]_vars => NamedInv'
    BY NamedStep
  <1>3. NamedInv /\ TypeOK' /\ [Next]_vars => [Meeting!EncounterNext]_encounter
    <2> SUFFICES ASSUME NamedInv, TypeOK', [Next]_vars PROVE Meeting!EncounterNext
      OBVIOUS
    <2>1. \A m \in Matches : \/ Seen(match'[m]) = Seen(match[m])
                             \/ Meeting!EncounterStep(Seen(match[m]), Seen(match'[m]))
      BY SeenStep
    <2>2. QED
      BY <2>1 DEF Meeting!EncounterNext
  <1>4. ConsentInv => TypeOK /\ GoneIsMissing
    BY DEF ConsentInv, OnlyPartiesAct, GoneIsMissing
  <1>5. QED
    BY <1>1, <1>2, <1>3, <1>4, ConsentAlways, PTL
    DEF Spec, StoreImplementsEncounter, Meeting!EncounterSpec
=============================================================================
