--------------------------- MODULE MatchmakerProofs ---------------------------
(***************************************************************************)
(* Theorems about searches: that they keep to the store, that none leaves  *)
(* two users waiting whom it could have paired, and that one that is left   *)
(* alone claims a best candidate.                                          *)
(***************************************************************************)
EXTENDS Matchmaker, EncounterStoreProofs, FiniteSetTheorems

Candidates == [id : Users, conn : Conns, prefs : Preferences]

Phases == {"none", "joined", "listing", "looking", "cleaning", "checking", "judging", "claiming"}

SearchStates ==
    [phase : Phases, prefs : Preferences \cup {NoPrefs}, order : SUBSET (Users \X Users),
     ids : SUBSET Users, at : Candidates \cup {NoCandidate}, list : SUBSET Candidates,
     left : SUBSET Candidates, pass : {0, 1}]

\* The entry that a search is at is one that it has still to read, or to try.
AtOK(s) ==
    /\ s.phase \in {"looking", "cleaning"} => s.at \in Candidates /\ s.at.id \in s.ids
    /\ s.phase \in {"judging", "claiming"} => s.at \in Candidates /\ s.at \in s.left

SearchTypeOK ==
    /\ line \in SUBSET (Users \X Users)
    /\ wants \in [Users -> Preferences]
    /\ search \in [Users -> [Conns -> SearchStates]]
    /\ \A u \in Users, c \in Conns : AtOK(search[u][c])

-----------------------------------------------------------------------------
(* The helpers.                                                             *)

LEMMA NoSearchType == NoSearch \in SearchStates /\ AtOK(NoSearch)
  BY DEF NoSearch, SearchStates, Phases, AtOK

LEMMA PastType ==
  ASSUME NEW s \in SearchStates, NEW v PROVE Past(s, v) \in SearchStates /\ AtOK(Past(s, v))
  BY DEF Past, SearchStates, Phases, AtOK

LEMMA AdvanceType ==
  ASSUME NEW s \in SearchStates, NEW q PROVE Advance(s, q) \in SearchStates /\ AtOK(Advance(s, q))
  <1>1. CASE s.left # {q}
    BY <1>1 DEF Advance, SearchStates, Phases, AtOK
  <1>2. CASE s.left = {q} /\ s.pass = 0
    BY <1>2 DEF Advance, SearchStates, Phases, AtOK
  <1>3. CASE s.left = {q} /\ s.pass # 0
    BY <1>3, NoSearchType DEF Advance
  <1>4. QED
    BY <1>1, <1>2, <1>3

LEMMA CompatibleSymmetric == ASSUME NEW p, NEW q PROVE Compatible(p, q) <=> Compatible(q, p)
  BY DEF Compatible

\* What a step of the search of c makes of the searches.
Becomes(u, c, t) ==
    /\ t \in SearchStates /\ AtOK(t)
    /\ search' = [search EXCEPT ![u][c] = t]

LEMMA GoesType ==
  ASSUME SearchTypeOK, NEW u \in Users, NEW c \in Conns, NEW t, Becomes(u, c, t)
  PROVE  /\ search' \in [Users -> [Conns -> SearchStates]]
         /\ \A w \in Users, d \in Conns : AtOK(search'[w][d])
         /\ search'[u][c] = t
         /\ \A w \in Users, d \in Conns : w # u \/ d # c => search'[w][d] = search[w][d]
  BY DEF SearchTypeOK, Becomes

-----------------------------------------------------------------------------
(* The types, and what searches do to the store.                            *)

\* Each step of a search makes one of its states of it.
SearchGoes(u, c) ==
    /\ line' \in SUBSET line /\ wants' = wants
    /\ \E t : Becomes(u, c, t)

LEMMA EntryType ==
  ASSUME TypeOK, SearchTypeOK, NEW v \in Waiters PROVE Entry(v) \in Candidates
  BY DEF TypeOK, SearchTypeOK, Waiters, Entry, Candidates

LEMMA SearchesGo ==
  ASSUME TypeOK, SearchTypeOK, NEW u \in Users, NEW c \in Conns, Searches(u, c)
  PROVE  SearchGoes(u, c)
  <1> DEFINE s == search[u][c]
  <1>1. s \in SearchStates /\ AtOK(s)
    BY DEF SearchTypeOK
  <1>2. CASE List(u, c)
    <2>1. PICK ids : /\ search' = [search EXCEPT ![u][c] = [search[u][c] EXCEPT
                            !.phase = "listing", !.order = line, !.ids = ids]]
                     /\ ids \in SUBSET Users
      BY <1>2 DEF List, Goes, Waiters
    <2>2. ASSUME NEW t, t = [s EXCEPT !.phase = "listing", !.order = line, !.ids = ids]
          PROVE  t \in SearchStates /\ AtOK(t)
      BY <1>1, <2>1, <2>2 DEF SearchTypeOK, SearchStates, Phases, AtOK
    <2>3. QED
      BY <1>2, <2>1, <2>2 DEF List, Unchanged, SearchGoes, Becomes
  <1>3. CASE ReadEntry(u, c)
    <2>1. PICK v \in s.ids :
             search' = [search EXCEPT ![u][c] =
                IF queue[v] = NoConn THEN Past(s, v)
                ELSE [s EXCEPT !.phase = "looking", !.at = Entry(v)]]
      BY <1>3 DEF ReadEntry, Goes
    <2>2. CASE queue[v] = NoConn
      BY <1>1, <1>3, <2>1, <2>2, PastType DEF ReadEntry, Unchanged, SearchGoes, Becomes
    <2>3. CASE queue[v] # NoConn
      <3>1. Entry(v) \in Candidates /\ Entry(v).id = v
        BY <1>1, <2>3, EntryType DEF SearchStates, Waiters, Entry
      <3>2. ASSUME NEW t, t = [s EXCEPT !.phase = "looking", !.at = Entry(v)]
            PROVE  t \in SearchStates /\ AtOK(t)
        BY <1>1, <3>1, <3>2, <2>1 DEF SearchStates, Phases, AtOK
      <3>3. QED
        BY <1>3, <2>1, <2>3, <3>2 DEF ReadEntry, Unchanged, SearchGoes, Becomes
    <2>4. QED
      BY <2>2, <2>3
  <1>4. CASE ReadPresence(u, c)
    <2>1. s.phase = "looking" /\ s.at \in Candidates
      BY <1>1, <1>4 DEF ReadPresence, AtOK
    <2>2. ASSUME NEW t, t = [Past(s, s.at.id) EXCEPT !.list = @ \cup {s.at}]
          PROVE  t \in SearchStates /\ AtOK(t)
      BY <1>1, <2>1, <2>2, PastType DEF Past, SearchStates, Phases, AtOK
    <2>3. ASSUME NEW t, t = [s EXCEPT !.phase = "cleaning"]
          PROVE  t \in SearchStates /\ AtOK(t)
      BY <1>1, <2>1, <2>3 DEF SearchStates, Phases, AtOK
    <2>4. QED
      BY <1>4, <2>2, <2>3 DEF ReadPresence, Goes, Unchanged, SearchGoes, Becomes
  <1>5. CASE Clean(u, c)
    BY <1>1, <1>5, PastType DEF Clean, KeepLine, Goes, Unchanged, SearchGoes, Becomes
  <1>6. CASE Rank(u, c)
    <2>1. PICK list : /\ list \in SUBSET s.list
                      /\ search' = [search EXCEPT ![u][c] =
                           IF list = {} THEN NoSearch
                           ELSE [s EXCEPT !.phase = "checking", !.list = list, !.left = list]]
      BY <1>6 DEF Rank, Goes
    <2>2. ASSUME NEW t, t = [s EXCEPT !.phase = "checking", !.list = list, !.left = list]
          PROVE  t \in SearchStates /\ AtOK(t)
      BY <1>1, <2>1, <2>2 DEF SearchStates, Phases, AtOK
    <2>3. QED
      BY <1>6, <2>1, <2>2, NoSearchType DEF Rank, Unchanged, SearchGoes, Becomes
  <1>7. CASE CheckRecent(u, c)
    <2>1. PICK q \in s.left :
             search' = [search EXCEPT ![u][c] =
                IF {u, q.id} \in recent <=> s.pass = 1
                THEN [s EXCEPT !.phase = "judging", !.at = q]
                ELSE Advance(s, q)]
      BY <1>7 DEF CheckRecent, Goes
    <2>2. ASSUME NEW t, t = [s EXCEPT !.phase = "judging", !.at = q]
          PROVE  t \in SearchStates /\ AtOK(t)
      BY <1>1, <2>1, <2>2 DEF SearchStates, Phases, AtOK
    <2>3. QED
      BY <1>1, <1>7, <2>1, <2>2, AdvanceType DEF CheckRecent, Unchanged, SearchGoes, Becomes
  <1>8. CASE Judge(u, c)
    <2>1. ASSUME NEW t, s.phase = "judging", t = [s EXCEPT !.phase = "claiming"]
          PROVE  t \in SearchStates /\ AtOK(t)
      BY <1>1, <2>1 DEF SearchStates, Phases, AtOK
    <2>2. QED
      BY <1>1, <1>8, <2>1, AdvanceType DEF Judge, Goes, Unchanged, SearchGoes, Becomes
  <1>9. CASE TryClaim(u, c)
    BY <1>1, <1>9, AdvanceType, NoSearchType
    DEF TryClaim, KeepLine, Goes, Unchanged, SearchGoes, Becomes
  <1>10. QED
    BY <1>2, <1>3, <1>4, <1>5, <1>6, <1>7, <1>8, <1>9 DEF Searches

LEMMA JoinGoes ==
  ASSUME TypeOK, SearchTypeOK, NEW u \in Users, NEW c \in Conns, NEW p \in Preferences,
         Join(u, c, p)
  PROVE  Becomes(u, c, [NoSearch EXCEPT !.phase = "joined", !.prefs = p])
  BY NoSearchType DEF Join, Goes, Becomes, NoSearch, SearchStates, Phases, AtOK

LEMMA SearchTypeStep ==
  ASSUME TypeOK, SearchTypeOK, [BusyNext]_mvars PROVE SearchTypeOK'
  <1>1. ASSUME NEW u \in Users, NEW c \in Conns, Searches(u, c) PROVE SearchTypeOK'
    BY <1>1, SearchesGo, GoesType DEF SearchGoes, SearchTypeOK
  <1>2. ASSUME NEW u \in Users, NEW c \in Conns, NEW p \in Preferences, Join(u, c, p)
        PROVE  SearchTypeOK'
    <2>1. /\ search' \in [Users -> [Conns -> SearchStates]]
          /\ \A w \in Users, d \in Conns : AtOK(search'[w][d])
      BY <1>2, JoinGoes, GoesType
    <2>2. line' \in SUBSET (Users \X Users)
      BY <1>2 DEF Join, Waiters, SearchTypeOK
    <2>3. wants' \in [Users -> Preferences]
      BY <1>2 DEF Join, SearchTypeOK
    <2>4. QED
      BY <2>1, <2>2, <2>3 DEF SearchTypeOK
  <1>3. ASSUME NEW u \in Users, NEW c \in Conns, Sockets(u, c) PROVE SearchTypeOK'
    BY <1>3 DEF Sockets, KeepLine, Unchanged, SearchTypeOK
  <1>4. ASSUME NEW pair \in SUBSET Users, Block(pair) \/ Lapse(pair) PROVE SearchTypeOK'
    BY <1>4 DEF Block, Lapse, svars, SearchTypeOK
  <1>5. CASE UNCHANGED mvars
    BY <1>5 DEF mvars, SearchTypeOK
  <1>6. QED
    BY <1>1, <1>2, <1>3, <1>4, <1>5 DEF BusyNext

\* What a search does to the store one of the store's scripts does.
LEMMA SearchStep ==
  ASSUME TypeOK, SearchTypeOK, [BusyNext]_mvars PROVE [Next]_vars
  <1>1. ASSUME NEW u \in Users, NEW c \in Conns,
               \/ List(u, c) \/ ReadEntry(u, c) \/ ReadPresence(u, c)
               \/ Rank(u, c) \/ CheckRecent(u, c) \/ Judge(u, c)
        PROVE  [Next]_vars
    BY <1>1 DEF List, ReadEntry, ReadPresence, Rank, CheckRecent, Judge, storeVars
  <1>2. ASSUME NEW u \in Users, NEW c \in Conns, Clean(u, c) PROVE [Next]_vars
    <2>1. search[u][c].at \in Candidates
      BY <1>2 DEF Clean, SearchTypeOK, AtOK
    <2>2. search[u][c].at.id \in Users /\ search[u][c].at.conn \in Conns
      BY <2>1 DEF Candidates
    <2>3. QED
      BY <1>2, <2>2 DEF Clean, storeVars, Next
  <1>3. ASSUME NEW u \in Users, NEW c \in Conns, TryClaim(u, c) PROVE [Next]_vars
    <2>1. search[u][c].at \in Candidates
      BY <1>3 DEF TryClaim, SearchTypeOK, AtOK
    <2>2. search[u][c].at.id \in Users /\ search[u][c].at.conn \in Conns
      BY <2>1 DEF Candidates
    <2>3. (search[u][c].pass = 1) \in BOOLEAN
      OBVIOUS
    <2>4. CASE UNCHANGED vars
      BY <2>4
    <2>5. CASE \E m \in Matches : Claim(u, search[u][c].at.id, c, search[u][c].at.conn, m,
                                        search[u][c].pass = 1)
      BY <2>2, <2>3, <2>5 DEF Next
    <2>6. QED
      BY <1>3, <2>4, <2>5 DEF TryClaim, storeVars
  <1>4. ASSUME NEW u \in Users, NEW c \in Conns, NEW p \in Preferences, Join(u, c, p)
        PROVE  [Next]_vars
    BY <1>4 DEF Join, Next
  <1>5. ASSUME NEW u \in Users, NEW c \in Conns, Sockets(u, c) PROVE [Next]_vars
    BY <1>5 DEF Sockets, Next
  <1>6. ASSUME NEW pair \in SUBSET Users, Block(pair) \/ Lapse(pair) PROVE [Next]_vars
    BY <1>6 DEF Block, Lapse, storeVars, Next
  <1>7. CASE UNCHANGED mvars
    BY <1>7 DEF mvars, vars
  <1>8. QED
    BY <1>1, <1>2, <1>3, <1>4, <1>5, <1>6, <1>7 DEF BusyNext, Searches

LEMMA SearchTypeAlways == BusySpec => Spec /\ [](TypeOK /\ SearchTypeOK)
  <1>1. MatchmakerInit => Init /\ TypeOK /\ SearchTypeOK
    <2> SUFFICES ASSUME MatchmakerInit PROVE TypeOK /\ SearchTypeOK /\ Init
      OBVIOUS
    <2>1. SearchTypeOK
      BY NoSearchType DEF MatchmakerInit, SearchTypeOK
    <2>2. Init /\ TypeOK
      BY StoreAssumption, MissingIsHash DEF MatchmakerInit, Init, TypeOK, NoPresence, NoUserMatch, Never
    <2>3. QED
      BY <2>1, <2>2
  <1>2. TypeOK /\ SearchTypeOK /\ [BusyNext]_mvars => TypeOK' /\ SearchTypeOK' /\ [Next]_vars
    BY SearchTypeStep, SearchStep, TypeStep
  <1>3. QED
    BY <1>1, <1>2, PTL DEF BusySpec, Spec

-----------------------------------------------------------------------------
(* Who is left to be tried.                                                 *)

\* Of two who wait, one waits longer.
LineOrdersWaiters ==
    /\ \A u \in Users : <<u, u>> \notin line
    /\ \A u, v \in Waiters : u # v => <<u, v>> \in line \/ <<v, u>> \in line

\* A search asks for what its user asked for, unless they joined on another socket.
AsksForUser ==
    \A u \in Users, c \in Conns :
        queue[u] = c /\ ~Free(u, c) => search[u][c].prefs = wants[u]

\* The user waits on the socket that speaks for them.
Standing(u) == queue[u] # NoConn /\ presence[u].conn = queue[u]

\* The search s has the entry e before it, to be read or to be tried in this pass
\* or the next; met says whether the pair has met lately.
StillToTry(s, e, met) ==
    \/ s.phase = "joined" /\ s.pass = 0
    \/ /\ s.phase \in {"listing", "looking", "cleaning"} /\ s.pass = 0
       /\ \/ e \in s.list
          \/ /\ e.id \in s.ids
             /\ s.phase = "looking" /\ s.at.id = e.id => s.at = e
             /\ s.phase = "cleaning" => s.at.id # e.id
    \/ /\ s.phase \in {"checking", "judging", "claiming"}
       /\ IF met THEN e \in (IF s.pass = 0 THEN s.list ELSE s.left)
          ELSE s.pass = 0 /\ e \in s.left

\* The search of u, who joined after v, could still find v.
Owes(u, v) ==
    /\ u # v /\ Standing(u) /\ Standing(v)
    /\ <<v, u>> \in line /\ Matchable(u, v)

LastOneTries ==
    \A u, v \in Users :
        Owes(u, v) => StillToTry(search[u][queue[u]], Entry(v), {u, v} \in recent)

PairsInv == LineOrdersWaiters /\ AsksForUser /\ LastOneTries

LEMMA PastTries ==
  ASSUME NEW s \in SearchStates, NEW v, NEW e, NEW met \in BOOLEAN, e.id # v,
         s.phase \in {"listing", "looking", "cleaning"}, StillToTry(s, e, met)
  PROVE  StillToTry(Past(s, v), e, met)
  BY DEF Past, StillToTry, SearchStates

\* Passing over a candidate passes over no other, nor over one whose turn is in the
\* second pass.
LEMMA AdvanceTries ==
  ASSUME NEW s \in SearchStates, NEW q, NEW e, NEW met \in BOOLEAN,
         s.phase \in {"checking", "judging", "claiming"}, StillToTry(s, e, met),
         e # q \/ (met /\ s.pass = 0)
  PROVE  StillToTry(Advance(s, q), e, met)
  <1>1. CASE s.left # {q}
    BY <1>1 DEF Advance, StillToTry, SearchStates
  <1>2. CASE s.left = {q} /\ s.pass = 0
    BY <1>2 DEF Advance, StillToTry, SearchStates
  <1>3. CASE s.left = {q} /\ s.pass # 0
    BY <1>3 DEF StillToTry, SearchStates
  <1>4. QED
    BY <1>1, <1>2, <1>3

-----------------------------------------------------------------------------
(* Nobody is missed.                                                        *)

\* A step after which nobody stands in the queue who did not, in the same place and
\* wanting the same, and the blocks and meetings of those who do are still so.
NobodyJoins ==
    /\ line' \in {line, line \cap (Waiters' \X Waiters')}
    /\ wants' = wants /\ blocked \subseteq blocked'
    /\ \A u \in Users : queue'[u] # NoConn => queue'[u] = queue[u]
    /\ \A u \in Users : Standing(u)' => Standing(u)
    /\ \A u, v \in Users : u # v /\ Standing(u)' /\ Standing(v)' =>
          ({u, v} \in recent' <=> {u, v} \in recent)

\* Such a step of the search of c owes nobody whom the next state t does not try.
LEMMA SearchTries ==
  ASSUME TypeOK, SearchTypeOK, LastOneTries, NobodyJoins,
         NEW x \in Users, NEW d \in Conns, NEW t, Becomes(x, d, t),
         \A v \in Users :
            /\ Owes(x, v) /\ Standing(x)' /\ Standing(v)' /\ queue[x] = d
            /\ StillToTry(search[x][d], Entry(v), {x, v} \in recent)
            => StillToTry(t, Entry(v), {x, v} \in recent)
  PROVE  LastOneTries'
  <1> SUFFICES ASSUME NEW u \in Users, NEW v \in Users, Owes(u, v)'
               PROVE  StillToTry(search[u][queue[u]], Entry(v), {u, v} \in recent)'
    BY DEF LastOneTries
  <1>1. Owes(u, v) /\ Standing(v)' /\ Standing(u)'
    BY DEF Owes, NobodyJoins, Matchable
  <1>2. /\ queue'[u] = queue[u] /\ queue[u] \in Conns
        /\ Entry(v)' = Entry(v) /\ ({u, v} \in recent' <=> {u, v} \in recent)
    BY <1>1 DEF NobodyJoins, Standing, Entry, Owes, TypeOK
  <1>3. StillToTry(search[u][queue[u]], Entry(v), {u, v} \in recent)
    BY <1>1 DEF LastOneTries
  <1>4. StillToTry(search'[u][queue[u]], Entry(v), {u, v} \in recent)
    BY <1>1, <1>2, <1>3, GoesType
  <1>5. QED
    BY <1>2, <1>4 DEF StillToTry, Entry

\* A step that leaves the searches alone.
LEMMA AloneTries ==
  ASSUME TypeOK, SearchTypeOK, LastOneTries, NobodyJoins, search' = search
  PROVE  LastOneTries'
  <1> SUFFICES ASSUME NEW u \in Users, NEW v \in Users, Owes(u, v)'
               PROVE  StillToTry(search[u][queue[u]], Entry(v), {u, v} \in recent)'
    BY DEF LastOneTries
  <1>1. Owes(u, v) /\ Standing(v)' /\ Standing(u)'
    BY DEF Owes, NobodyJoins, Matchable
  <1>2. /\ queue'[u] = queue[u]
        /\ Entry(v)' = Entry(v) /\ ({u, v} \in recent' <=> {u, v} \in recent)
    BY <1>1 DEF NobodyJoins, Standing, Entry, Owes
  <1>3. StillToTry(search[u][queue[u]], Entry(v), {u, v} \in recent)
    BY <1>1 DEF LastOneTries
  <1>4. QED
    BY <1>2, <1>3 DEF StillToTry, Entry

LEMMA NobodyJoinsOrders ==
  ASSUME SearchTypeOK, LineOrdersWaiters, NobodyJoins PROVE LineOrdersWaiters'
  <1>1. \A u \in Users : u \in Waiters' => u \in Waiters
    BY DEF Waiters, NobodyJoins
  <1>2. QED
    BY <1>1 DEF LineOrdersWaiters, NobodyJoins, Waiters

\* What a search does to others is that they leave.
LEMMA SearchesJoinNobody ==
  ASSUME TypeOK, SearchTypeOK, NEW u \in Users, NEW c \in Conns, Searches(u, c)
  PROVE  NobodyJoins
  <1>1. CASE UNCHANGED <<storeVars, line>> /\ Unchanged
    BY <1>1 DEF storeVars, vars, Unchanged, NobodyJoins, Standing
  <1>2. CASE Clean(u, c)
    <2>1. CASE UNCHANGED storeVars
      BY <1>2, <2>1 DEF Clean, KeepLine, storeVars, vars, Unchanged, NobodyJoins, Standing
    <2>2. ASSUME NEW v, NEW d, CleanupQueued(v, d) PROVE NobodyJoins
      BY <1>2, <2>2 DEF Clean, KeepLine, Unchanged, CleanupQueued, NobodyJoins, Standing, TypeOK
    <2>3. QED
      BY <1>2, <2>1, <2>2 DEF Clean
  <1>3. CASE TryClaim(u, c)
    <2>1. CASE UNCHANGED storeVars
      BY <1>3, <2>1 DEF TryClaim, KeepLine, storeVars, vars, Unchanged, NobodyJoins, Standing
    <2>2. ASSUME NEW v \in Users, NEW d, NEW m, NEW allow, Claim(u, v, c, d, m, allow)
          PROVE NobodyJoins
      <3>1. /\ queue' = [queue EXCEPT ![u] = NoConn, ![v] = NoConn]
            /\ presence' = presence /\ recent' = recent \cup {{u, v}}
        BY <2>2 DEF Claim
      <3>2. \A w \in Users : queue'[w] # NoConn => queue'[w] = queue[w] /\ w # u /\ w # v
        BY <3>1 DEF TypeOK
      <3>3. \A a, b \in Users : a # u /\ a # v => {a, b} # {u, v}
        OBVIOUS
      <3>4. \A a, b \in Users : Standing(a)' => ({a, b} \in recent' <=> {a, b} \in recent)
        BY <3>1, <3>2, <3>3 DEF Standing
      <3>5. QED
        BY <1>3, <3>1, <3>2, <3>4 DEF TryClaim, KeepLine, Unchanged, NobodyJoins, Standing
    <2>3. search[u][c].at.id \in Users
      BY <1>3 DEF TryClaim, SearchTypeOK, AtOK, Candidates
    <2>4. QED
      BY <1>3, <2>1, <2>2, <2>3 DEF TryClaim
  <1>4. QED
    BY <1>1, <1>2, <1>3
    DEF Searches, List, ReadEntry, ReadPresence, Rank, CheckRecent, Judge

LEMMA SocketsJoinNobody ==
  ASSUME TypeOK, SearchTypeOK, NEW u \in Users, NEW c \in Conns, Sockets(u, c)
  PROVE  NobodyJoins
  <1>1. line' \in {line, line \cap (Waiters' \X Waiters')} /\ wants' = wants /\ blocked' = blocked
    BY DEF Sockets, KeepLine, Unchanged
  <1>2. CASE Connect(u, c)
    BY <1>1, <1>2 DEF Connect, FreshConn, NobodyJoins, Standing, TypeOK
  <1>3. CASE Disconnect(u, c)
    BY <1>1, <1>3 DEF Disconnect, NobodyJoins, Standing, TypeOK
  <1>4. CASE LeaveQueue(u, c)
    BY <1>1, <1>4 DEF LeaveQueue, NobodyJoins, Standing, TypeOK
  <1>5. ASSUME NEW m \in Matches, EndMatch(u, c, m) PROVE NobodyJoins
    BY <1>1, <1>5 DEF EndMatch, Drop, NobodyJoins, Standing
  <1>6. QED
    BY <1>2, <1>3, <1>4, <1>5 DEF Sockets

-----------------------------------------------------------------------------
(* A search passes over nobody who could be matched.                        *)

\* A search reads the whole queue.
AllAreRead == IsFiniteSet(Users) /\ Cardinality(Users) <= listLimit

LEMMA ReadsAll ==
  ASSUME AllAreRead, SearchTypeOK, LineOrdersWaiters, NEW v \in Users
  PROVE  Cardinality({w \in Users : <<w, v>> \in line}) < listLimit
  <1> DEFINE before == {w \in Users : <<w, v>> \in line}
             rest == Users \ {v}
  <1>1. before \in SUBSET rest
    BY DEF LineOrdersWaiters
  <1>2. IsFiniteSet(rest) /\ Cardinality(rest) = Cardinality(Users) - 1
    BY FS_RemoveElement DEF AllAreRead
  <1>3. Cardinality(before) <= Cardinality(rest) /\ IsFiniteSet(before)
    BY <1>1, <1>2, FS_Subset
  <1>4. Cardinality(before) \in Nat /\ Cardinality(rest) \in Nat /\ Cardinality(Users) \in Nat
    BY <1>2, <1>3, FS_CardinalityType DEF AllAreRead
  <1>5. QED
    BY <1>2, <1>3, <1>4, MatchmakerAssumption DEF AllAreRead

LEMMA SearchesTry ==
  ASSUME AllAreRead, TypeOK, SearchTypeOK, QueuedIsUnmatched, LineOrdersWaiters, AsksForUser,
         NEW u \in Users, NEW c \in Conns, Searches(u, c), queue[u] = c,
         NEW v \in Users, Owes(u, v), Standing(u)', Standing(v)',
         StillToTry(search[u][c], Entry(v), {u, v} \in recent)
  PROVE  StillToTry(search'[u][c], Entry(v), {u, v} \in recent)
  <1> DEFINE s == search[u][c]
             e == Entry(v)
             met == {u, v} \in recent
  <1>1. /\ s \in SearchStates /\ AtOK(s) /\ met \in BOOLEAN
        /\ v \in Waiters /\ e.id = v /\ e.conn = queue[v] /\ e.prefs = wants[v]
        /\ presence[v].conn = queue[v] /\ presence[u].conn = c
        /\ ~Free(u, c) => s.prefs = wants[u]
    BY DEF SearchTypeOK, Owes, Standing, Waiters, Entry, AsksForUser
  <1>2. \A t : search' = [search EXCEPT ![u][c] = t] => search'[u][c] = t
    BY DEF SearchTypeOK
  <1>3. CASE List(u, c)
    <2>1. v \in {w \in Waiters : Cardinality({x \in Users : <<x, w>> \in line}) < listLimit} \ {u}
      BY <1>1, ReadsAll DEF Owes
    <2>2. PICK ids : /\ search'[u][c] = [s EXCEPT !.phase = "listing", !.order = line, !.ids = ids]
                     /\ v \in ids
      BY <1>2, <1>3, <2>1 DEF List, Goes
    <2>3. s.pass = 0
      BY <1>3 DEF List, StillToTry
    <2>4. QED
      BY <1>1, <2>2, <2>3 DEF StillToTry, SearchStates
  <1>4. CASE ReadEntry(u, c)
    <2>1. PICK w \in s.ids :
             search'[u][c] = IF queue[w] = NoConn THEN Past(s, w)
                             ELSE [s EXCEPT !.phase = "looking", !.at = Entry(w)]
      BY <1>2, <1>4 DEF ReadEntry, Goes
    <2>2. s.phase = "listing"
      BY <1>4 DEF ReadEntry
    <2>3. CASE queue[w] = NoConn
      <3>1. w # v
        BY <1>1, <2>3 DEF Waiters
      <3>2. QED
        BY <1>1, <2>1, <2>2, <2>3, <3>1, PastTries
    <2>4. CASE queue[w] # NoConn
      <3>1. search'[u][c] = [s EXCEPT !.phase = "looking", !.at = Entry(w)]
        BY <2>1, <2>4
      <3>2. Entry(w).id = w /\ (w = v => Entry(w) = e)
        BY DEF Entry
      <3>3. QED
        BY <1>1, <2>2, <3>1, <3>2 DEF StillToTry, SearchStates
    <2>5. QED
      BY <2>3, <2>4
  <1>5. CASE ReadPresence(u, c)
    <2>1. s.phase = "looking" /\ s.at \in Candidates
      BY <1>1, <1>5 DEF ReadPresence, AtOK
    <2>2. CASE presence[s.at.id].conn = s.at.conn
      <3>1. search'[u][c] = [Past(s, s.at.id) EXCEPT !.list = @ \cup {s.at}]
        BY <1>2, <1>5, <2>2 DEF ReadPresence, Goes
      <3>2. QED
        BY <1>1, <2>1, <3>1 DEF Past, StillToTry, SearchStates
    <2>3. CASE presence[s.at.id].conn # s.at.conn
      <3>1. search'[u][c] = [s EXCEPT !.phase = "cleaning"]
        BY <1>2, <1>5, <2>3 DEF ReadPresence, Goes
      <3>2. s.at # e
        BY <1>1, <2>3
      <3>3. QED
        BY <1>1, <2>1, <3>1, <3>2 DEF StillToTry, SearchStates
    <2>4. QED
      BY <2>2, <2>3
  <1>6. CASE Clean(u, c)
    <2>1. s.phase = "cleaning" /\ search'[u][c] = Past(s, s.at.id)
      BY <1>2, <1>6 DEF Clean, Goes
    <2>2. CASE s.at.id = v
      BY <1>1, <2>1, <2>2 DEF Past, StillToTry, SearchStates
    <2>3. CASE s.at.id # v
      BY <1>1, <2>1, <2>3, PastTries
    <2>4. QED
      BY <2>2, <2>3
  <1>7. CASE Rank(u, c)
    <2>1. s.phase = "listing" /\ s.ids = {}
      BY <1>7 DEF Rank
    <2>2. e \in s.list
      BY <1>1, <2>1 DEF StillToTry
    <2>3. Compatible(s.prefs, e.prefs)
      BY <1>1, <2>1 DEF Free, Owes, Matchable
    <2>4. PICK list : /\ e \in list
                      /\ search'[u][c] = IF list = {} THEN NoSearch
                           ELSE [s EXCEPT !.phase = "checking", !.list = list, !.left = list]
      BY <1>2, <1>7, <2>2, <2>3 DEF Rank, Goes
    <2>5. QED
      BY <1>1, <2>4 DEF StillToTry, SearchStates
  <1>8. CASE CheckRecent(u, c)
    <2>1. PICK q \in s.left :
             search'[u][c] = IF {u, q.id} \in recent <=> s.pass = 1
                             THEN [s EXCEPT !.phase = "judging", !.at = q]
                             ELSE Advance(s, q)
      BY <1>2, <1>8 DEF CheckRecent, Goes
    <2>2. s.phase = "checking" /\ s.pass \in {0, 1}
      BY <1>1, <1>8 DEF CheckRecent, SearchStates
    <2>3. CASE {u, q.id} \in recent <=> s.pass = 1
      BY <1>1, <2>1, <2>2, <2>3 DEF StillToTry, SearchStates
    <2>4. CASE ~({u, q.id} \in recent <=> s.pass = 1)
      <3>1. e # q \/ (met /\ s.pass = 0)
        BY <1>1, <2>2, <2>4 DEF StillToTry
      <3>2. QED
        BY <1>1, <2>1, <2>2, <2>4, <3>1, AdvanceTries
    <2>5. QED
      BY <2>3, <2>4
  <1>9. CASE Judge(u, c)
    <2>1. s.phase = "judging"
      BY <1>9 DEF Judge
    <2>2. CASE {u, s.at.id} \in blocked
      <3>1. e # s.at
        BY <1>1, <2>2 DEF Owes, Matchable
      <3>2. search'[u][c] = Advance(s, s.at)
        BY <1>2, <1>9, <2>2 DEF Judge, Goes
      <3>3. QED
        BY <1>1, <2>1, <3>1, <3>2, AdvanceTries
    <2>3. CASE {u, s.at.id} \notin blocked
      <3>1. search'[u][c] = [s EXCEPT !.phase = "claiming"]
        BY <1>2, <1>9, <2>3 DEF Judge, Goes
      <3>2. QED
        BY <1>1, <2>1, <3>1 DEF StillToTry, SearchStates
    <2>4. QED
      BY <2>2, <2>3
  <1>10. CASE TryClaim(u, c)
    <2>1. s.phase = "claiming" /\ s.pass \in {0, 1}
      BY <1>1, <1>10 DEF TryClaim, SearchStates
    <2>2. ~MayClaim(u, s.at.id, c, s.at.conn, s.pass = 1) /\ search'[u][c] = Advance(s, s.at)
      <3>1. ASSUME NEW m, NEW w, NEW d, NEW allow, Claim(u, w, c, d, m, allow) PROVE FALSE
        BY <3>1 DEF Claim, Standing, TypeOK
      <3>2. QED
        BY <1>2, <1>10, <3>1 DEF TryClaim, Goes
    <2>3. e # s.at \/ (met /\ s.pass = 0)
      <3>1. SUFFICES ASSUME e = s.at, ~(met /\ s.pass = 0) PROVE FALSE
        OBVIOUS
      <3>2. MayClaim(u, v, c, queue[v], s.pass = 1)
        BY <1>1, <2>1, <3>1 DEF MayClaim, Speaks, Owes, Standing, QueuedIsUnmatched
      <3>3. QED
        BY <1>1, <2>2, <3>1, <3>2
    <2>4. QED
      BY <1>1, <2>1, <2>2, <2>3, AdvanceTries
  <1>11. QED
    BY <1>3, <1>4, <1>5, <1>6, <1>7, <1>8, <1>9, <1>10 DEF Searches

LEMMA SearchesAsk ==
  ASSUME TypeOK, SearchTypeOK, AsksForUser, NEW u \in Users, NEW c \in Conns, Searches(u, c)
  PROVE  AsksForUser'
  <1> DEFINE s == search[u][c]
  <1>1. ~Free(u, c) /\ s \in SearchStates /\ AtOK(s)
    BY DEF SearchTypeOK, Searches, List, ReadEntry, ReadPresence, Clean, Rank, CheckRecent,
           Judge, TryClaim, Free
  <1>2. PICK t : Becomes(u, c, t)
    BY SearchesGo DEF SearchGoes
  <1>3. search'[u][c] = t /\ \A w \in Users, d \in Conns :
                                w # u \/ d # c => search'[w][d] = search[w][d]
    BY <1>2, GoesType
  <1>4. \A r : search' = [search EXCEPT ![u][c] = r] => search'[u][c] = r
    BY DEF SearchTypeOK
  <1>5. ASSUME NEW v PROVE Past(s, v).prefs = s.prefs
    BY <1>1 DEF Past, SearchStates
  <1>6. ASSUME NEW q PROVE Advance(s, q).phase = "none" \/ Advance(s, q).prefs = s.prefs
    BY <1>1 DEF Advance, NoSearch, SearchStates
  <1>7. t.phase = "none" \/ t.prefs = s.prefs
    <2>1. CASE List(u, c)
      <3>1. PICK ids : t = [s EXCEPT !.phase = "listing", !.order = line, !.ids = ids]
        BY <1>3, <1>4, <2>1 DEF List, Goes
      <3>2. QED
        BY <1>1, <3>1 DEF SearchStates
    <2>2. CASE ReadEntry(u, c)
      <3>1. PICK v : t = Past(s, v) \/ t = [s EXCEPT !.phase = "looking", !.at = Entry(v)]
        BY <1>3, <1>4, <2>2 DEF ReadEntry, Goes
      <3>2. QED
        BY <1>1, <1>5, <3>1 DEF SearchStates
    <2>3. CASE ReadPresence(u, c)
      <3>1. \/ t = [Past(s, s.at.id) EXCEPT !.list = @ \cup {s.at}]
            \/ t = [s EXCEPT !.phase = "cleaning"]
        BY <1>3, <1>4, <2>3 DEF ReadPresence, Goes
      <3>2. QED
        BY <1>1, <1>5, <3>1 DEF Past, SearchStates
    <2>4. CASE Clean(u, c)
      BY <1>3, <1>4, <1>5, <2>4 DEF Clean, Goes
    <2>5. CASE Rank(u, c)
      <3>1. PICK list : \/ t = NoSearch
                        \/ t = [s EXCEPT !.phase = "checking", !.list = list, !.left = list]
        BY <1>3, <1>4, <2>5 DEF Rank, Goes
      <3>2. CASE t = NoSearch
        BY <3>2 DEF NoSearch
      <3>3. CASE t = [s EXCEPT !.phase = "checking", !.list = list, !.left = list]
        BY <1>1, <3>3 DEF SearchStates
      <3>4. QED
        BY <3>1, <3>2, <3>3
    <2>6. CASE CheckRecent(u, c)
      <3>1. PICK q : t = [s EXCEPT !.phase = "judging", !.at = q] \/ t = Advance(s, q)
        BY <1>3, <1>4, <2>6 DEF CheckRecent, Goes
      <3>2. QED
        BY <1>1, <1>6, <3>1 DEF SearchStates
    <2>7. CASE Judge(u, c)
      <3>1. t = [s EXCEPT !.phase = "claiming"] \/ t = Advance(s, s.at)
        BY <1>3, <1>4, <2>7 DEF Judge, Goes
      <3>2. QED
        BY <1>1, <1>6, <3>1 DEF SearchStates
    <2>8. CASE TryClaim(u, c)
      <3>1. t = NoSearch \/ t = Advance(s, s.at)
        BY <1>3, <1>4, <2>8 DEF TryClaim, Goes
      <3>2. QED
        BY <1>6, <3>1 DEF NoSearch
    <2>9. QED
      BY <2>1, <2>2, <2>3, <2>4, <2>5, <2>6, <2>7, <2>8 DEF Searches
  <1>8. SUFFICES ASSUME NEW w \in Users, NEW d \in Conns, queue'[w] = d, ~Free(w, d)'
                 PROVE  search'[w][d].prefs = wants'[w]
    BY DEF AsksForUser
  <1>9. queue[w] = d /\ wants' = wants
    BY <1>8, SearchesJoinNobody, StoreAssumption DEF NobodyJoins
  <1>10. CASE w = u /\ d = c
    BY <1>1, <1>3, <1>7, <1>8, <1>9, <1>10 DEF AsksForUser, Free
  <1>11. CASE w # u \/ d # c
    BY <1>3, <1>8, <1>9, <1>11 DEF AsksForUser, Free
  <1>12. QED
    BY <1>10, <1>11

\* A join owes everybody, and nobody owes the one who joins.
LEMMA JoinPairs ==
  ASSUME TypeOK, SearchTypeOK, PairsInv, NEW u \in Users, NEW c \in Conns,
         NEW p \in Preferences, Join(u, c, p)
  PROVE  PairsInv'
  <1> DEFINE others == Waiters \ {u}
             t == [NoSearch EXCEPT !.phase = "joined", !.prefs = p]
  <1>1. /\ queue' = [queue EXCEPT ![u] = c] /\ wants' = [wants EXCEPT ![u] = p]
        /\ UNCHANGED <<presence, recent, blocked>>
        /\ line' = (line \cap (others \X others)) \cup (others \X {u})
    BY DEF Join, Enqueue
  <1>2. t.phase = "joined" /\ t.pass = 0 /\ t.prefs = p
    BY DEF NoSearch
  <1>2a. Becomes(u, c, t)
    BY JoinGoes
  <1> HIDE DEF t
  <1>3. search'[u][c] = t /\ \A w \in Users, d \in Conns :
                                w # u \/ d # c => search'[w][d] = search[w][d]
    BY <1>2a, GoesType
  <1>4. \A w \in Users : w # u => queue'[w] = queue[w] /\ wants'[w] = wants[w]
    BY <1>1 DEF TypeOK, SearchTypeOK
  <1>5. queue'[u] = c /\ wants'[u] = p /\ c # NoConn
    BY <1>1, StoreAssumption DEF TypeOK, SearchTypeOK
  <1>6. LineOrdersWaiters'
    <2>1. \A w \in Users : w \in Waiters' => w = u \/ w \in others
      BY <1>4 DEF Waiters
    <2>2. \A w \in others : w \in Users /\ w # u /\ w \in Waiters
      BY DEF Waiters
    <2>3. \A w \in Users : <<w, w>> \notin line'
      BY <1>1, <2>2 DEF PairsInv, LineOrdersWaiters
    <2>4. ASSUME NEW v \in Waiters', NEW w \in Waiters', v # w
          PROVE  <<v, w>> \in line' \/ <<w, v>> \in line'
      <3>1. v \in Users /\ w \in Users
        BY DEF Waiters
      <3>2. QED
        BY <1>1, <2>1, <2>2, <2>4, <3>1 DEF PairsInv, LineOrdersWaiters
    <2>5. QED
      BY <2>3, <2>4 DEF LineOrdersWaiters
  <1>7. AsksForUser'
    <2> SUFFICES ASSUME NEW w \in Users, NEW d \in Conns, queue'[w] = d, ~Free(w, d)'
                 PROVE  search'[w][d].prefs = wants'[w]
      BY DEF AsksForUser
    <2>1. CASE w = u
      BY <1>2, <1>3, <1>5, <2>1
    <2>2. CASE w # u
      BY <1>3, <1>4, <2>2 DEF PairsInv, AsksForUser, Free
    <2>3. QED
      BY <2>1, <2>2
  <1>8. LastOneTries'
    <2> SUFFICES ASSUME NEW a \in Users, NEW b \in Users, Owes(a, b)'
                 PROVE  StillToTry(search[a][queue[a]], Entry(b), {a, b} \in recent)'
      BY DEF LastOneTries
    <2>1. CASE a = u
      BY <1>2, <1>3, <1>5, <2>1 DEF StillToTry
    <2>2. CASE a # u
      <3>1. b # u
        BY <1>1, <2>2 DEF Owes
      <3>2. Owes(a, b)
        BY <1>1, <1>4, <2>2, <3>1 DEF Owes, Standing, Matchable
      <3>3. StillToTry(search[a][queue[a]], Entry(b), {a, b} \in recent)
        BY <3>2 DEF PairsInv, LastOneTries
      <3>4. queue[a] \in Conns
        BY <3>2 DEF Owes, Standing, TypeOK
      <3>5. /\ search'[a][queue'[a]] = search[a][queue[a]] /\ Entry(b)' = Entry(b)
        BY <1>3, <1>4, <2>2, <3>1, <3>4 DEF Entry
      <3>6. QED
        BY <1>1, <3>3, <3>5 DEF StillToTry, Entry
    <2>3. QED
      BY <2>1, <2>2
  <1>9. QED
    BY <1>6, <1>7, <1>8 DEF PairsInv

LEMMA PairsStep ==
  ASSUME AllAreRead, TypeOK, SearchTypeOK, QueuedIsUnmatched, PairsInv, [BusyNext]_mvars
  PROVE  PairsInv'
  <1>1. ASSUME NEW u \in Users, NEW c \in Conns, Searches(u, c) PROVE PairsInv'
    <2>1. NobodyJoins /\ AsksForUser'
      BY <1>1, SearchesJoinNobody, SearchesAsk DEF PairsInv
    <2>2. PICK t : Becomes(u, c, t)
      BY <1>1, SearchesGo DEF SearchGoes
    <2>3. search'[u][c] = t
      BY <2>2, GoesType
    <2>4. LastOneTries'
      BY <1>1, <2>1, <2>2, <2>3, SearchTries, SearchesTry DEF PairsInv
    <2>5. QED
      BY <2>1, <2>4, NobodyJoinsOrders DEF PairsInv
  <1>2. ASSUME NobodyJoins, search' = search PROVE PairsInv'
    <2>1. AsksForUser'
      BY <1>2, StoreAssumption DEF PairsInv, AsksForUser, NobodyJoins, Free
    <2>2. QED
      BY <1>2, <2>1, AloneTries, NobodyJoinsOrders DEF PairsInv
  <1>3. ASSUME NEW u \in Users, NEW c \in Conns, Sockets(u, c) PROVE PairsInv'
    BY <1>2, <1>3, SocketsJoinNobody DEF Sockets
  <1>4. ASSUME NEW pair, Block(pair) PROVE PairsInv'
    BY <1>2, <1>4 DEF Block, storeVars, vars, NobodyJoins, Standing
  <1>5. ASSUME NEW pair, NobodySearches, Lapse(pair) PROVE PairsInv'
    <2>1. UNCHANGED <<line, wants, search, blocked, queue, presence>>
      BY <1>5 DEF Lapse, RecentLapses, svars
    <2>2. ASSUME NEW u \in Users, NEW v \in Users, Owes(u, v)' PROVE FALSE
      <3>1. Owes(u, v)
        BY <2>1, <2>2 DEF Owes, Standing, Matchable
      <3>2. StillToTry(search[u][queue[u]], Entry(v), {u, v} \in recent) /\ queue[u] \in Conns
        BY <3>1 DEF PairsInv, LastOneTries, Owes, Standing, TypeOK
      <3>3. search[u][queue[u]].phase = "none"
        BY <1>5, <3>2 DEF NobodySearches, Free
      <3>4. QED
        BY <3>2, <3>3 DEF StillToTry
    <2>3. QED
      BY <2>1, <2>2 DEF PairsInv, LineOrdersWaiters, Waiters, AsksForUser, Free, LastOneTries
  <1>6. CASE UNCHANGED mvars
    BY <1>2, <1>6 DEF mvars, NobodyJoins, Standing
  <1>7. QED
    BY <1>1, <1>3, <1>4, <1>5, <1>6, JoinPairs DEF BusyNext

LEMMA PairsAlways == ASSUME AllAreRead PROVE BusySpec => []PairsInv
  <1>1. MatchmakerInit => PairsInv
    BY DEF MatchmakerInit, Init, PairsInv, LineOrdersWaiters, Waiters, AsksForUser, Free,
           NoSearch, LastOneTries, Owes, Standing
  <1>2. TypeOK /\ SearchTypeOK /\ MapInv /\ PairsInv /\ [BusyNext]_mvars => PairsInv'
    BY PairsStep DEF MapInv
  <1>3. QED
    BY <1>1, <1>2, SearchTypeAlways, MapAlways, PTL DEF BusySpec

-----------------------------------------------------------------------------
\* What searches read and claim in several steps keeps to the store's scripts: all
\* that is proved of the store holds while people are matched.
THEOREM SearchesImplementStore == BusySpec => Spec
  BY SearchTypeAlways, PTL

\* With no more users than a search reads (Candidates takes the first hundred), of two
\* waiting users whom the matchmaker could pair one still searches, however their joins,
\* searches, sockets and blocks interleave (tryMatch and the scripts that it calls).
THEOREM SearchesMissNobody == ASSUME AllAreRead PROVE BusySpec => []NoMissedPair
  <1>1. TypeOK /\ PairsInv => NoMissedPair
    <2> SUFFICES ASSUME TypeOK, PairsInv, NEW u \in Users, NEW v \in Users, u # v,
                        Waiting(u), Waiting(v), Matchable(u, v)
                 PROVE  FALSE
      BY DEF NoMissedPair
    <2>1. /\ u \in Waiters /\ v \in Waiters /\ Standing(u) /\ Standing(v)
          /\ search[u][queue[u]].phase = "none" /\ search[v][queue[v]].phase = "none"
      BY DEF Waiting, Free, Waiters, Standing
    <2>2. Matchable(v, u)
      <3>1. {v, u} = {u, v}
        OBVIOUS
      <3>2. QED
        BY <3>1, CompatibleSymmetric DEF Matchable
    <2>3. Owes(u, v) \/ Owes(v, u)
      BY <2>1, <2>2 DEF PairsInv, LineOrdersWaiters, Owes
    <2>4. QED
      BY <2>1, <2>3 DEF PairsInv, LastOneTries, StillToTry
  <1>2. QED
    BY <1>1, SearchTypeAlways, PairsAlways, PTL

-----------------------------------------------------------------------------
(* A search that is left alone.                                             *)

\* What such a search s of u has read is still so; the candidate it is at is ahead of
\* all that it has left.
ReadIsSo(u, c, s) ==
    /\ Speaks(u, c) /\ queue[u] = c /\ s.prefs = wants[u]
    /\ \A v \in Waiters \ {u} : <<v, u>> \in line
    /\ u \notin s.ids
    /\ s.phase # "joined" =>
          \A v, w \in Waiters : <<v, w>> \in s.order => <<v, w>> \in line
    /\ s.phase = "looking" => s.at = Entry(s.at.id)
    /\ s.left \subseteq s.list
    /\ \A q \in s.list : q = Entry(q.id) /\ Standing(q.id) /\ q.id # u
    /\ s.phase \in {"judging", "claiming"} =>
          \A o \in s.left \ {s.at} : Ahead(s.at, o, s.prefs, s.order)

OneSearch ==
    \A u, v \in Users, c, d \in Conns : ~Free(u, c) /\ ~Free(v, d) => u = v /\ c = d

QuietInv ==
    /\ OneSearch
    /\ \A u \in Users, c \in Conns : ~Free(u, c) => ReadIsSo(u, c, search[u][c])

LEMMA QuietGoes ==
  ASSUME SearchTypeOK, QuietInv, NEW u \in Users, NEW c \in Conns, ~Free(u, c),
         NEW t, Becomes(u, c, t), t.phase # "none" => ReadIsSo(u, c, t)'
  PROVE  QuietInv'
  <1>1. search'[u][c] = t /\ \A w \in Users, d \in Conns :
                                w # u \/ d # c => search'[w][d] = search[w][d]
    BY GoesType
  <1>2. \A w \in Users, d \in Conns : ~Free(w, d)' => w = u /\ d = c /\ t.phase # "none"
    BY <1>1 DEF QuietInv, OneSearch, Free
  <1>3. \A w \in Users, d \in Conns : ~Free(w, d)' => ReadIsSo(w, d, search[w][d])'
    BY <1>1, <1>2 DEF ReadIsSo, Entry, Standing, Speaks, Waiters
  <1>4. QED
    BY <1>2, <1>3 DEF QuietInv, OneSearch

\* Nothing that ReadIsSo is about changes.
LEMMA ReadIsStillSo ==
  ASSUME NEW u \in Users, NEW c \in Conns, NEW t, ReadIsSo(u, c, t),
         UNCHANGED <<presence, queue, wants>>, line' \in {line, line \cap (Waiters' \X Waiters')},
         c # NoConn
  PROVE  ReadIsSo(u, c, t)'
  <1>1. Waiters' = Waiters
    BY DEF Waiters
  <1>2. u \in Waiters
    BY DEF Waiters, ReadIsSo
  <1>3. \A v \in Waiters \ {u} : <<v, u>> \in line'
    BY <1>1, <1>2 DEF ReadIsSo
  <1>4. t.phase # "joined" =>
          \A v, w \in Waiters : <<v, w>> \in t.order => <<v, w>> \in line'
    BY <1>1 DEF ReadIsSo
  <1>5. QED
    BY <1>1, <1>3, <1>4 DEF ReadIsSo, Entry, Standing, Speaks

\* The states that a search goes through keep what it has read.
LEMMA PastIsSo ==
  ASSUME NEW u \in Users, NEW c \in Conns, NEW s \in SearchStates, NEW v, ReadIsSo(u, c, s),
         s.phase \in {"listing", "looking", "cleaning"}
  PROVE  ReadIsSo(u, c, Past(s, v))
  <1>1. /\ Past(s, v).prefs = s.prefs /\ Past(s, v).order = s.order /\ Past(s, v).list = s.list
        /\ Past(s, v).left = s.left /\ Past(s, v).ids \subseteq s.ids
        /\ Past(s, v).phase = "listing"
    BY DEF Past, SearchStates
  <1>2. QED
    BY <1>1 DEF ReadIsSo

LEMMA AdvanceIsSo ==
  ASSUME NEW u \in Users, NEW c \in Conns, NEW s \in SearchStates, NEW q, ReadIsSo(u, c, s),
         s.phase \in {"checking", "judging", "claiming"}, Advance(s, q).phase # "none"
  PROVE  ReadIsSo(u, c, Advance(s, q))
  <1>1. Advance(s, q) # NoSearch
    BY DEF NoSearch
  <1>2. /\ Advance(s, q).prefs = s.prefs /\ Advance(s, q).order = s.order
        /\ Advance(s, q).list = s.list /\ Advance(s, q).ids = s.ids
        /\ Advance(s, q).left \subseteq s.left \/ Advance(s, q).left = s.list
        /\ Advance(s, q).phase = "checking"
    BY <1>1 DEF Advance, SearchStates
  <1>3. QED
    BY <1>2 DEF ReadIsSo

LEMMA SearchesQuiet ==
  ASSUME TypeOK, SearchTypeOK, QuietInv, NEW u \in Users, NEW c \in Conns, Searches(u, c)
  PROVE  QuietInv'
  <1> DEFINE s == search[u][c]
  <1>1. /\ ~Free(u, c) /\ s \in SearchStates /\ AtOK(s) /\ c # NoConn
        /\ ReadIsSo(u, c, s)
    BY StoreAssumption DEF SearchTypeOK, Searches, List, ReadEntry, ReadPresence, Clean, Rank,
           CheckRecent, Judge, TryClaim, Free, QuietInv
  <1>2. PICK t : Becomes(u, c, t)
    BY SearchesGo DEF SearchGoes
  <1>3. search'[u][c] = t
    BY <1>2, GoesType
  <1>4. \A r : search' = [search EXCEPT ![u][c] = r] => r = t
    BY <1>3 DEF SearchTypeOK
  <1>5. SUFFICES ASSUME t.phase # "none" PROVE ReadIsSo(u, c, t)'
    BY <1>1, <1>2, QuietGoes
  <1>6. ASSUME UNCHANGED <<storeVars, line>>, Unchanged, ReadIsSo(u, c, t)
        PROVE  ReadIsSo(u, c, t)'
    BY <1>1, <1>6, ReadIsStillSo DEF storeVars, vars, Unchanged
  <1>7. CASE List(u, c)
    <2> DEFINE before(v) == {w \in Users : <<w, v>> \in line}
               ids == {v \in Waiters : Cardinality(before(v)) < listLimit} \ {u}
    <2>0. t = [s EXCEPT !.phase = "listing", !.order = line, !.ids = ids]
      BY <1>4, <1>7 DEF List, Goes
    <2>a. u \notin ids
      OBVIOUS
    <2> HIDE DEF ids
    <2>1. t = [s EXCEPT !.phase = "listing", !.order = line, !.ids = ids] /\ u \notin ids
      BY <2>0, <2>a
    <2>2. /\ t.prefs = s.prefs /\ t.order = line /\ t.ids = ids /\ t.list = s.list
          /\ t.left = s.left /\ t.phase = "listing"
      BY <1>1, <2>1 DEF SearchStates
    <2>3. ReadIsSo(u, c, t)
      BY <1>1, <2>1, <2>2 DEF ReadIsSo
    <2>4. QED
      BY <1>6, <1>7, <2>3 DEF List
  <1>8. CASE ReadEntry(u, c)
    <2>1. PICK v \in s.ids : t = IF queue[v] = NoConn THEN Past(s, v)
                                 ELSE [s EXCEPT !.phase = "looking", !.at = Entry(v)]
      BY <1>4, <1>8 DEF ReadEntry, Goes
    <2>2. s.phase = "listing"
      BY <1>8 DEF ReadEntry
    <2>3. ASSUME t = [s EXCEPT !.phase = "looking", !.at = Entry(v)]
          PROVE  ReadIsSo(u, c, t)
      <3>1. /\ t.prefs = s.prefs /\ t.order = s.order /\ t.ids = s.ids /\ t.list = s.list
            /\ t.left = s.left /\ t.phase = "looking" /\ t.at = Entry(v)
        BY <1>1, <2>3 DEF SearchStates
      <3>2. Entry(v).id = v
        BY DEF Entry
      <3>3. QED
        BY <1>1, <2>2, <3>1, <3>2 DEF ReadIsSo
    <2>4. ReadIsSo(u, c, t)
      BY <1>1, <2>1, <2>2, <2>3, PastIsSo
    <2>5. QED
      BY <1>6, <1>8, <2>4 DEF ReadEntry
  <1>9. CASE ReadPresence(u, c)
    <2>1. s.phase = "looking" /\ s.at \in Candidates /\ s.at.id \in s.ids /\ s.at = Entry(s.at.id)
      BY <1>1, <1>9 DEF ReadPresence, AtOK, ReadIsSo
    <2>2. CASE presence[s.at.id].conn = s.at.conn
      <3>1. t = [Past(s, s.at.id) EXCEPT !.list = @ \cup {s.at}]
        BY <1>4, <1>9, <2>2 DEF ReadPresence, Goes
      <3>2. /\ t.prefs = s.prefs /\ t.order = s.order /\ t.list = s.list \cup {s.at}
            /\ t.left = s.left /\ t.ids \subseteq s.ids /\ t.phase = "listing"
        BY <1>1, <3>1 DEF Past, SearchStates
      <3>3. Standing(s.at.id) /\ s.at.id # u
        BY <1>1, <2>1, <2>2, StoreAssumption DEF Standing, Entry, Candidates, ReadIsSo
      <3>4. ReadIsSo(u, c, t)
        BY <1>1, <2>1, <3>2, <3>3 DEF ReadIsSo
      <3>5. QED
        BY <1>6, <1>9, <3>4 DEF ReadPresence
    <2>3. CASE presence[s.at.id].conn # s.at.conn
      <3>1. t = [s EXCEPT !.phase = "cleaning"]
        BY <1>4, <1>9, <2>3 DEF ReadPresence, Goes
      <3>2. /\ t.prefs = s.prefs /\ t.order = s.order /\ t.ids = s.ids /\ t.list = s.list
            /\ t.left = s.left /\ t.phase = "cleaning"
        BY <1>1, <3>1 DEF SearchStates
      <3>3. ReadIsSo(u, c, t)
        BY <1>1, <2>1, <3>2 DEF ReadIsSo
      <3>4. QED
        BY <1>6, <1>9, <3>3 DEF ReadPresence
    <2>4. QED
      BY <2>2, <2>3
  <1>10. CASE Clean(u, c)
    <2>1. t = Past(s, s.at.id) /\ s.phase = "cleaning" /\ wants' = wants
      BY <1>4, <1>10 DEF Clean, Goes, Unchanged
    <2>2. ReadIsSo(u, c, t)
      BY <1>1, <2>1, PastIsSo
    <2>3. CASE UNCHANGED storeVars
      BY <1>1, <1>10, <2>2, <2>3, ReadIsStillSo
      DEF Clean, KeepLine, Unchanged, storeVars, vars
    <2>4. ASSUME NEW v, NEW d, v = s.at.id, CleanupQueued(v, d) PROVE ReadIsSo(u, c, t)'
      <3>1. v \in Users /\ v # u /\ ~Standing(v)
        BY <1>1, <2>1, <2>4 DEF AtOK, Candidates, ReadIsSo, CleanupQueued, Standing
      <3>2. /\ presence' = presence /\ queue'[v] = NoConn
            /\ \A w \in Users : w # v => queue'[w] = queue[w]
        BY <2>4, <3>1 DEF CleanupQueued, TypeOK
      <3>3. line' = line \cap (Waiters' \X Waiters') /\ Waiters' = Waiters \ {v}
        BY <1>10, <3>1, <3>2 DEF Clean, KeepLine, Waiters
      <3>4. u \in Waiters'
        BY <1>1, <2>2, <3>1, <3>2 DEF Waiters, ReadIsSo
      <3>5. \A w \in Waiters' \ {u} : <<w, u>> \in line'
        BY <2>2, <3>3, <3>4 DEF ReadIsSo
      <3>6. t.phase # "joined" =>
               \A x, w \in Waiters' : <<x, w>> \in t.order => <<x, w>> \in line'
        BY <2>2, <3>3 DEF ReadIsSo
      <3>7. /\ t.phase = "listing"
            /\ \A q \in t.list : q \in Candidates
        BY <1>1, <2>1 DEF Past, SearchStates
      <3>8. ASSUME NEW q \in t.list
            PROVE  q = Entry(q.id)' /\ Standing(q.id)' /\ q.id # u
        <4>1. q = Entry(q.id) /\ Standing(q.id) /\ q.id # u /\ q.id \in Users
          BY <2>2, <3>7 DEF ReadIsSo, Candidates
        <4>2. q.id # v
          BY <3>1, <4>1
        <4>3. QED
          BY <2>1, <3>2, <4>1, <4>2 DEF Entry, Standing
      <3>9. Speaks(u, c)' /\ queue'[u] = c /\ t.prefs = wants'[u]
            /\ u \notin t.ids /\ t.left \subseteq t.list
        BY <2>1, <2>2, <3>1, <3>2 DEF ReadIsSo, Speaks
      <3>10. QED
        BY <3>5, <3>6, <3>7, <3>8, <3>9 DEF ReadIsSo
    <2>5. QED
      BY <1>10, <2>3, <2>4 DEF Clean
  <1>11. CASE Rank(u, c)
    <2>a. PICK list \in SUBSET s.list :
             search' = [search EXCEPT ![u][c] =
                IF list = {} THEN NoSearch
                ELSE [s EXCEPT !.phase = "checking", !.list = list, !.left = list]]
      BY <1>11 DEF Rank, Goes
    <2>b. t # NoSearch
      BY <1>5 DEF NoSearch
    <2>1. t = [s EXCEPT !.phase = "checking", !.list = list, !.left = list]
      BY <1>4, <2>a, <2>b
    <2>2. /\ t.prefs = s.prefs /\ t.order = s.order /\ t.ids = s.ids /\ t.list = list
          /\ t.left = list /\ t.phase = "checking" /\ s.phase = "listing"
      BY <1>1, <1>11, <2>1 DEF SearchStates, Rank
    <2>3. ReadIsSo(u, c, t)
      BY <1>1, <2>1, <2>2 DEF ReadIsSo
    <2>4. QED
      BY <1>6, <1>11, <2>3 DEF Rank
  <1>12. CASE CheckRecent(u, c)
    <2>1. PICK q \in s.left :
             /\ \A o \in s.left \ {q} : Ahead(q, o, s.prefs, s.order)
             /\ t = IF {u, q.id} \in recent <=> s.pass = 1
                    THEN [s EXCEPT !.phase = "judging", !.at = q]
                    ELSE Advance(s, q)
      BY <1>4, <1>12 DEF CheckRecent, Goes
    <2>2. s.phase = "checking"
      BY <1>12 DEF CheckRecent
    <2>3. ASSUME t = [s EXCEPT !.phase = "judging", !.at = q] PROVE ReadIsSo(u, c, t)
      <3>1. /\ t.prefs = s.prefs /\ t.order = s.order /\ t.ids = s.ids /\ t.list = s.list
            /\ t.left = s.left /\ t.phase = "judging" /\ t.at = q
        BY <1>1, <2>3 DEF SearchStates
      <3>2. QED
        BY <1>1, <2>1, <2>2, <3>1 DEF ReadIsSo
    <2>4. ReadIsSo(u, c, t)
      BY <1>1, <1>5, <2>1, <2>2, <2>3, AdvanceIsSo
    <2>5. QED
      BY <1>6, <1>12, <2>4 DEF CheckRecent
  <1>13. CASE Judge(u, c)
    <2>1. s.phase = "judging" /\ (t = Advance(s, s.at) \/ t = [s EXCEPT !.phase = "claiming"])
      BY <1>4, <1>13 DEF Judge, Goes
    <2>2. ASSUME t = [s EXCEPT !.phase = "claiming"] PROVE ReadIsSo(u, c, t)
      <3>1. /\ t.prefs = s.prefs /\ t.order = s.order /\ t.ids = s.ids /\ t.list = s.list
            /\ t.left = s.left /\ t.phase = "claiming" /\ t.at = s.at
        BY <1>1, <2>2 DEF SearchStates
      <3>2. QED
        BY <1>1, <2>1, <3>1 DEF ReadIsSo
    <2>3. ReadIsSo(u, c, t)
      BY <1>1, <1>5, <2>1, <2>2, AdvanceIsSo
    <2>4. QED
      BY <1>6, <1>13, <2>3 DEF Judge
  <1>14. CASE TryClaim(u, c)
    <2>1. s.phase = "claiming" /\ t = Advance(s, s.at) /\ UNCHANGED storeVars
      BY <1>4, <1>5, <1>14 DEF TryClaim, Goes, NoSearch
    <2>2. ReadIsSo(u, c, t)
      BY <1>1, <1>5, <2>1, AdvanceIsSo
    <2>3. QED
      BY <1>1, <1>14, <2>1, <2>2, ReadIsStillSo DEF TryClaim, KeepLine, Unchanged, storeVars, vars
  <1>15. QED
    BY <1>7, <1>8, <1>9, <1>10, <1>11, <1>12, <1>13, <1>14 DEF Searches

\* A search that starts has read nothing yet, and all who wait joined before.
LEMMA JoinQuiet ==
  ASSUME TypeOK, SearchTypeOK, NobodySearches,
         NEW u \in Users, NEW c \in Conns, NEW p \in Preferences, Join(u, c, p)
  PROVE  QuietInv'
  <1> DEFINE t == [NoSearch EXCEPT !.phase = "joined", !.prefs = p]
  <1>1. /\ t.phase = "joined" /\ t.prefs = p /\ t.ids = {} /\ t.list = {} /\ t.left = {}
    BY DEF NoSearch
  <1>2. Becomes(u, c, t)
    BY JoinGoes
  <1> HIDE DEF t
  <1>3. search'[u][c] = t /\ \A w \in Users, d \in Conns :
                                w # u \/ d # c => search'[w][d] = search[w][d]
    BY <1>2, GoesType
  <1>4. \A w \in Users, d \in Conns : ~Free(w, d)' => w = u /\ d = c
    BY <1>3 DEF NobodySearches, Free
  <1>5. ReadIsSo(u, c, t)'
    <2>1. /\ queue' = [queue EXCEPT ![u] = c] /\ wants' = [wants EXCEPT ![u] = p]
          /\ presence' = presence /\ Speaks(u, c)
          /\ line' = (line \cap ((Waiters \ {u}) \X (Waiters \ {u}))) \cup ((Waiters \ {u}) \X {u})
      BY DEF Join, Enqueue
    <2>2. Speaks(u, c)' /\ queue'[u] = c /\ wants'[u] = p
      BY <2>1 DEF Speaks, TypeOK, SearchTypeOK
    <2>3. \A v \in Waiters' \ {u} : <<v, u>> \in line'
      BY <2>1 DEF Waiters, TypeOK
    <2>4. QED
      BY <1>1, <2>2, <2>3 DEF ReadIsSo
  <1>6. QED
    BY <1>3, <1>4, <1>5 DEF QuietInv, OneSearch, ReadIsSo, Entry, Standing, Speaks, Waiters

LEMMA QuietStep ==
  ASSUME TypeOK, SearchTypeOK, QuietInv, [QuietNext]_mvars PROVE QuietInv'
  <1>1. ASSUME NEW u \in Users, NEW c \in Conns, Searches(u, c) PROVE QuietInv'
    BY <1>1, SearchesQuiet
  <1>2. ASSUME NobodySearches, search' = search PROVE QuietInv'
    BY <1>2 DEF QuietInv, OneSearch, NobodySearches, Free
  <1>3. CASE NobodySearches /\ BusyNext
    <2>1. ASSUME NEW u \in Users, NEW c \in Conns, Sockets(u, c) PROVE QuietInv'
      BY <1>2, <1>3, <2>1 DEF Sockets
    <2>2. ASSUME NEW pair, Block(pair) \/ Lapse(pair) PROVE QuietInv'
      BY <1>2, <1>3, <2>2 DEF Block, Lapse, svars
    <2>3. QED
      BY <1>1, <1>3, <2>1, <2>2, JoinQuiet DEF BusyNext
  <1>4. CASE UNCHANGED mvars
    BY <1>4 DEF mvars, QuietInv, OneSearch, Free, ReadIsSo, Entry, Standing, Speaks, Waiters
  <1>5. QED
    BY <1>1, <1>3, <1>4 DEF QuietNext

LEMMA QuietAlways ==
  ASSUME AllAreRead PROVE QuietSpec => [](TypeOK /\ SearchTypeOK /\ PairsInv /\ QuietInv)
  <1>1. MatchmakerInit => QuietInv
    BY DEF MatchmakerInit, NoSearch, QuietInv, OneSearch, Free
  <1>2. TypeOK /\ SearchTypeOK /\ QuietInv /\ [QuietNext]_mvars => QuietInv'
    BY QuietStep
  <1>3. [QuietNext]_mvars => [BusyNext]_mvars
    BY DEF QuietNext, BusyNext
  <1>4. QuietSpec => BusySpec
    BY <1>3, PTL DEF QuietSpec, BusySpec
  <1>5. QED
    BY <1>1, <1>2, <1>4, SearchTypeAlways, PairsAlways, PTL DEF QuietSpec

\* Only the search of one of two users pairs them.
LEMMA SearchesClaim ==
  ASSUME TypeOK, SearchTypeOK, [QuietNext]_mvars, NEW u \in Users, NEW v \in Users, Claimed(u, v)
  PROVE  \E x \in Users, d \in Conns :
            LET s == search[x][d] IN
            /\ s.phase = "claiming" /\ {x, s.at.id} = {u, v}
            /\ MayClaim(x, s.at.id, d, s.at.conn, s.pass = 1)
  <1>1. PICK m \in Matches : match[m].parties = {} /\ match'[m].parties = {u, v}
    BY DEF Claimed, Missing
  <1>2. match'[m].parties # {} /\ match' # match
    BY <1>1
  <1>3. ASSUME NEW x \in Users, NEW d \in Conns, Searches(x, d)
        PROVE  LET s == search[x][d] IN
               /\ s.phase = "claiming" /\ {x, s.at.id} = {u, v}
               /\ MayClaim(x, s.at.id, d, s.at.conn, s.pass = 1)
    <2>1. TryClaim(x, d)
      BY <1>2, <1>3 DEF Searches, List, ReadEntry, ReadPresence, Clean, Rank, CheckRecent, Judge,
                        storeVars, vars, CleanupQueued
    <2> DEFINE s == search[x][d]
    <2>2. PICK n \in Matches : Claim(x, s.at.id, d, s.at.conn, n, s.pass = 1)
      BY <1>2, <2>1 DEF TryClaim, storeVars, vars
    <2>3. ASSUME NEW hash, hash.parties = {x, s.at.id}, match' = [match EXCEPT ![n] = hash]
          PROVE  {x, s.at.id} = {u, v}
      BY <1>1, <2>3 DEF TypeOK
    <2>4. {x, s.at.id} = {u, v}
      BY <2>2, <2>3 DEF Claim, Missing
    <2>5. QED
      BY <2>1, <2>2, <2>4 DEF TryClaim, Claim
  <1>4. ASSUME NEW x \in Users, NEW d \in Conns, Sockets(x, d) PROVE FALSE
    <2>1. CASE Disconnect(x, d)
      <3>1. PICK n \in Matches : match' = [match EXCEPT ![n].gone[x] = reconnectGrace]
        BY <1>2, <2>1 DEF Disconnect
      <3>2. match'[m].parties = match[m].parties
        BY <3>1 DEF TypeOK, Hash
      <3>3. QED
        BY <1>1, <3>2
    <2>2. ASSUME NEW n \in Matches, EndMatch(x, d, n) PROVE FALSE
      <3>1. match' = [match EXCEPT ![n] = Missing] /\ Missing.parties = {}
        BY <2>2 DEF EndMatch, Drop, Missing
      <3>2. QED
        BY <1>1, <3>1 DEF TypeOK
    <2>3. QED
      BY <1>2, <1>4, <2>1, <2>2 DEF Sockets, Connect, LeaveQueue
  <1>5. QED
    BY <1>2, <1>3, <1>4
    DEF QuietNext, BusyNext, Join, Enqueue, Block, Lapse, RecentLapses, storeVars, vars, mvars

LEMMA BestStep ==
  ASSUME TypeOK, SearchTypeOK, PairsInv, QuietInv, [QuietNext]_mvars,
         NEW u \in Users, NEW v \in Users, Claimed(u, v),
         search[u][presence[u].conn].phase = "claiming",
         NEW w \in Users \ {u, v}, Standing(w), Matchable(u, w)
  PROVE  Better(u, v, w)
  <1>1. PICK x \in Users, d \in Conns :
           /\ search[x][d].phase = "claiming" /\ {x, search[x][d].at.id} = {u, v}
           /\ MayClaim(x, search[x][d].at.id, d, search[x][d].at.conn, search[x][d].pass = 1)
    BY SearchesClaim
  <1>2. u = x /\ presence[u].conn = d /\ search[u][d].at.id = v /\ d # NoConn
    <2>a. /\ presence[u].conn # NoConn
          /\ presence[u] \in [conn : Conns \cup {NoConn}, ttl : 0..presenceTTL]
      BY <1>1 DEF MayClaim, Speaks, TypeOK
    <2>1. presence[u].conn \in Conns
      BY <2>a
    <2>2. u = x /\ presence[u].conn = d
      BY <1>1, <2>1 DEF QuietInv, OneSearch, Free
    <2>3. QED
      BY <1>1, <2>2 DEF MayClaim, Speaks
  <1> DEFINE s == search[u][d]
  <1>3. /\ s.phase = "claiming" /\ s.at.id = v /\ s.at \in s.left /\ s.pass \in {0, 1}
        /\ s.pass = 0 => {u, v} \notin recent
    BY <1>1, <1>2 DEF SearchTypeOK, SearchStates, AtOK, MayClaim
  <1>4. ReadIsSo(u, d, s)
    BY <1>3 DEF QuietInv, Free
  <1> HIDE DEF s
  <1>5. s.prefs = wants[u] /\ s.at = Entry(v) /\ Standing(v) /\ queue[u] = d /\ <<w, u>> \in line
    BY <1>3, <1>4 DEF ReadIsSo, Standing, Waiters
  <1>6. Owes(u, w)
    BY <1>2, <1>5 DEF Owes, Standing
  <1>7. StillToTry(s, Entry(w), {u, w} \in recent)
    BY <1>5, <1>6 DEF PairsInv, LastOneTries, s
  <1>8. ASSUME Entry(w) \in s.left
        PROVE  \/ Shared(wants[u], wants[v]) > Shared(wants[u], wants[w])
               \/ /\ Shared(wants[u], wants[v]) = Shared(wants[u], wants[w])
                  /\ <<v, w>> \in line
    <2>1. Entry(w) # s.at
      BY <1>3 DEF Entry
    <2>2. Ahead(s.at, Entry(w), s.prefs, s.order)
      BY <1>3, <1>4, <1>8, <2>1 DEF ReadIsSo
    <2>3. s.at.prefs = wants[v] /\ Entry(w).prefs = wants[w] /\ Entry(w).id = w
      BY <1>5 DEF Entry
    <2>4. <<v, w>> \in s.order => <<v, w>> \in line
      BY <1>3, <1>4, <1>5 DEF ReadIsSo, Standing, Waiters
    <2>5. QED
      BY <1>3, <1>5, <2>2, <2>3, <2>4 DEF Ahead
  <1>9. CASE {u, w} \in recent
    <2>1. CASE {u, v} \in recent
      <3>1. Entry(w) \in s.left
        BY <1>3, <1>7, <1>9, <2>1 DEF StillToTry
      <3>2. QED
        BY <1>8, <1>9, <2>1, <3>1 DEF Better
    <2>2. CASE {u, v} \notin recent
      BY <1>9, <2>2 DEF Better
    <2>3. QED
      BY <2>1, <2>2
  <1>10. CASE {u, w} \notin recent
    <2>1. Entry(w) \in s.left /\ {u, v} \notin recent
      BY <1>3, <1>7, <1>10 DEF StillToTry
    <2>2. QED
      BY <1>8, <1>10, <2>1 DEF Better
  <1>11. QED
    BY <1>9, <1>10

\* With no more users than a search reads, a search that is left alone claims a best
\* candidate: of all whom it could claim, first those it has not met lately, then those
\* who share the most, then who waits longest (Candidates, the sort and the two passes).
THEOREM SearchesClaimBest == ASSUME AllAreRead PROVE QuietSpec => BestIsClaimed
  <1>1. TypeOK /\ SearchTypeOK /\ PairsInv /\ QuietInv /\ [QuietNext]_mvars =>
           [\A u, v \in Users :
              Claimed(u, v) /\ search[u][presence[u].conn].phase = "claiming" =>
                \A w \in Users \ {u, v} :
                  queue[w] # NoConn /\ presence[w].conn = queue[w] /\ Matchable(u, w) =>
                    Better(u, v, w)]_mvars
    BY BestStep DEF Standing
  <1>2. QED
    BY <1>1, QuietAlways, PTL DEF QuietSpec, BestIsClaimed

=============================================================================
