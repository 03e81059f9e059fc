------------------------------ MODULE Matchmaker ------------------------------
(***************************************************************************)
(* Who is paired with whom: Handler.tryMatch and claimCandidate             *)
(* (internal/discovery/handler.go), Store.Candidates (store.go) and         *)
(* EligiblePair (repository.go), run by the socket that has just joined the *)
(* queue.  A search reads the queue, each entry, the recent pairs and the   *)
(* blocks one after the other and claims a candidate on what it read; other *)
(* searches, sockets, blocks and the end of other encounters come between.  *)
(*                                                                         *)
(* A search lasts much less than a tick, so the clock stands still here     *)
(* (EncounterStore and DiscoverySocket are about time) and with it the      *)
(* sweeper.  Left out: a search that an error of Redis or PostgreSQL cuts   *)
(* short, and unblocking, which starts no search.                           *)
(***************************************************************************)
EXTENDS EncounterStore, FiniteSets

CONSTANTS
    Preferences,      \* what queue.join may ask for: [intent, languages, interests]
    listLimit         \* 100: how many entries of the queue a search reads

ASSUME MatchmakerAssumption ==
    /\ listLimit \in Nat \ {0}
    /\ \A p \in Preferences : IsFiniteSet(p.interests)

VARIABLES
    line,        \* queue, by its scores: <<v, u>> when both wait and v joined before u
    wants,       \* preferences: what each waiting user asked for
    search,      \* the search of each socket
    blocked,     \* table blocks: the pairs with a block in either direction
    friends      \* the pairs with an active connection

svars == <<line, wants, search, blocked, friends>>
storeVars == vars
mvars == <<presence, queue, userMatch, match, recent, deadlines, graces,
           line, wants, search, blocked, friends>>

-----------------------------------------------------------------------------
(* The pure part: store.go, compatible and sharedInterests; the order.      *)

Compatible(p, q) ==
    /\ \/ p.intent = q.intent
       \/ p.intent = "surprise_me" /\ q.intent # "dating"
       \/ q.intent = "surprise_me" /\ p.intent # "dating"
    /\ p.languages \cap q.languages # {}

Shared(p, q) == Cardinality(p.interests \cap q.interests)

\* a faulty Ahead: the longest waiting first, whatever they share
AheadByAge(q, o, p, order) == <<q.id, o.id>> \in order

\* sort.SliceStable for one who asked for p: more shared interests first, then
\* the longer wait.
Ahead(q, o, p, order) ==
    \/ Shared(p, q.prefs) > Shared(p, o.prefs)
    \/ Shared(p, q.prefs) = Shared(p, o.prefs) /\ <<q.id, o.id>> \in order

-----------------------------------------------------------------------------
\* phase: where the search is.
\*   "none"       the socket serves its client
\*   "joined"     queued, the queue to be read
\*   "listing"    the entries of ids to be read; list holds those read
\*   "looking"    the entry at was read; its user's presence to be read
\*   "cleaning"   the entry at is stale
\*   "checking"   the candidates of left to be tried in this pass; recent to be read
\*   "judging"    EligiblePair to be asked about the candidate at
\*   "claiming"   Claim to be called for it; allowRecent is what Recent said, which
\*                is so in the second pass
\* A candidate is the user, the socket and the preferences of an entry.
NoPrefs == [intent |-> "none", languages |-> {}, interests |-> {}]
NoCandidate == [id |-> NoConn, conn |-> NoConn, prefs |-> NoPrefs]
NoSearch ==
    [phase |-> "none", prefs |-> NoPrefs, order |-> {}, ids |-> {}, at |-> NoCandidate,
     list |-> {}, left |-> {}, pass |-> 0]

Entry(v) == [id |-> v, conn |-> queue[v], prefs |-> wants[v]]

Goes(u, c, s) == search' = [search EXCEPT ![u][c] = s]
Free(u, c)    == search[u][c].phase = "none"

\* queue and preferences lose the users whose entries the store's step removed.
Waiters   == {u \in Users : queue[u] # NoConn}
KeepLine  == line' = line \cap (Waiters' \X Waiters')
Unchanged == UNCHANGED <<wants, blocked, friends>>

\* The entry of v is read, and the search goes on with the next.
Past(s, v) == [s EXCEPT !.phase = "listing", !.ids = @ \ {v}, !.at = NoCandidate]

\* a faulty Advance: no second pass
AdvanceOnce(s, q) ==
    IF s.left # {q} THEN [s EXCEPT !.phase = "checking", !.left = @ \ {q}, !.at = NoCandidate]
    ELSE NoSearch

\* The search after its candidate q was passed over.
Advance(s, q) ==
    IF s.left # {q} THEN [s EXCEPT !.phase = "checking", !.left = @ \ {q}, !.at = NoCandidate]
    ELSE IF s.pass = 0
         THEN [s EXCEPT !.phase = "checking", !.pass = 1, !.left = s.list, !.at = NoCandidate]
         ELSE NoSearch

-----------------------------------------------------------------------------
MatchmakerInit ==
    /\ Init
    /\ line = {}
    /\ wants \in [Users -> Preferences]
    /\ search = [u \in Users |-> [c \in Conns |-> NoSearch]]
    /\ blocked = {}
    /\ friends \in SUBSET {pair \in SUBSET Users : Cardinality(pair) = 2}

\* queue.join: a user who waits already goes to the end of the line.
Join(u, c, p) ==
    /\ Free(u, c)
    /\ Enqueue(u, c)
    /\ LET others == Waiters \ {u} IN
       line' = (line \cap (others \X others)) \cup (others \X {u})
    /\ wants' = [wants EXCEPT ![u] = p]
    /\ Goes(u, c, [NoSearch EXCEPT !.phase = "joined", !.prefs = p])
    /\ UNCHANGED <<blocked, friends>>

\* The first listLimit of the queue, without the user.
List(u, c) ==
    /\ search[u][c].phase = "joined"
    /\ LET before(v) == {w \in Users : <<w, v>> \in line} IN
       Goes(u, c, [search[u][c] EXCEPT
                     !.phase = "listing", !.order = line,
                     !.ids = {v \in Waiters : Cardinality(before(v)) < listLimit} \ {u}])
    /\ UNCHANGED <<storeVars, line>> /\ Unchanged

\* The entry of the next of ids: gone, or read.
ReadEntry(u, c) ==
    LET s == search[u][c] IN
    /\ s.phase = "listing"
    /\ \E v \in s.ids :
          /\ \A w \in s.ids \ {v} : <<v, w>> \in s.order
          /\ Goes(u, c, IF queue[v] = NoConn THEN Past(s, v)
                        ELSE [s EXCEPT !.phase = "looking", !.at = Entry(v)])
    /\ UNCHANGED <<storeVars, line>> /\ Unchanged

\* The entry is listed if the socket that wrote it still speaks for its user.
ReadPresence(u, c) ==
    LET s == search[u][c] IN
    /\ s.phase = "looking"
    /\ Goes(u, c, IF presence[s.at.id].conn = s.at.conn
                  THEN [Past(s, s.at.id) EXCEPT !.list = @ \cup {s.at}]
                  ELSE [s EXCEPT !.phase = "cleaning"])
    /\ UNCHANGED <<storeVars, line>> /\ Unchanged

\* The stale entry is removed, if it is still the one that was read.
Clean(u, c) ==
    LET s == search[u][c]  v == s.at.id IN
    /\ s.phase = "cleaning"
    /\ \/ Entry(v) = s.at /\ CleanupQueued(v, s.at.conn)
       \/ (Entry(v) # s.at \/ presence[v].conn = s.at.conn) /\ UNCHANGED storeVars
    /\ KeepLine
    /\ Goes(u, c, Past(s, v))
    /\ Unchanged

\* All entries read: the compatible ones are tried, in the order of Ahead.
Rank(u, c) ==
    LET s == search[u][c]
        list == {q \in s.list : Compatible(s.prefs, q.prefs)}
    IN /\ s.phase = "listing" /\ s.ids = {}
       /\ Goes(u, c, IF list = {} THEN NoSearch
                     ELSE [s EXCEPT !.phase = "checking", !.list = list, !.left = list])
       /\ UNCHANGED <<storeVars, line>> /\ Unchanged

\* The first pass is for pairs that have not met lately, the second for the rest.
CheckRecent(u, c) ==
    LET s == search[u][c] IN
    /\ s.phase = "checking"
    /\ \E q \in s.left :
          /\ \A o \in s.left \ {q} : Ahead(q, o, s.prefs, s.order)
          /\ Goes(u, c, IF {u, q.id} \in recent <=> s.pass = 1
                        THEN [s EXCEPT !.phase = "judging", !.at = q]
                        ELSE Advance(s, q))
    /\ UNCHANGED <<storeVars, line>> /\ Unchanged

Judge(u, c) ==
    LET s == search[u][c] IN
    /\ s.phase = "judging"
    /\ Goes(u, c, IF {u, s.at.id} \in blocked THEN Advance(s, s.at)
                  ELSE [s EXCEPT !.phase = "claiming"])
    /\ UNCHANGED <<storeVars, line>> /\ Unchanged

TryClaim(u, c) ==
    LET s == search[u][c]  v == s.at.id  cv == s.at.conn  allowRecent == s.pass = 1 IN
    /\ s.phase = "claiming"
    /\ \/ /\ \E m \in Matches : Claim(u, v, c, cv, m, allowRecent)
          /\ Goes(u, c, NoSearch)
       \/ /\ ~MayClaim(u, v, c, cv, allowRecent)
          /\ UNCHANGED storeVars
          /\ Goes(u, c, Advance(s, s.at))
    /\ KeepLine /\ Unchanged

Searches(u, c) ==
    \/ List(u, c) \/ ReadEntry(u, c) \/ ReadPresence(u, c) \/ Clean(u, c)
    \/ Rank(u, c) \/ CheckRecent(u, c) \/ Judge(u, c) \/ TryClaim(u, c)

(* What else sockets do, each when it is not in a search; a new socket takes *)
(* over while the old one may still be searching.                            *)

Sockets(u, c) ==
    /\ \/ Connect(u, c)
       \/ Disconnect(u, c)
       \/ LeaveQueue(u, c)
       \/ \E m \in Matches : EndMatch(u, c, m)
    /\ Free(u, c)
    /\ KeepLine
    /\ Unchanged /\ UNCHANGED search

\* social.go, block: the connection gives the right to block the other, and ends.
Block(pair) ==
    /\ pair \in friends
    /\ friends' = friends \ {pair}
    /\ blocked' = blocked \cup {pair}
    /\ UNCHANGED <<storeVars, line, wants, search>>

Lapse(pair) == RecentLapses(pair) /\ UNCHANGED svars

NobodySearches == \A u \in Users, c \in Conns : Free(u, c)

\* The steps of searches, of sockets and of blocks.  A recent key that runs out
\* between the two passes of a search hides its pair from both (handler.go:242):
\* here it runs out between searches.
BusyNext ==
    \/ \E u \in Users, c \in Conns : Searches(u, c) \/ Sockets(u, c)
    \/ \E u \in Users, c \in Conns, p \in Preferences : Join(u, c, p)
    \/ \E pair \in SUBSET Users : Block(pair)
    \/ NobodySearches /\ \E pair \in SUBSET Users : Lapse(pair)

\* The same as BusyNext, one search at a time and nothing else meanwhile.
QuietNext ==
    \/ \E u \in Users, c \in Conns : Searches(u, c)
    \/ NobodySearches /\ BusyNext

BusySpec  == MatchmakerInit /\ [][BusyNext]_mvars
QuietSpec == MatchmakerInit /\ [][QuietNext]_mvars

-----------------------------------------------------------------------------
(* Properties.                                                             *)

\* The user waits, the socket that queued them is still theirs, and it has
\* searched the queue.
Waiting(u) ==
    LET c == queue[u] IN c # NoConn /\ presence[u].conn = c /\ Free(u, c)

Matchable(u, v) == Compatible(wants[u], wants[v]) /\ {u, v} \notin blocked

\* Nobody is left waiting for somebody who waits for them.  Only a join starts
\* a search, so of two users whom the matchmaker could pair one must have found
\* the other: whichever joined last, however their searches, their other
\* sockets and the searches of others interleaved.
NoMissedPair ==
    \A u, v \in Users : u # v /\ Waiting(u) /\ Waiting(v) => ~Matchable(u, v)

\* The pair {u, v} is claimed in this step.
Claimed(u, v) == \E m \in Matches : match[m] = Missing /\ match'[m].parties = {u, v}

\* Left alone, a search claims a best candidate: one it has not met lately if
\* there is any, then one who shares the most interests, then the one who
\* waited longest; the reference for Candidates, the sort and the two passes.
Better(u, v, w) ==
    LET news(x) == IF {u, x} \in recent THEN 0 ELSE 1
        shared(x) == Shared(wants[u], wants[x])
    IN \/ news(v) > news(w)
       \/ news(v) = news(w) /\ shared(v) > shared(w)
       \/ news(v) = news(w) /\ shared(v) = shared(w) /\ <<v, w>> \in line

BestIsClaimed ==
    [][\A u, v \in Users :
          Claimed(u, v) /\ search[u][presence[u].conn].phase = "claiming" =>
              \A w \in Users \ {u, v} :
                  queue[w] # NoConn /\ presence[w].conn = queue[w] /\ Matchable(u, w) =>
                      Better(u, v, w)]_mvars
=============================================================================
