----------------------------- MODULE CallsProofs -----------------------------
(***************************************************************************)
(* Theorems about calls: the server's leases (Calls), for any users, calls  *)
(* and spans, and below them what each tab makes of its call (CallOverlay). *)
(***************************************************************************)
EXTENDS Calls, CallOverlay, TLAPS

(* The leases.  The invariant says exactly how long a lease lasts, whose the *)
(* requests under way are, and that nobody else knows a call whose           *)
(* invitation is being written: the unconditional deletion of Undo then      *)
(* finds what Reserve wrote.                                                 *)

\* The lease of a live call is with both parties and lasts slack longer.
LeaseIsExact ==
    \A c \in Calls : Live(c) => \A u \in Parties(c) : busy[u] = Lease(c, call[c].ttl)

\* A request about a live call has read the call's parties.
ReadItsParties ==
    \A r \in reqs : /\ r.type # "invite" => r.on \in Calls
                    /\ r.step = "peer" => r.type # "invite"
                    /\ r.on \in Calls /\ Live(r.on) =>
                          r.caller = call[r.on].caller /\ r.callee = call[r.on].callee

\* While an invitation is half-way, its call lives and nobody asks about it.
OnlyInviterKnows ==
    \A r \in reqs : r.step \in {"insert", "undo"} =>
        /\ r.type = "invite" /\ r.on \in Calls /\ Live(r.on)
        /\ \A r2 \in reqs : r2.on = r.on => r2 = r

CallsInv ==
    /\ CallsTypeOK /\ LeaseIsExact /\ ReadItsParties /\ OnlyInviterKnows /\ FreedInTime

USE CallsAssumption
USE DEF CallKeys, BusyKeys

\* What a script or a tick makes of a key, field by field.
LEMMA AnsweredKey ==
  ASSUME NEW key \in CallKeys
  PROVE  [key EXCEPT !.state = "active", !.ttl = talkTTL] \in CallKeys
  BY talkTTL \in 0..ringTTL + talkTTL

LEMMA CallTicks ==
  ASSUME NEW key \in CallKeys
  PROVE  LET next == AfterTick(key, Gone) IN
         /\ next \in CallKeys
         /\ key.ttl <= 1 => next = Gone
         /\ key.ttl > 1 => /\ next.ttl = key.ttl - 1 /\ next.state = key.state
                          /\ next.caller = key.caller /\ next.callee = key.callee
  BY DEF AfterTick, Gone

LEMMA LeaseTicks ==
  ASSUME NEW key \in BusyKeys
  PROVE  LET next == AfterTick(key, Free) IN
         /\ next \in BusyKeys
         /\ key.ttl <= 1 => next.call = NoCall /\ next.ttl = 0
         /\ key.ttl > 1 => next.call = key.call /\ next.ttl = key.ttl - 1
  BY DEF AfterTick, Free

-----------------------------------------------------------------------------
\* An invitation's script reserves two free users for a fresh call.
LEMMA ReserveKeeps ==
  ASSUME CallsInv, NEW r \in reqs, NEW c \in Calls, Reserve(r, c)
  PROVE  CallsInv'
  <1> USE DEF CallsInv, Reserve, GoesTo
  <1>1. /\ r \in Requests /\ r.caller \in Users /\ r.callee \in Users
        /\ r.on \in Calls \cup {NoCall}
    BY DEF CallsTypeOK, Requests
  <1> DEFINE r2 == [r EXCEPT !.on = c, !.step = "insert"]
  <1>2. /\ r2 \in Requests /\ r2.on = c /\ r2.step = "insert" /\ r2.type = "invite"
        /\ r2.caller = r.caller /\ r2.callee = r.callee
        /\ reqs' = (reqs \ {r}) \cup {r2}
    BY <1>1 DEF Requests, Steps
  <1> HIDE DEF r2
  <1>3. /\ call'[c] = [state |-> "ringing", caller |-> r.caller, callee |-> r.callee,
                       ttl |-> ringTTL]
        /\ \A d \in Calls : d # c => call'[d] = call[d]
    BY DEF CallsTypeOK
  <1>4. \A u \in Users : busy'[u] = IF u \in Both(r) THEN Lease(c, ringTTL) ELSE busy[u]
    OBVIOUS
  <1>5. CallsTypeOK'
    <2>1. call' \in [Calls -> CallKeys]
      BY <1>1 DEF CallsTypeOK
    <2>2. busy' \in [Users -> BusyKeys]
      BY DEF CallsTypeOK, Lease
    <2>3. reqs' \subseteq Requests
      BY <1>2 DEF CallsTypeOK
    <2>4. \A d \in Calls : IF Live(d)' THEN Parties(d)' \subseteq Users /\ call'[d].ttl > 0
                           ELSE call'[d] = Gone
      BY <1>1, <1>3 DEF CallsTypeOK, Live, Parties
    <2>5. \A u \in Users : busy'[u].ttl > 0 <=> busy'[u].call # NoCall
      <3>1. Lease(c, ringTTL).ttl > 0 /\ Lease(c, ringTTL).call # NoCall
        BY DEF Lease
      <3>2. QED
        BY <3>1, <1>4 DEF CallsTypeOK
    <2>6. QED
      BY <2>1, <2>2, <2>3, <2>4, <2>5 DEF CallsTypeOK
  <1>6. LeaseIsExact'
    <2> SUFFICES ASSUME NEW d \in Calls, Live(d)', NEW u \in Parties(d)'
                 PROVE  busy'[u] = Lease(d, call'[d].ttl)
      BY DEF LeaseIsExact, Lease
    <2>1. CASE d = c
      BY <2>1, <1>1, <1>3, <1>4 DEF Parties, Both
    <2>2. CASE d # c
      <3>1. Live(d) /\ u \in Parties(d) /\ u \in Users
        BY <2>2, <1>3 DEF Live, Parties, CallsTypeOK
      <3>2. busy[u] = Lease(d, call[d].ttl) /\ busy[u] # Free
        BY <3>1 DEF LeaseIsExact, Lease, Free
      <3>3. QED
        BY <3>1, <3>2, <2>2, <1>3, <1>4
    <2>3. QED
      BY <2>1, <2>2
  <1>7. ReadItsParties'
    <2>1. \A q \in reqs : q.on # c
      BY DEF FreshCall
    <2>2. ASSUME NEW q \in reqs', q.on \in Calls, Live(q.on)'
          PROVE  q.caller = call'[q.on].caller /\ q.callee = call'[q.on].callee
      <3>1. CASE q = r2
        BY <3>1, <1>2, <1>3
      <3>2. CASE q # r2
        <4>1. q \in reqs /\ call'[q.on] = call[q.on]
          BY <2>1, <2>2, <3>2, <1>2, <1>3
        <4>2. QED
          BY <4>1, <2>2 DEF ReadItsParties, Live
      <3>3. QED
        BY <3>1, <3>2
    <2>3. QED
      BY <2>2, <1>2 DEF ReadItsParties
  <1>8. OnlyInviterKnows'
    <2>1. \A q \in reqs : q.on # c
      BY DEF FreshCall
    <2>2. Live(c)' /\ \A d \in Calls : Live(d) => Live(d)'
      BY <1>3 DEF Live
    <2>3. ASSUME NEW q \in reqs', q.step \in {"insert", "undo"}
          PROVE  /\ q.type = "invite" /\ q.on \in Calls /\ Live(q.on)'
                 /\ \A q2 \in reqs' : q2.on = q.on => q2 = q
      <3>1. CASE q = r2
        BY <3>1, <2>1, <2>2, <1>2
      <3>2. CASE q # r2
        BY <2>1, <2>2, <2>3, <3>2, <1>2 DEF OnlyInviterKnows
      <3>3. QED
        BY <3>1, <3>2
    <2>4. QED
      BY <2>3 DEF OnlyInviterKnows
  <1>9. FreedInTime'
    <2>1. \A u \in Users : busy[u].call # c
      BY DEF FreshCall
    <2>2. QED
      BY <2>1, <1>3, <1>4 DEF FreedInTime, Live, Parties, Both, Lease
  <1>10. QED
    BY <1>5, <1>6, <1>7, <1>8, <1>9

\* Whoever has read the invitation's call is its inviter, so that what Undo
\* deletes is what Reserve wrote.  What End deletes is the call's own.
LEMMA EndKeeps ==
  ASSUME CallsInv, NEW r \in reqs, Undo(r) \/ End(r)
  PROVE  CallsInv'
  <1> USE DEF CallsInv
  <1>1. /\ r \in Requests /\ r.caller \in Users /\ r.callee \in Users /\ r.on \in Calls
        /\ call' = [call EXCEPT ![r.on] = Gone] /\ links' = links /\ reqs' = reqs \ {r}
    BY DEF CallsTypeOK, Requests, Undo, End, Leaves, OnlyInviterKnows, ReadItsParties
  <1>2. Live(r.on) => Both(r) = Parties(r.on)
    BY <1>1 DEF ReadItsParties, Both, Parties
  <1>3. call'[r.on] = Gone /\ \A d \in Calls : d # r.on => call'[d] = call[d]
    BY <1>1 DEF CallsTypeOK
  <1>4. \A u \in Users : busy'[u] = IF u \in Both(r) /\ busy[u].call = r.on
                                    THEN Free ELSE busy[u]
    <2>1. CASE End(r)
      BY <2>1 DEF End
    <2>2. CASE Undo(r)
      <3>1. Live(r.on)
        BY <2>2 DEF Undo, OnlyInviterKnows
      <3>2. \A u \in Parties(r.on) : busy[u] = Lease(r.on, call[r.on].ttl)
        BY <3>1, <1>1 DEF LeaseIsExact
      <3>3. \A u \in Both(r) : busy[u].call = r.on
        BY <3>1, <3>2, <1>2 DEF Lease
      <3>4. QED
        BY <2>2, <3>3 DEF Undo
    <2>3. QED
      BY <2>1, <2>2
  <1>5. CallsTypeOK'
    <2>1. call' \in [Calls -> CallKeys]
      BY <1>1 DEF CallsTypeOK, Gone
    <2>2. busy' \in [Users -> BusyKeys]
      BY <1>4 DEF CallsTypeOK, Free, Undo, End
    <2>3. \A d \in Calls : IF Live(d)' THEN Parties(d)' \subseteq Users /\ call'[d].ttl > 0
                           ELSE call'[d] = Gone
      BY <1>3 DEF CallsTypeOK, Live, Parties, Gone
    <2>4. \A u \in Users : busy'[u].ttl > 0 <=> busy'[u].call # NoCall
      BY <1>4 DEF CallsTypeOK, Free
    <2>5. QED
      BY <1>1, <2>1, <2>2, <2>3, <2>4 DEF CallsTypeOK
  <1>6. LeaseIsExact'
    <2> SUFFICES ASSUME NEW d \in Calls, Live(d)', NEW u \in Parties(d)'
                 PROVE  busy'[u] = Lease(d, call'[d].ttl)
      BY DEF LeaseIsExact, Lease
    <2>1. d # r.on /\ Live(d) /\ u \in Parties(d) /\ u \in Users
      BY <1>3 DEF Live, Parties, Gone, CallsTypeOK
    <2>2. busy[u] = Lease(d, call[d].ttl)
      BY <2>1 DEF LeaseIsExact
    <2>3. QED
      BY <2>1, <2>2, <1>3, <1>4 DEF Lease
  <1>7. ReadItsParties'
    BY <1>1, <1>3 DEF ReadItsParties, Live, Gone
  <1>8. OnlyInviterKnows'
    BY <1>1, <1>3 DEF OnlyInviterKnows, Live
  <1>9. FreedInTime'
    <2> SUFFICES ASSUME NEW u \in Users, NEW d \in Calls,
                        busy'[u].call = d, busy'[u].ttl > slack
                 PROVE  Live(d)' /\ u \in Parties(d)'
      BY DEF FreedInTime
    <2>1. busy'[u] = busy[u]
      BY <1>4 DEF Free
    <2>2. Live(d) /\ u \in Parties(d)
      BY <2>1 DEF FreedInTime
    <2>3. d # r.on
      BY <2>1, <2>2, <1>2, <1>4 DEF Free
    <2>4. QED
      BY <2>2, <2>3, <1>3 DEF Live, Parties
  <1>10. QED
    BY <1>5, <1>6, <1>7, <1>8, <1>9

\* An answer and a heartbeat renew the call's own leases, and there are no
\* others to renew.
LEMMA RenewKeeps ==
  ASSUME CallsInv, NEW r \in reqs, Accept(r) \/ Beat(r)
  PROVE  CallsInv'
  <1> USE DEF CallsInv
  <1>1. /\ r \in Requests /\ r.caller \in Users /\ r.callee \in Users /\ r.on \in Calls
        /\ links' = links /\ reqs' = reqs \ {r} /\ Live(r.on)
    BY DEF CallsTypeOK, Requests, Accept, Beat, Leaves, ReadItsParties, Live
  <1>2. Both(r) = Parties(r.on) /\ \A u \in Both(r) : busy[u].call = r.on
    <2>1. Both(r) = Parties(r.on)
      BY <1>1 DEF ReadItsParties, Both, Parties
    <2>2. \A u \in Parties(r.on) : busy[u] = Lease(r.on, call[r.on].ttl)
      BY <1>1 DEF LeaseIsExact
    <2>3. QED
      BY <2>1, <2>2 DEF Lease
  <1>3. /\ call'[r.on].state = "active" /\ call'[r.on].ttl = talkTTL
        /\ call'[r.on].caller = call[r.on].caller /\ call'[r.on].callee = call[r.on].callee
        /\ \A d \in Calls : d # r.on => call'[d] = call[d]
    BY <1>1 DEF Accept, Beat, CallsTypeOK
  <1>4. \A u \in Users : busy'[u] = IF u \in Both(r) THEN Lease(r.on, talkTTL) ELSE busy[u]
    BY <1>1, <1>2 DEF Accept, Beat, Free
  <1>5. CallsTypeOK'
    <2>1. call' \in [Calls -> CallKeys]
      <3>1. talkTTL \in 0..ringTTL + talkTTL
        OBVIOUS
      <3>2. CASE Accept(r)
        <4> DEFINE key == [call[r.on] EXCEPT !.state = "active", !.ttl = talkTTL]
        <4>1. call' = [call EXCEPT ![r.on] = key]
          BY <3>2, <1>1 DEF CallsTypeOK, Accept
        <4>2. key \in CallKeys
          BY <1>1, AnsweredKey DEF CallsTypeOK
        <4>3. QED
          BY <4>1, <4>2 DEF CallsTypeOK
      <3>3. CASE Beat(r)
        BY <3>1, <3>3, <1>1 DEF CallsTypeOK, Beat
      <3>4. QED
        BY <3>2, <3>3
    <2>2. busy' \in [Users -> BusyKeys]
      <3>1. \A u \in Users : busy'[u] \in BusyKeys
        BY <1>1, <1>4 DEF CallsTypeOK, Lease
      <3>2. busy' = [u \in Users |-> busy'[u]]
        BY DEF Accept, Beat
      <3>3. QED
        BY <3>1, <3>2
    <2>3. \A d \in Calls : IF Live(d)' THEN Parties(d)' \subseteq Users /\ call'[d].ttl > 0
                           ELSE call'[d] = Gone
      BY <1>1, <1>3 DEF CallsTypeOK, Live, Parties
    <2>4. \A u \in Users : busy'[u].ttl > 0 <=> busy'[u].call # NoCall
      BY <1>1, <1>4 DEF CallsTypeOK, Lease
    <2>5. QED
      BY <1>1, <2>1, <2>2, <2>3, <2>4 DEF CallsTypeOK
  <1>6. LeaseIsExact'
    <2> SUFFICES ASSUME NEW d \in Calls, Live(d)', NEW u \in Parties(d)'
                 PROVE  busy'[u] = Lease(d, call'[d].ttl)
      BY DEF LeaseIsExact, Lease
    <2>1. CASE d = r.on
      BY <2>1, <1>1, <1>2, <1>3, <1>4 DEF Parties, Both
    <2>2. CASE d # r.on
      <3>1. Live(d) /\ u \in Parties(d) /\ u \in Users
        BY <2>2, <1>3 DEF Live, Parties, CallsTypeOK
      <3>2. busy[u] = Lease(d, call[d].ttl)
        BY <3>1 DEF LeaseIsExact
      <3>3. QED
        BY <3>1, <3>2, <2>2, <1>2, <1>3, <1>4 DEF Lease
    <2>3. QED
      BY <2>1, <2>2
  <1>7. ReadItsParties'
    BY <1>1, <1>3 DEF ReadItsParties, Live
  <1>8. OnlyInviterKnows'
    BY <1>1, <1>3 DEF OnlyInviterKnows, Live
  <1>9. FreedInTime'
    <2>1. \A u \in Both(r) : u \in Parties(r.on)'
      BY <1>2, <1>3 DEF Parties
    <2>2. \A d \in Calls : (Live(d) => Live(d)') /\ Parties(d)' = Parties(d)
      BY <1>1, <1>3 DEF Live, Parties
    <2>3. QED
      BY <2>1, <2>2, <1>1, <1>4 DEF FreedInTime, Lease
  <1>10. QED
    BY <1>5, <1>6, <1>7, <1>8, <1>9

\* What changes requests and connections only.
LEMMA RequestsKeep ==
  ASSUME CallsInv,
         \/ \E u, v \in Users : AskInvite(u, v)
         \/ \E u \in Users, c \in Calls, type \in Types \ {"invite"} : Ask(u, c, type)
         \/ \E r \in reqs : Insert(r) \/ CheckPeer(r) \/ Stop(r)
         \/ \E pair \in links : Unlink(pair)
         \/ UNCHANGED cvars
  PROVE  CallsInv'
  <1> USE DEF CallsInv
  <1>1. call' = call /\ busy' = busy /\ links' \subseteq links
    BY DEF AskInvite, Ask, Insert, CheckPeer, Stop, Unlink, cvars
  <1>2. LeaseIsExact' /\ FreedInTime'
    BY <1>1 DEF LeaseIsExact, FreedInTime, Live, Parties
  <1>3. (/\ reqs' \subseteq Requests /\ ReadItsParties' /\ OnlyInviterKnows') => CallsInv'
    BY <1>1, <1>2 DEF CallsTypeOK, Live, Parties
  <1>4. ASSUME NEW u \in Users, NEW v \in Users, AskInvite(u, v) PROVE CallsInv'
    <2> DEFINE r == [type |-> "invite", on |-> NoCall, caller |-> u, callee |-> v,
                     active |-> FALSE, step |-> "script"]
    <2>1. r \in Requests /\ r.on = NoCall /\ r.step = "script" /\ r.type = "invite"
      BY DEF Requests, Types, Steps
    <2>2. reqs' = reqs \cup {r}
      BY <1>4 DEF AskInvite
    <2>3. reqs' \subseteq Requests
      BY <2>1, <2>2 DEF CallsTypeOK
    <2>4. ReadItsParties'
      BY <2>1, <2>2, <1>1 DEF ReadItsParties, Live
    <2>5. OnlyInviterKnows'
      BY <2>1, <2>2, <1>1 DEF OnlyInviterKnows, Live
    <2>6. QED
      BY <2>3, <2>4, <2>5, <1>3
  <1>5. ASSUME NEW u \in Users, NEW c \in Calls, NEW type \in Types \ {"invite"}, Ask(u, c, type)
        PROVE  CallsInv'
    <2> DEFINE r == [type |-> type, on |-> c, caller |-> call[c].caller,
                     callee |-> call[c].callee, active |-> call[c].state = "active",
                     step |-> "peer"]
    <2>1. /\ r \in Requests /\ r.on = c /\ r.step = "peer" /\ r.type # "invite"
          /\ r.caller = call[c].caller /\ r.callee = call[c].callee
      BY <1>5 DEF Requests, Types, Steps, CallsTypeOK, Ask, Parties, Live
    <2>2. reqs' = reqs \cup {r} /\ \A q \in reqs : q.type = "invite" => q.on # c
      BY <1>5 DEF Ask
    <2>3. reqs' \subseteq Requests
      BY <2>1, <2>2 DEF CallsTypeOK
    <2>4. ReadItsParties'
      BY <2>1, <2>2, <1>1 DEF ReadItsParties, Live
    <2>5. OnlyInviterKnows'
      BY <2>1, <2>2, <1>1 DEF OnlyInviterKnows, Live
    <2>6. QED
      BY <2>3, <2>4, <2>5, <1>3
  <1>6. ASSUME NEW r \in reqs, reqs' = reqs \ {r} PROVE CallsInv'
    BY <1>1, <1>3, <1>6 DEF CallsTypeOK, ReadItsParties, OnlyInviterKnows, Live
  <1>7. ASSUME NEW r \in reqs, NEW q \in Requests, reqs' = (reqs \ {r}) \cup {q},
               q.on = r.on, q.caller = r.caller, q.callee = r.callee,
               q.type = "invite" <=> r.type = "invite",
               q.step = "peer" => r.step = "peer",
               q.step \in {"insert", "undo"} => r.step \in {"insert", "undo"}
        PROVE  CallsInv'
    <2>1. reqs' \subseteq Requests
      BY <1>7 DEF CallsTypeOK
    <2>2. ReadItsParties'
      BY <1>1, <1>7 DEF ReadItsParties, Live
    <2>3. OnlyInviterKnows'
      BY <1>1, <1>7 DEF OnlyInviterKnows, Live
    <2>4. QED
      BY <2>1, <2>2, <2>3, <1>3
  <1>8. ASSUME NEW r \in reqs, Insert(r) PROVE CallsInv'
    <2>1. CASE reqs' = reqs \ {r}
      BY <2>1, <1>6
    <2>2. CASE reqs' = (reqs \ {r}) \cup {[r EXCEPT !.step = "undo"]}
      <3> DEFINE q == [r EXCEPT !.step = "undo"]
      <3>1. /\ q \in Requests /\ q.on = r.on /\ q.caller = r.caller /\ q.callee = r.callee
            /\ q.type = r.type /\ q.step = "undo"
        BY DEF CallsTypeOK, Requests, Steps
      <3>2. r.step = "insert"
        BY <1>8 DEF Insert
      <3>3. QED
        BY <2>2, <3>1, <3>2, <1>7
    <2>3. QED
      BY <1>8, <2>1, <2>2 DEF Insert, Leaves, GoesTo
  <1>9. ASSUME NEW r \in reqs, CheckPeer(r) PROVE CallsInv'
    <2>1. r \in Requests /\ r.step = "peer"
      BY <1>9 DEF CheckPeer, CallsTypeOK
    <2>2. CASE reqs' = reqs \ {r}
      BY <2>2, <1>6
    <2>3. CASE r.type = "invite"
      BY <2>1, <2>3 DEF ReadItsParties
    <2>4. CASE reqs' = (reqs \ {r}) \cup {[r EXCEPT !.step = "script"]}
      <3> DEFINE q == [r EXCEPT !.step = "script"]
      <3>1. /\ q \in Requests /\ q.on = r.on /\ q.caller = r.caller /\ q.callee = r.callee
            /\ q.type = r.type /\ q.step = "script"
        BY <2>1 DEF Requests, Steps
      <3>2. QED
        BY <2>4, <3>1, <1>7
    <2>5. CASE reqs' = (reqs \ {r}) \cup {[r EXCEPT !.type = "end", !.step = "script"]}
      <3> DEFINE q == [r EXCEPT !.type = "end", !.step = "script"]
      <3>1. /\ q \in Requests /\ q.on = r.on /\ q.caller = r.caller /\ q.callee = r.callee
            /\ q.type = "end" /\ q.step = "script"
        BY <2>1 DEF Requests, Steps, Types
      <3>2. QED
        BY <2>3, <2>5, <3>1, <1>7
    <2>6. QED
      BY <1>9, <2>2, <2>4, <2>5 DEF CheckPeer, Leaves, GoesTo
  <1>10. ASSUME NEW pair \in links, Unlink(pair) PROVE CallsInv'
    BY <1>1, <1>3, <1>10 DEF Unlink, CallsTypeOK, ReadItsParties, OnlyInviterKnows, Live
  <1>11. CASE UNCHANGED cvars
    BY <1>1, <1>3, <1>11 DEF cvars, CallsTypeOK, ReadItsParties, OnlyInviterKnows, Live
  <1>12. ASSUME NEW r \in reqs, Stop(r) PROVE CallsInv'
    BY <1>6, <1>12 DEF Stop, Leaves
  <1>13. QED
    BY <1>4, <1>5, <1>8, <1>9, <1>10, <1>11, <1>12
-----------------------------------------------------------------------------
\* When a call runs out its leases have slack left.
LEMMA TickKeeps ==
  ASSUME CallsInv, Clock
  PROVE  CallsInv'
  <1> USE DEF CallsInv
  <1>1. \A c \in Calls :
           /\ call'[c] \in CallKeys
           /\ call[c].ttl <= 1 => call'[c] = Gone
           /\ call[c].ttl > 1 => /\ call'[c].ttl = call[c].ttl - 1
                                /\ call'[c].state = call[c].state
                                /\ call'[c].caller = call[c].caller
                                /\ call'[c].callee = call[c].callee
    BY CallTicks DEF CallsTypeOK, Clock, Tick
  <1>2. \A u \in Users :
           /\ busy'[u] \in BusyKeys
           /\ busy[u].ttl <= 1 => busy'[u].call = NoCall /\ busy'[u].ttl = 0
           /\ busy[u].ttl > 1 => /\ busy'[u].call = busy[u].call
                                /\ busy'[u].ttl = busy[u].ttl - 1
    BY LeaseTicks DEF CallsTypeOK, Clock, Tick
  <1>3. \A c \in Calls : call[c].ttl \in Nat
    BY DEF CallsTypeOK
  <1>4. \A u \in Users : busy[u].ttl \in Nat
    BY DEF CallsTypeOK
  <1>5. \A c \in Calls : Live(c)' => /\ Live(c) /\ Parties(c)' = Parties(c)
                                     /\ call'[c].caller = call[c].caller
                                     /\ call'[c].callee = call[c].callee
                                     /\ call[c].ttl > 1
                                     /\ call'[c].ttl = call[c].ttl - 1
    BY <1>1, <1>3 DEF Live, Parties, Gone
  <1>6. CallsTypeOK'
    <2>1. \A c \in Calls : IF Live(c)' THEN Parties(c)' \subseteq Users /\ call'[c].ttl > 0
                           ELSE call'[c] = Gone
      <3> SUFFICES ASSUME NEW c \in Calls
                   PROVE  IF Live(c)' THEN Parties(c)' \subseteq Users /\ call'[c].ttl > 0
                          ELSE call'[c] = Gone
        OBVIOUS
      <3>1. CASE Live(c)'
        BY <3>1, <1>3, <1>5 DEF CallsTypeOK
      <3>2. CASE ~Live(c)' /\ call[c].ttl > 1
        <4>1. call[c] # Gone
          BY <3>2 DEF Gone
        <4>2. Live(c)
          BY <4>1 DEF CallsTypeOK
        <4>3. QED
          BY <3>2, <4>2, <1>1 DEF Live
      <3>3. CASE ~Live(c)' /\ call[c].ttl <= 1
        BY <3>3, <1>1
      <3>4. QED
        BY <3>1, <3>2, <3>3, <1>3
    <2>2. \A u \in Users : busy'[u].ttl > 0 <=> busy'[u].call # NoCall
      <3> SUFFICES ASSUME NEW u \in Users
                   PROVE  busy'[u].ttl > 0 <=> busy'[u].call # NoCall
        OBVIOUS
      <3>1. CASE busy[u].ttl <= 1
        BY <3>1, <1>2
      <3>2. CASE busy[u].ttl > 1
        <4>1. busy[u].call # NoCall
          BY <3>2, <1>4 DEF CallsTypeOK
        <4>2. busy'[u].ttl = busy[u].ttl - 1 /\ busy'[u].call = busy[u].call
          BY <3>2, <1>2
        <4>3. QED
          BY <3>2, <4>1, <4>2, <1>4
      <3>3. QED
        BY <3>1, <3>2, <1>4
    <2>3. call' = [c \in Calls |-> call'[c]] /\ busy' = [u \in Users |-> busy'[u]]
      BY DEF Clock, Tick
    <2>4. call' \in [Calls -> CallKeys] /\ busy' \in [Users -> BusyKeys]
      BY <1>1, <1>2, <2>3
    <2>5. QED
      BY <2>1, <2>2, <2>4 DEF CallsTypeOK, Clock, Tick
  <1>7. LeaseIsExact'
    <2> SUFFICES ASSUME NEW c \in Calls, Live(c)', NEW u \in Parties(c)'
                 PROVE  busy'[u] = Lease(c, call'[c].ttl)
      BY DEF LeaseIsExact, Lease
    <2>1. busy[u] = Lease(c, call[c].ttl) /\ u \in Users
      BY <1>5 DEF LeaseIsExact, CallsTypeOK
    <2>2. busy[u].ttl > 1 /\ busy[u].ttl = call[c].ttl + slack /\ busy[u].call = c
      BY <2>1, <1>3, <1>5 DEF Lease
    <2>3. busy'[u] \in BusyKeys /\ busy'[u].call = c /\ busy'[u].ttl = busy[u].ttl - 1
      BY <2>1, <2>2, <1>2
    <2>4. busy[u].ttl - 1 = call'[c].ttl + slack
      BY <2>2, <1>3, <1>5
    <2>5. QED
      BY <2>3, <2>4 DEF Lease
  <1>8. ReadItsParties'
    BY <1>5 DEF ReadItsParties, Clock, Tick
  <1>9. OnlyInviterKnows'
    BY DEF OnlyInviterKnows, Inserting, Clock, Tick
  <1>10. FreedInTime'
    <2> SUFFICES ASSUME NEW u \in Users, NEW c \in Calls,
                        busy'[u].call = c, busy'[u].ttl > slack
                 PROVE  Live(c)' /\ u \in Parties(c)'
      BY DEF FreedInTime
    <2>1. busy[u].call = c /\ busy[u].ttl > slack + 1
      <3>1. busy[u].ttl > 1
        BY <1>2, <1>4
      <3>2. busy'[u].call = busy[u].call /\ busy'[u].ttl = busy[u].ttl - 1
        BY <3>1, <1>2
      <3>3. QED
        BY <3>2, <1>4
    <2>2. Live(c) /\ u \in Parties(c)
      BY <2>1, <1>4 DEF FreedInTime
    <2>3. busy[u] = Lease(c, call[c].ttl)
      BY <2>2 DEF LeaseIsExact
    <2>4. call[c].ttl > 1
      BY <2>1, <2>3, <1>3 DEF Lease
    <2>5. QED
      BY <2>2, <2>4, <1>1 DEF Live, Parties
  <1>11. QED
    BY <1>6, <1>7, <1>8, <1>9, <1>10

LEMMA CallsInvHolds == CallsSpec => []CallsInv
  <1>1. CallsInit => CallsInv
    BY DEF CallsInit, CallsInv, CallsTypeOK, LeaseIsExact, ReadItsParties, OnlyInviterKnows,
           FreedInTime, Live, Gone, Free
  <1>2. CallsInv /\ [CallsNext]_cvars => CallsInv'
    <2> SUFFICES ASSUME CallsInv, [CallsNext]_cvars PROVE CallsInv'
      OBVIOUS
    <2>1. ASSUME NEW r \in reqs, Serve(r) PROVE CallsInv'
      BY <2>1, ReserveKeeps, EndKeeps, RenewKeeps, RequestsKeep DEF Serve
    <2>2. CASE Clock
      BY <2>2, TickKeeps
    <2>3. QED
      BY <2>1, <2>2, RequestsKeep DEF CallsNext
  <1>3. QED
    BY <1>1, <1>2, PTL DEF CallsSpec

-----------------------------------------------------------------------------
\* The keys and requests keep their shape.
THEOREM CallsTypes == CallsSpec => []CallsTypeOK
  <1>1. CallsInv => CallsTypeOK
    BY DEF CallsInv
  <1>2. QED
    BY <1>1, CallsInvHolds, PTL

\* The scripts of invite, accept, end and heartbeat keep the leases of a call
\* with its parties for as long as it lasts.
THEOREM CallsLease == CallsSpec => []LeaseOutlivesCall
  <1>1. CallsInv => LeaseOutlivesCall
    <2> SUFFICES ASSUME CallsInv, NEW c \in Calls, Live(c), NEW u \in Parties(c)
                 PROVE  busy[u].call = c /\ busy[u].ttl > call[c].ttl
      BY DEF LeaseOutlivesCall
    <2>1. busy[u] = Lease(c, call[c].ttl) /\ call[c].ttl \in Nat
      BY DEF CallsInv, LeaseIsExact, CallsTypeOK
    <2>2. QED
      BY <2>1 DEF Lease
  <1>2. QED
    BY <1>1, CallsInvHolds, PTL

\* Whatever overlaps, a user is in one call at a time.
THEOREM CallsOneEach == CallsSpec => []OneCallEach
  <1>1. LeaseOutlivesCall => OneCallEach
    BY DEF LeaseOutlivesCall, OneCallEach
  <1>2. QED
    BY <1>1, CallsLease, PTL

\* Nobody stays busy for longer than the slack with a call that is over.
THEOREM CallsFreed == CallsSpec => []FreedInTime
  <1>1. CallsInv => FreedInTime
    BY DEF CallsInv
  <1>2. QED
    BY <1>1, CallsInvHolds, PTL

-----------------------------------------------------------------------------
(* The overlay: what a tab holds when its call is over, which of the         *)
(* callee's tabs goes on to talk, and the candidates that come before the    *)
(* description they belong to.                                              *)
HIDE CallsAssumption
HIDE DEF CallKeys, BusyKeys

Events == {"invited", "accept", "end", "offer", "answer", "ice"}

TabStates ==
    [view : {"none", "starting", "ringing", "connecting", "active", "ended"},
     dead : {"no", "yes", "told"}, past : BOOLEAN,
     setup : {"no", "mic", "camera", "attach", "failed", "done"}, twice : BOOLEAN,
     posts : Nat, held : SUBSET {"mic", "camera", "peer"}, sdp : {"none", "half", "both"},
     ice : Nat, found : BOOLEAN,
     work : {"idle", "setup", "offering", "answering", "applying", "offer", "answer"},
     swap : {"no", "asking", "replacing", "late"}, linked : BOOLEAN, inbox : Seq(Events)]

\* Only the caller offers, which is why only its first description is half of what
\* both need; a tab that has the other's keeps no candidate.
TabOK(t, s) ==
    /\ s \in TabStates
    /\ s.dead # "no" => s.held = {} \/ (s.held = {"camera"} /\ s.swap = "late")
    /\ s.work \in {"setup", "offering"} \/ s.sdp = "half" => t = Outgoing
    /\ s.sdp = "both" => s.ice = 0

\* It has answered, and waits for no answer of the server any more.
Talks(s) == s.dead = "no" /\ s.past /\ s.posts = 0

\* One accept is accepted, by which the call stops ringing.
OneAnswered ==
    /\ \A t \in Incoming : Talks(tab[t]) => srv \in {"active", "over"}
    /\ \A t, o \in Incoming : Talks(tab[t]) /\ Talks(tab[o]) => t = o

OverlayInv ==
    /\ srv \in {"none", "ringing", "active", "over"}
    /\ tab \in [Tabs -> TabStates]
    /\ ends \in SUBSET Tabs
    /\ \A t \in Tabs : TabOK(t, tab[t])
    /\ OneAnswered

-----------------------------------------------------------------------------
(* The helpers.                                                             *)

LEMMA NewOK == ASSUME NEW t PROVE TabOK(t, NewTab) /\ ~Talks(NewTab)
  <1>1. <<>> \in Seq(Events)
    OBVIOUS
  <1>2. NewTab \in TabStates
    BY <1>1 DEF NewTab, TabStates
  <1>3. QED
    BY <1>2 DEF TabOK, Talks, NewTab

\* cleanup() releases everything, in whatever state it finds the tab.
LEMMA CleanupOK ==
  ASSUME NEW t, NEW s, TabOK(t, s)
  PROVE  /\ TabOK(t, Cleanup(s)) /\ Cleanup(s).dead # "no" /\ Cleanup(s).held = {}
         /\ Cleanup(s).view = s.view /\ Cleanup(s).posts \in Nat
  <1> DEFINE dead  == IF s.dead = "no" THEN "yes" ELSE s.dead
             setup == IF s.setup = "no" THEN "done" ELSE IF s.setup = "camera" THEN "mic" ELSE s.setup
             work  == IF s.work \in {"offering", "answering"} THEN "applying" ELSE s.work
             posts == IF srv = "ringing" THEN s.posts ELSE 0
             swap  == IF s.swap = "asking" THEN "no" ELSE s.swap
             view  == s.view
             c == [NewTab EXCEPT !.view = view, !.dead = dead, !.setup = setup, !.work = work,
                                 !.posts = posts, !.swap = swap]
  <1>1. s \in TabStates
    BY DEF TabOK
  <1>2. /\ view \in {"none", "starting", "ringing", "connecting", "active", "ended"}
        /\ dead \in {"yes", "told"}
        /\ setup \in {"no", "mic", "camera", "attach", "failed", "done"}
        /\ work \in {"idle", "setup", "applying", "offer", "answer"}
        /\ posts \in Nat
        /\ swap \in {"no", "asking", "replacing", "late"}
    BY <1>1 DEF TabStates
  <1>3. work = "setup" => t = Outgoing
    BY DEF TabOK
  <1>4. Cleanup(s) = c
    BY DEF Cleanup
  <1>5. NewTab \in TabStates /\ NewTab.held = {} /\ NewTab.sdp = "none" /\ NewTab.ice = 0
    BY NewOK DEF TabOK, NewTab
  <1> HIDE DEF dead, setup, work, posts, swap, view
  <1>6. c \in TabStates /\ c.view = view /\ c.dead = dead /\ c.work = work /\ c.held = {}
        /\ c.sdp = "none" /\ c.ice = 0 /\ c.posts = posts
    <2>1. c \in TabStates
      <3>1. /\ dead \in {"no", "yes", "told"}
            /\ work \in {"idle", "setup", "offering", "answering", "applying", "offer", "answer"}
        BY <1>2
      <3>2. [NewTab EXCEPT !.view = view, !.dead = dead, !.setup = setup] \in TabStates
        BY <1>2, <1>5, <3>1 DEF TabStates
      <3> DEFINE c1 == [NewTab EXCEPT !.view = view, !.dead = dead, !.setup = setup]
                 c2 == [c1 EXCEPT !.work = work]
                 c3 == [c2 EXCEPT !.posts = posts]
                 c4 == [c3 EXCEPT !.swap = swap]
      <3>3. c = c4
        OBVIOUS
      <3> HIDE DEF c, c4, c3, c2, c1
      <3>4. c1 \in TabStates
        BY <3>2 DEF c1
      <3>5. c2 \in TabStates
        BY <3>1, <3>4 DEF TabStates, c2
      <3>6. c3 \in TabStates
        BY <1>2, <3>5 DEF TabStates, c3
      <3>7. c4 \in TabStates
        BY <1>2, <3>6 DEF TabStates, c4
      <3>8. QED
        BY <3>3, <3>7
    <2>2. c.view = view /\ c.dead = dead /\ c.work = work /\ c.posts = posts
      BY <1>5 DEF TabStates
    <2>3. c.held = {} /\ c.sdp = "none" /\ c.ice = 0
      BY <1>5 DEF TabStates
    <2>4. QED
      BY <2>1, <2>2, <2>3
  <1> HIDE DEF c
  <1>7. TabOK(t, c)
    BY <1>2, <1>3, <1>6 DEF TabOK
  <1>8. QED
    BY <1>2, <1>4, <1>6, <1>7 DEF view

\* What is shown, and what waits, is another matter.
LEMMA ShownOK ==
  ASSUME NEW t, NEW s, TabOK(t, s),
         NEW view \in {"none", "starting", "ringing", "connecting", "active", "ended"},
         NEW r, r = [s EXCEPT !.view = view]
  PROVE  TabOK(t, r) /\ (Talks(r) <=> Talks(s))
  <1>1. s \in TabStates
    BY DEF TabOK
  <1>2. /\ r \in TabStates /\ r.dead = s.dead /\ r.past = s.past /\ r.posts = s.posts /\ r.held = s.held
        /\ r.work = s.work /\ r.swap = s.swap /\ r.sdp = s.sdp /\ r.ice = s.ice
    BY <1>1 DEF TabStates
  <1>3. QED
    BY <1>2 DEF TabOK, Talks

LEMMA ShowOK ==
  ASSUME NEW t, NEW s, TabOK(t, s),
         NEW view \in {"none", "starting", "ringing", "connecting", "active", "ended"}
  PROVE  /\ TabOK(t, Show(s, view)) /\ Show(s, view).dead = s.dead /\ Show(s, view).past = s.past
         /\ Show(s, view).posts = s.posts /\ Show(s, view).held = s.held
         /\ Show(s, view).work = s.work /\ Show(s, view).inbox = s.inbox
  <1> DEFINE v == IF s.view = "none" THEN s.view ELSE view
             r == [s EXCEPT !.view = v]
  <1>1. s \in TabStates
    BY DEF TabOK
  <1>2. v \in {"none", "starting", "ringing", "connecting", "active", "ended"}
    BY <1>1 DEF TabStates
  <1>3. Show(s, view) = r
    BY DEF Show
  <1> HIDE DEF v
  <1>4. /\ r \in TabStates /\ r.dead = s.dead /\ r.past = s.past /\ r.posts = s.posts /\ r.held = s.held
        /\ r.work = s.work /\ r.inbox = s.inbox /\ r.swap = s.swap /\ r.sdp = s.sdp /\ r.ice = s.ice
    BY <1>1, <1>2 DEF TabStates
  <1>5. QED
    BY <1>3, <1>4 DEF TabOK

LEMMA EndedOK ==
  ASSUME NEW t, NEW s, TabOK(t, s) PROVE TabOK(t, Ended(s)) /\ Ended(s).dead # "no" /\ ~Talks(Ended(s))
  <1>1. TabOK(t, Cleanup(s)) /\ Cleanup(s).dead # "no"
    BY CleanupOK
  <1>2. Ended(s) = Show(Cleanup(s), "ended")
    BY DEF Ended
  <1>3. TabOK(t, Ended(s)) /\ Ended(s).dead # "no"
    BY <1>1, <1>2, ShowOK
  <1>4. QED
    BY <1>3 DEF Talks

LEMMA ClosedOK ==
  ASSUME NEW t, NEW s, TabOK(t, s) PROVE TabOK(t, Closed(s)) /\ ~Talks(Closed(s))
  <1> DEFINE c == Cleanup(s)
             r == [c EXCEPT !.view = "none", !.work = "idle"]
  <1>1. TabOK(t, c) /\ c.dead # "no"
    BY CleanupOK
  <1>2. Closed(s) = r
    BY DEF Closed
  <1> HIDE DEF c
  <1>3. c \in TabStates
    BY <1>1 DEF TabOK
  <1>4. /\ r \in TabStates /\ r.dead = c.dead /\ r.held = c.held /\ r.work = "idle" /\ r.swap = c.swap
        /\ r.sdp = c.sdp /\ r.ice = c.ice
    BY <1>3 DEF TabStates
  <1>5. QED
    BY <1>1, <1>2, <1>4 DEF TabOK, Talks

\* An event in the inbox changes nothing else.
LEMMA InboxOK ==
  ASSUME NEW t, NEW s, TabOK(t, s), NEW q \in Seq(Events)
  PROVE  LET r == [s EXCEPT !.inbox = q]
         IN  TabOK(t, r) /\ (Talks(r) <=> Talks(s)) /\ r.view = s.view /\ r.dead = s.dead
             /\ r.work = s.work
  <1> DEFINE r == [s EXCEPT !.inbox = q]
  <1>1. /\ r \in TabStates /\ r.dead = s.dead /\ r.past = s.past /\ r.posts = s.posts /\ r.held = s.held
        /\ r.work = s.work /\ r.swap = s.swap /\ r.sdp = s.sdp /\ r.ice = s.ice /\ r.view = s.view
    BY DEF TabOK, TabStates
  <1>2. QED
    BY <1>1 DEF TabOK, Talks

LEMMA SentOK ==
  ASSUME NEW t, NEW s, TabOK(t, s), NEW event \in Events, NEW to
  PROVE  TabOK(t, Sent(event, to, s, t)) /\ (Talks(Sent(event, to, s, t)) <=> Talks(s))
  <1>1. Append(s.inbox, event) \in Seq(Events)
    BY DEF TabOK, TabStates
  <1>2. QED
    BY <1>1, InboxOK DEF Sent

-----------------------------------------------------------------------------
(* The tabs together.                                                       *)

\* What a step of one tab must take care of that does not answer the call.
LEMMA OneTab ==
  ASSUME OverlayInv, NEW t \in Tabs, NEW s, TabOK(t, s), t \in Incoming /\ Talks(s) => Talks(tab[t]),
         \/ Becomes(t, s)
         \/ \E event \in Events, to \in SUBSET Tabs : Emits(event, to, t, s),
         srv' \in {"none", "ringing", "active", "over"}, srv \in {"active", "over"} => srv' \in {"active", "over"},
         ends' \in SUBSET Tabs
  PROVE  OverlayInv'
  <1>1. ASSUME NEW x \in Tabs
        PROVE  TabOK(x, tab'[x]) /\ (x \in Incoming /\ Talks(tab'[x]) => Talks(tab[x]))
    <2> DEFINE r == IF x = t THEN s ELSE tab[x]
    <2>1. TabOK(x, r) /\ (x \in Incoming /\ Talks(r) => Talks(tab[x]))
      BY DEF OverlayInv
    <2>2. CASE Becomes(t, s)
      <3>1. tab'[x] = r
        BY <2>2 DEF Becomes, OverlayInv
      <3>2. QED
        BY <2>1, <3>1
    <2>3. ASSUME NEW event \in Events, NEW to \in SUBSET Tabs, Emits(event, to, t, s)
          PROVE  TabOK(x, tab'[x]) /\ (x \in Incoming /\ Talks(tab'[x]) => Talks(tab[x]))
      <3>1. tab'[x] = Sent(event, to, r, x)
        BY <2>3 DEF Emits
      <3> HIDE DEF r
      <3>2. QED
        BY <2>1, <3>1, SentOK
    <2>4. QED
      BY <2>2, <2>3
  <1>2. tab' \in [Tabs -> TabStates]
    <2>1. \E f : tab' = [x \in Tabs |-> f[x]]
      BY DEF Becomes, Emits, OverlayInv
    <2>2. QED
      BY <1>1, <2>1 DEF TabOK
  <1>3. OneAnswered'
    <2>1. Incoming \subseteq Tabs
      BY DEF Tabs
    <2>2. QED
      BY <1>1, <2>1 DEF OverlayInv, OneAnswered
  <1>4. QED
    BY <1>1, <1>2, <1>3 DEF OverlayInv

LEMMA NoTab ==
  ASSUME OverlayInv, tab' = tab, ends' \in SUBSET Tabs,
         srv' \in {"none", "ringing", "active", "over"}, srv \in {"active", "over"} => srv' \in {"active", "over"}
  PROVE  OverlayInv'
  BY DEF OverlayInv, OneAnswered

LEMMA EndsTyped == ASSUME OverlayInv, NEW t \in Tabs, PostsEnd(t) PROVE ends' \in SUBSET Tabs
  BY DEF OverlayInv, PostsEnd

LEMMA FinishInv == ASSUME OverlayInv, NEW t \in Tabs, Finish(t), srv' = srv PROVE OverlayInv'
  <1>1. TabOK(t, Closed(tab[t])) /\ ~Talks(Closed(tab[t]))
    BY ClosedOK DEF OverlayInv
  <1>2. QED
    BY <1>1, OneTab, EndsTyped DEF Finish, OverlayInv

-----------------------------------------------------------------------------
(* Each step.                                                               *)

LEMMA StartingInv == ASSUME OverlayInv, StartCall \/ Invite \/ Mount \/ Lapse PROVE OverlayInv'
  <1>1. Outgoing \in Tabs /\ TabOK(Outgoing, tab[Outgoing]) /\ Incoming \subseteq Tabs
    BY DEF OverlayInv, Tabs
  <1>2. ASSUME NEW view \in {"none", "starting", "ringing", "connecting", "active", "ended"},
               Becomes(Outgoing, [tab[Outgoing] EXCEPT !.view = view]), UNCHANGED <<srv, ends>>
        PROVE  OverlayInv'
    <2> DEFINE s == [tab[Outgoing] EXCEPT !.view = view]
    <2>1. TabOK(Outgoing, s) /\ (Talks(s) => Talks(tab[Outgoing]))
      BY <1>1, ShownOK
    <2> HIDE DEF s
    <2>2. Becomes(Outgoing, s)
      BY <1>2 DEF s
    <2>3. QED
      BY <1>1, <1>2, <2>1, <2>2, OneTab DEF OverlayInv
  <1>3. CASE StartCall
    BY <1>2, <1>3 DEF StartCall
  <1>4. CASE Invite
    <2>1. \E event \in Events, to \in SUBSET Tabs : Emits(event, to, Outgoing, tab[Outgoing])
      BY <1>1, <1>4 DEF Invite, Events
    <2>2. QED
      BY <1>1, <1>4, <2>1, OneTab DEF Invite, OverlayInv
  <1>5. CASE Mount
    BY <1>2, <1>5 DEF Mount
  <1>6. CASE Lapse
    BY <1>6, NoTab DEF Lapse
  <1>7. QED
    BY <1>3, <1>4, <1>5, <1>6

\* A tab that says "connecting" asks the server then, the callee's do.
LEMMA GreetOK ==
  ASSUME NEW t, NEW s, TabOK(t, s)
  PROVE  TabOK(t, Greet(s)) /\ (t # Outgoing => ~Talks(Greet(s)))
  <1> DEFINE c == Show(s, "connecting")
             posts == IF s.work = "setup" \/ s.dead # "no" THEN c.posts ELSE c.posts + 1
             r == [c EXCEPT !.setup = "done", !.past = TRUE, !.posts = posts]
  <1>1. TabOK(t, c) /\ c.posts = s.posts /\ c.work = s.work /\ c.dead = s.dead /\ c \in TabStates
    <2>1. TabOK(t, c) /\ c.posts = s.posts /\ c.work = s.work /\ c.dead = s.dead
      BY ShowOK
    <2>2. QED
      BY <2>1 DEF TabOK
  <1>2. posts \in Nat /\ (s.work # "setup" /\ s.dead = "no" => posts # 0)
    BY <1>1 DEF TabStates
  <1>3. Greet(s) = r
    BY DEF Greet
  <1> HIDE DEF c, posts
  <1>4. /\ r \in TabStates /\ r.dead = c.dead /\ r.held = c.held /\ r.work = c.work /\ r.swap = c.swap
        /\ r.sdp = c.sdp /\ r.ice = c.ice /\ r.posts = posts
    BY <1>1, <1>2 DEF TabStates
  <1>5. QED
    BY <1>1, <1>2, <1>3, <1>4 DEF TabOK, Talks

LEMMA TakesOK ==
  ASSUME NEW t, NEW s, TabOK(t, s)
  PROVE  /\ TabOK(t, TakeMic(s)) /\ TabOK(t, TakeCamera(s))
         /\ Talks(TakeMic(s)) => Talks(s)
         /\ Talks(TakeCamera(s)) => Talks(s)
  <1>1. s \in TabStates
    BY DEF TabOK
  <1>2. CASE s.dead # "no"
    <2> DEFINE r == [s EXCEPT !.setup = "done"]
    <2>1. TakeMic(s) = r /\ TakeCamera(s) = r
      BY <1>2 DEF TakeMic, TakeCamera
    <2>2. /\ r \in TabStates /\ r.dead = s.dead /\ r.held = s.held /\ r.work = s.work /\ r.swap = s.swap
          /\ r.sdp = s.sdp /\ r.ice = s.ice /\ r.posts = s.posts /\ r.past = s.past
      BY <1>1 DEF TabStates
    <2>3. QED
      BY <2>1, <2>2 DEF TabOK, Talks
  <1>3. CASE s.dead = "no"
    <2>1. ASSUME NEW held \in SUBSET {"mic", "camera", "peer"}, NEW setup \in {"camera", "attach"}
          PROVE  LET r == [s EXCEPT !.held = held, !.setup = setup]
                 IN  TabOK(t, r) /\ (Talks(r) => Talks(s))
      <3> DEFINE r == [s EXCEPT !.held = held, !.setup = setup]
      <3>1. /\ r \in TabStates /\ r.dead = s.dead /\ r.work = s.work /\ r.swap = s.swap
            /\ r.sdp = s.sdp /\ r.ice = s.ice /\ r.posts = s.posts /\ r.past = s.past
        BY <1>1 DEF TabStates
      <3>2. QED
        BY <1>3, <3>1 DEF TabOK, Talks
    <2> DEFINE mic == s.held \cup {"mic"}
               camera == s.held \cup (IF Video THEN {"camera", "peer"} ELSE {"peer"})
    <2>2. mic \in SUBSET {"mic", "camera", "peer"} /\ camera \in SUBSET {"mic", "camera", "peer"}
      BY <1>1 DEF TabStates
    <2>3. /\ TakeMic(s) = [s EXCEPT !.held = mic, !.setup = "camera"]
          /\ TakeCamera(s) = [s EXCEPT !.held = camera, !.setup = "attach"]
      BY <1>3 DEF TakeMic, TakeCamera
    <2> HIDE DEF mic, camera
    <2>4. QED
      BY <2>1, <2>2, <2>3
  <1>4. QED
    BY <1>2, <1>3

LEMMA SetupInv ==
  ASSUME OverlayInv, NEW t \in Tabs, Setup(t) \/ Attach(t) PROVE OverlayInv'
  <1>1. PICK s : Becomes(t, s) /\ TabOK(t, s) /\ (t \in Incoming /\ Talks(s) => Talks(tab[t]))
    <2>1. TabOK(t, tab[t]) /\ (t \in Incoming => t # Outgoing)
      BY OverlayAssumption DEF OverlayInv
    <2>2. CASE Attach(t)
      BY <2>1, <2>2, GreetOK DEF Attach
    <2>3. CASE Becomes(t, TakeMic(tab[t]))
      BY <2>1, <2>3, TakesOK
    <2>4. CASE /\ tab[t].setup = "camera"
               /\ LET c == TakeCamera(tab[t])
                  IN  Becomes(t, IF t \in Incoming /\ c.setup = "attach" THEN Greet(c) ELSE c)
      <3> DEFINE c == TakeCamera(tab[t])
      <3>1. TabOK(t, c) /\ (Talks(c) => Talks(tab[t]))
        BY <2>1, TakesOK
      <3>2. Becomes(t, IF t \in Incoming /\ c.setup = "attach" THEN Greet(c) ELSE c)
        BY <2>4
      <3> HIDE DEF c
      <3>3. QED
        BY <2>1, <3>1, <3>2, GreetOK
    <2>5. QED
      BY <2>2, <2>3, <2>4 DEF Setup
  <1>2. UNCHANGED <<srv, ends>>
    BY DEF Setup, Attach
  <1>3. QED
    BY <1>1, <1>2, OneTab DEF OverlayInv

LEMMA FailingSetupInv ==
  ASSUME OverlayInv, NEW t \in Tabs, SetupFails(t) \/ AfterFailure(t) PROVE OverlayInv'
  <1>1. TabOK(t, tab[t]) /\ TabOK(t, Ended(tab[t])) /\ Ended(tab[t]).dead # "no"
    BY EndedOK DEF OverlayInv
  <1>2. ASSUME NEW s, TabOK(t, s), NEW setup \in {"failed", "done"}
        PROVE  LET r == [s EXCEPT !.setup = setup] IN TabOK(t, r) /\ (Talks(r) => Talks(s))
    <2> DEFINE r == [s EXCEPT !.setup = setup]
    <2>1. s \in TabStates
      BY <1>2 DEF TabOK
    <2>2. /\ r \in TabStates /\ r.dead = s.dead /\ r.past = s.past /\ r.posts = s.posts /\ r.held = s.held
          /\ r.work = s.work /\ r.swap = s.swap /\ r.sdp = s.sdp /\ r.ice = s.ice
      BY <2>1 DEF TabStates
    <2>3. QED
      BY <1>2, <2>2 DEF TabOK, Talks
  <1>3. CASE SetupFails(t)
    <2> DEFINE s == [tab[t] EXCEPT !.setup = "failed"]
    <2>1. TabOK(t, s) /\ (Talks(s) => Talks(tab[t]))
      BY <1>1, <1>2
    <2>2. Becomes(t, s) /\ srv' = srv /\ PostsEnd(t)
      BY <1>3 DEF SetupFails
    <2> HIDE DEF s
    <2>3. QED
      BY <2>1, <2>2, OneTab, EndsTyped DEF OverlayInv
  <1>4. CASE AfterFailure(t)
    <2> DEFINE e == Ended(tab[t])
               s == [e EXCEPT !.setup = "done"]
    <2>1. TabOK(t, s) /\ (Talks(s) => Talks(e))
      BY <1>1, <1>2
    <2>2. Becomes(t, s) /\ UNCHANGED <<srv, ends>> /\ ~Talks(e)
      BY <1>1, <1>4 DEF AfterFailure, Talks
    <2> HIDE DEF s, e
    <2>3. QED
      BY <2>1, <2>2, OneTab DEF OverlayInv
  <1>5. QED
    BY <1>3, <1>4

LEMMA StartsOK ==
  ASSUME NEW t, NEW s, TabOK(t, s)
  PROVE  /\ TabOK(t, Starts(s)) /\ (Talks(Starts(s)) <=> Talks(s)) /\ Starts(s) \in TabStates
         /\ Starts(s).sdp = s.sdp /\ Starts(s).ice = s.ice
  <1> DEFINE r == [s EXCEPT !.setup = "mic"]
  <1>1. s \in TabStates
    BY DEF TabOK
  <1>2. /\ r \in TabStates /\ r.dead = s.dead /\ r.past = s.past /\ r.posts = s.posts /\ r.held = s.held
        /\ r.work = s.work /\ r.swap = s.swap /\ r.sdp = s.sdp /\ r.ice = s.ice
    BY <1>1 DEF TabStates
  <1>3. Starts(s) = r \/ Starts(s) = s
    BY DEF Starts
  <1> HIDE DEF r
  <1>4. QED
    BY <1>1, <1>2, <1>3 DEF TabOK, Talks

LEMMA PressAcceptInv == ASSUME OverlayInv, NEW t \in Tabs, PressAccept(t) PROVE OverlayInv'
  <1> DEFINE s == tab[t]
             posts == s.posts + 1
             r == [s EXCEPT !.twice = TRUE, !.posts = posts]
  <1>1. TabOK(t, s) /\ s \in TabStates
    BY DEF OverlayInv, TabOK
  <1>2. posts \in Nat /\ posts # 0
    BY <1>1 DEF TabStates
  <1>3. UNCHANGED <<srv, ends>> /\ (Becomes(t, Starts(s)) \/ Becomes(t, r))
    BY DEF PressAccept
  <1> HIDE DEF s, posts
  <1>4. /\ r \in TabStates /\ r.dead = s.dead /\ r.held = s.held /\ r.posts = posts
        /\ r.work = s.work /\ r.swap = s.swap /\ r.sdp = s.sdp /\ r.ice = s.ice
    BY <1>1, <1>2 DEF TabStates
  <1>5. TabOK(t, r) /\ ~Talks(r)
    BY <1>1, <1>2, <1>4 DEF TabOK, Talks
  <1>6. TabOK(t, Starts(s)) /\ (Talks(Starts(s)) => Talks(tab[t]))
    BY <1>1, StartsOK DEF s
  <1> HIDE DEF r
  <1>7. QED
    BY <1>3, <1>5, <1>6, OneTab DEF OverlayInv

\* The answer to an accept: one at most finds the call ringing, when nobody talks yet.
LEMMA PostedOK ==
  ASSUME NEW t, NEW s, TabOK(t, s), s.posts > 0
  PROVE  TabOK(t, Posted(s)) /\ TabOK(t, Refused(s)) /\ ~Talks(Refused(s))
  <1> DEFINE posts == s.posts - 1
             r == [s EXCEPT !.posts = posts]
  <1>1. s \in TabStates
    BY DEF TabOK
  <1>2. posts \in Nat
    BY <1>1 DEF TabStates
  <1>3. Posted(s) = r
    BY DEF Posted
  <1> HIDE DEF posts
  <1>4. /\ r \in TabStates /\ r.dead = s.dead /\ r.held = s.held
        /\ r.work = s.work /\ r.swap = s.swap /\ r.sdp = s.sdp /\ r.ice = s.ice
    BY <1>1, <1>2 DEF TabStates
  <1>5. TabOK(t, r)
    BY <1>4 DEF TabOK
  <1>6. QED
    BY <1>3, <1>5, EndedOK DEF Refused

LEMMA AcceptCallInv == ASSUME OverlayInv, NEW t \in Tabs, AcceptCall(t) PROVE OverlayInv'
  <1>1. TabOK(t, tab[t]) /\ tab[t].posts > 0
    BY DEF OverlayInv, AcceptCall
  <1>2. TabOK(t, Posted(tab[t])) /\ TabOK(t, Refused(tab[t])) /\ ~Talks(Refused(tab[t]))
    BY <1>1, PostedOK
  <1>3. CASE Becomes(t, Refused(tab[t])) /\ UNCHANGED <<srv, ends>>
    BY <1>2, <1>3, OneTab DEF OverlayInv
  <1>4. CASE /\ srv = "ringing" /\ srv' = "active" /\ ends' = ends
             /\ \E s \in {Posted(tab[t]), Refused(tab[t])} : Emits("accept", Tabs, t, s)
    <2>1. srv' = "active" /\ ends' = ends
      BY <1>4
    <2>2. PICK s : TabOK(t, s) /\ Emits("accept", Tabs, t, s)
      BY <1>2, <1>4
    <2>3. ASSUME NEW x \in Tabs
          PROVE  TabOK(x, tab'[x]) /\ (x # t => (Talks(tab'[x]) <=> Talks(tab[x])))
      <3> DEFINE r == IF x = t THEN s ELSE tab[x]
      <3>1. TabOK(x, r) /\ (x # t => r = tab[x])
        BY <2>2 DEF OverlayInv
      <3>2. tab'[x] = Sent("accept", Tabs, r, x)
        BY <2>2 DEF Emits
      <3> HIDE DEF r
      <3>3. QED
        BY <3>1, <3>2, SentOK DEF Events
    <2>4. tab' \in [Tabs -> TabStates]
      BY <2>2, <2>3 DEF Emits, TabOK
    <2>5. \A x \in Incoming : ~Talks(tab[x])
      BY <1>4 DEF OverlayInv, OneAnswered
    <2>6. OneAnswered'
      BY <2>1, <2>3, <2>5 DEF OneAnswered, Tabs
    <2>7. QED
      BY <2>1, <2>3, <2>4, <2>6 DEF OverlayInv
  <1>5. QED
    BY <1>3, <1>4 DEF AcceptCall

LEMMA EndCallInv == ASSUME OverlayInv, NEW t \in Tabs, EndCall(t) PROVE OverlayInv'
  <1>1. CASE /\ srv' = "over" /\ ends' = {} /\ Emits("end", Tabs, t, tab[t])
    <2>1. \E event \in Events, to \in SUBSET Tabs : Emits(event, to, t, tab[t])
      BY <1>1 DEF Events
    <2>2. QED
      BY <1>1, <2>1, OneTab DEF OverlayInv
  <1>2. CASE ends' = ends \ {t} /\ UNCHANGED <<srv, tab>>
    BY <1>2, NoTab DEF OverlayInv
  <1>3. QED
    BY <1>1, <1>2 DEF EndCall

LEMMA FinishingInv ==
  ASSUME OverlayInv, NEW t \in Tabs,
         HandlerFails(t) \/ ConnectionFails(t) \/ RingTimeout(t) \/ HangUp(t)
  PROVE  OverlayInv'
  BY FinishInv DEF HandlerFails, ConnectionFails, RingTimeout, HangUp

LEMMA EndingInv ==
  ASSUME OverlayInv, NEW t \in Tabs, ConnectingTimeout(t) \/ BeatRefused(t) \/ Close(t) \/ Drop(t)
  PROVE  OverlayInv'
  <1>1. TabOK(t, tab[t]) /\ TabOK(t, Ended(tab[t])) /\ ~Talks(Ended(tab[t]))
    BY EndedOK DEF OverlayInv
  <1>2. TabOK(t, Closed(tab[t])) /\ ~Talks(Closed(tab[t]))
    BY <1>1, ClosedOK
  <1>3. CASE ConnectingTimeout(t)
    BY <1>1, <1>3, OneTab, EndsTyped DEF ConnectingTimeout, OverlayInv
  <1>4. CASE BeatRefused(t) \/ Close(t)
    BY <1>1, <1>2, <1>4, OneTab DEF BeatRefused, Close, OverlayInv
  <1>5. CASE Drop(t)
    <2> DEFINE s == [tab[t] EXCEPT !.inbox = <<>>]
    <2>1. TabOK(t, s) /\ (Talks(s) => Talks(tab[t]))
      <3>1. <<>> \in Seq(Events)
        OBVIOUS
      <3>2. QED
        BY <1>1, <3>1, InboxOK
    <2>2. UNCHANGED <<srv, ends>> /\ (Becomes(t, s) \/ Becomes(t, Ended(tab[t])))
      BY <1>5 DEF Drop
    <2> HIDE DEF s
    <2>3. QED
      BY <1>1, <2>1, <2>2, OneTab DEF OverlayInv
  <1>6. QED
    BY <1>3, <1>4, <1>5

\* The camera is changed: a dead overlay may be given one that was being attached,
\* and is marked as late.
LEMMA CameraInv ==
  ASSUME OverlayInv, NEW t \in Tabs,
         AskCamera(t) \/ CameraComes(t) \/ CameraReplaced(t) \/ CameraFails(t) \/ CameraOff(t)
  PROVE  OverlayInv'
  <1>1. UNCHANGED <<srv, ends>> /\ TabOK(t, tab[t]) /\ tab[t] \in TabStates
    BY DEF OverlayInv, TabOK, AskCamera, CameraComes, CameraReplaced, CameraFails, CameraOff
  <1>2. ASSUME NEW held \in SUBSET {"mic", "camera", "peer"},
               NEW swap \in {"no", "asking", "replacing", "late"},
               tab[t].dead # "no" => held = {} \/ (held = {"camera"} /\ swap = "late"),
               Becomes(t, [tab[t] EXCEPT !.held = held, !.swap = swap])
        PROVE  OverlayInv'
    <2> DEFINE old == tab[t]
               q == [old EXCEPT !.held = held]
               s == [q EXCEPT !.swap = swap]
    <2>1. Becomes(t, s) /\ old \in TabStates
      BY <1>1, <1>2
    <2> HIDE DEF old, q
    <2>2. /\ q \in TabStates /\ q.dead = old.dead /\ q.past = old.past /\ q.posts = old.posts
          /\ q.work = old.work /\ q.sdp = old.sdp /\ q.ice = old.ice /\ q.held = held
      <3> USE DEF q
      <3>1. q \in TabStates
        BY <2>1 DEF TabStates
      <3>2. QED
        BY <2>1, <3>1 DEF TabStates
    <2>3. /\ s \in TabStates /\ s.dead = q.dead /\ s.past = q.past /\ s.posts = q.posts
          /\ s.work = q.work /\ s.sdp = q.sdp /\ s.ice = q.ice /\ s.held = q.held /\ s.swap = swap
      <3>1. s \in TabStates
        BY <2>2 DEF TabStates
      <3>2. QED
        BY <2>2, <3>1 DEF TabStates
    <2>4. TabOK(t, old) /\ (old.dead # "no" => held = {} \/ (held = {"camera"} /\ swap = "late"))
      BY <1>1, <1>2 DEF old
    <2> HIDE DEF s
    <2>5. TabOK(t, s) /\ (Talks(s) => Talks(old))
      BY <2>2, <2>3, <2>4 DEF TabOK, Talks
    <2>6. QED
      BY <1>1, <2>1, <2>5, OneTab DEF OverlayInv, old
  <1> DEFINE h == tab[t].held
  <1>3. h \in SUBSET {"mic", "camera", "peer"}
        /\ [tab[t] EXCEPT !.swap = "asking"] = [tab[t] EXCEPT !.held = h, !.swap = "asking"]
        /\ [tab[t] EXCEPT !.swap = "replacing"] = [tab[t] EXCEPT !.held = h, !.swap = "replacing"]
        /\ [tab[t] EXCEPT !.swap = "no"] = [tab[t] EXCEPT !.held = h, !.swap = "no"]
    BY <1>1 DEF TabStates
  <1>4. CASE AskCamera(t)
    BY <1>2, <1>3, <1>4 DEF AskCamera, Alive
  <1>5. CASE CameraComes(t) \/ CameraFails(t)
    <2>1. tab[t].swap # "late"
      BY <1>5 DEF CameraComes, CameraFails
    <2>2. tab[t].dead # "no" => h = {}
      BY <1>1, <2>1 DEF TabOK
    <2>3. QED
      BY <1>2, <1>3, <1>5, <2>2 DEF CameraComes, CameraFails
  <1>6. CASE CameraReplaced(t)
    <2> DEFINE held == h \cup {"camera"}
               swap == IF tab[t].dead = "no" THEN "no" ELSE "late"
    <2>1. held \in SUBSET {"mic", "camera", "peer"} /\ swap \in {"no", "asking", "replacing", "late"}
      BY <1>3
    <2>2. tab[t].dead # "no" => held = {"camera"} /\ swap = "late"
      BY <1>1, <1>6 DEF CameraReplaced, TabOK
    <2>3. Becomes(t, [tab[t] EXCEPT !.held = held, !.swap = swap])
      BY <1>6 DEF CameraReplaced
    <2> HIDE DEF held, swap
    <2>4. QED
      BY <1>2, <2>1, <2>2, <2>3
  <1>7. CASE CameraOff(t)
    <2> DEFINE held == h \ {"camera"}
               swap == tab[t].swap
    <2>1. held \in SUBSET {"mic", "camera", "peer"} /\ swap \in {"no", "asking", "replacing", "late"}
      BY <1>1, <1>3 DEF TabStates
    <2>2. [tab[t] EXCEPT !.held = held] = [tab[t] EXCEPT !.held = held, !.swap = swap]
      BY <1>1 DEF TabStates
    <2>3. Becomes(t, [tab[t] EXCEPT !.held = held, !.swap = swap]) /\ tab[t].dead = "no"
      BY <1>7, <2>2 DEF CameraOff, Alive
    <2> HIDE DEF held, swap
    <2>4. QED
      BY <1>2, <2>1, <2>3
  <1>8. QED
    BY <1>4, <1>5, <1>6, <1>7

-----------------------------------------------------------------------------
(* Events and the negotiation.                                              *)

LEMMA WorkOK ==
  ASSUME NEW t, NEW s, TabOK(t, s),
         NEW work \in {"idle", "setup", "offering", "answering", "applying", "offer", "answer"},
         work \in {"setup", "offering"} => t = Outgoing,
         NEW r, r = [s EXCEPT !.work = work]
  PROVE  TabOK(t, r) /\ (Talks(r) <=> Talks(s))
  <1>1. s \in TabStates
    BY DEF TabOK
  <1>2. /\ r \in TabStates /\ r.dead = s.dead /\ r.past = s.past /\ r.posts = s.posts /\ r.held = s.held
        /\ r.swap = s.swap /\ r.work = work /\ r.sdp = s.sdp /\ r.ice = s.ice
    BY <1>1 DEF TabStates
  <1>3. QED
    BY <1>2 DEF TabOK, Talks

\* With the remote description the candidates that wait are added.
LEMMA BothOK ==
  ASSUME NEW t, NEW s, TabOK(t, s), NEW work \in {"idle", "answer"},
         NEW r, r = [s EXCEPT !.sdp = "both", !.ice = 0, !.work = work]
  PROVE  TabOK(t, r) /\ (Talks(r) <=> Talks(s))
  <1>1. s \in TabStates
    BY DEF TabOK
  <1>2. r \in TabStates
    BY <1>1 DEF TabStates
  <1>3. /\ r.dead = s.dead /\ r.past = s.past /\ r.posts = s.posts /\ r.held = s.held
        /\ r.swap = s.swap /\ r.work = work /\ r.sdp = "both" /\ r.ice = 0
    BY <1>1 DEF TabStates
  <1>4. QED
    BY <1>2, <1>3 DEF TabOK, Talks

LEMMA OfferOK ==
  ASSUME NEW s, TabOK(Outgoing, s), NEW r, r = [s EXCEPT !.sdp = "half", !.work = "offer"]
  PROVE  TabOK(Outgoing, r) /\ (Talks(r) <=> Talks(s))
  <1>1. s \in TabStates
    BY DEF TabOK
  <1>2. r \in TabStates
    BY <1>1 DEF TabStates
  <1>3. /\ r.dead = s.dead /\ r.past = s.past /\ r.posts = s.posts /\ r.held = s.held
        /\ r.swap = s.swap /\ r.work = "offer" /\ r.sdp = "half" /\ r.ice = s.ice
    BY <1>1 DEF TabStates
  <1>4. QED
    BY <1>2, <1>3 DEF TabOK, Talks

LEMMA IceOK ==
  ASSUME NEW t, NEW s, TabOK(t, s), s.sdp # "both", NEW r, r = [s EXCEPT !.ice = s.ice + 1]
  PROVE  TabOK(t, r) /\ (Talks(r) <=> Talks(s))
  <1> DEFINE ice == s.ice + 1
  <1>1. s \in TabStates /\ ice \in Nat /\ r = [s EXCEPT !.ice = ice]
    BY DEF TabOK, TabStates
  <1> HIDE DEF ice
  <1>2. /\ r \in TabStates /\ r.dead = s.dead /\ r.past = s.past /\ r.posts = s.posts /\ r.held = s.held
        /\ r.swap = s.swap /\ r.work = s.work /\ r.sdp = s.sdp
    BY <1>1 DEF TabStates
  <1>3. QED
    BY <1>2 DEF TabOK, Talks

LEMMA ToldOK ==
  ASSUME NEW t, NEW s, TabOK(t, s), s.dead # "no", NEW r, r = [s EXCEPT !.dead = "told"]
  PROVE  TabOK(t, r) /\ ~Talks(r)
  <1>1. s \in TabStates
    BY DEF TabOK
  <1>2. /\ r \in TabStates /\ r.dead = "told" /\ r.held = s.held
        /\ r.swap = s.swap /\ r.work = s.work /\ r.sdp = s.sdp /\ r.ice = s.ice
    BY <1>1 DEF TabStates
  <1>3. QED
    BY <1>2 DEF TabOK, Talks

LEMMA HandledOK ==
  ASSUME OverlayInv, NEW t \in Tabs, NEW s, TabOK(t, s), s.sdp = tab[t].sdp, NEW event \in Events,
         NEW r, r = Handled(t, event, s)
  PROVE  TabOK(t, r) /\ (Talks(r) => Talks(s))
  <1>1. CASE r = s
    BY <1>1
  <1>2. ASSUME NEW work \in {"answering", "applying"}, r = [s EXCEPT !.work = work]
        PROVE  TabOK(t, r) /\ (Talks(r) => Talks(s))
    BY <1>2, WorkOK
  <1>3. CASE event = "accept" /\ t = Outgoing
    <2> DEFINE b == Starts(s)
    <2>1. TabOK(t, b) /\ (Talks(b) <=> Talks(s))
      BY StartsOK
    <2>2. r = [b EXCEPT !.work = "setup"]
      BY <1>3 DEF Handled, OnAccept
    <2> HIDE DEF b
    <2>3. QED
      BY <1>3, <2>1, <2>2, WorkOK
  <1>4. CASE event = "accept" /\ t # Outgoing /\ ~s.past
    <2> DEFINE e == Ended(s)
    <2>1. TabOK(t, e) /\ e.dead # "no"
      BY EndedOK
    <2>2. r = [e EXCEPT !.dead = "told"]
      BY <1>4 DEF Handled, OnAccept
    <2> HIDE DEF e
    <2>3. QED
      BY <2>1, <2>2, ToldOK
  <1>5. CASE event = "end"
    BY <1>5, EndedOK DEF Handled
  <1>6. CASE event = "ice" /\ ~RemoteSet(t)
    <2>1. r = [s EXCEPT !.ice = s.ice + 1] /\ s.sdp # "both"
      BY <1>6 DEF Handled, OnCandidate, RemoteSet
    <2>2. QED
      BY <2>1, IceOK
  <1>7. CASE event = "accept" /\ t # Outgoing /\ s.past
    BY <1>1, <1>7 DEF Handled, OnAccept
  <1>8. CASE event = "offer" \/ event = "answer"
    <2>1. r = s \/ r = [s EXCEPT !.work = "answering"] \/ r = [s EXCEPT !.work = "applying"]
      BY <1>8 DEF Handled, OnOffer
    <2>2. QED
      BY <1>1, <1>2, <2>1
  <1>9. CASE event = "ice" /\ RemoteSet(t)
    BY <1>1, <1>9 DEF Handled, OnCandidate
  <1>10. CASE event = "invited"
    BY <1>1, <1>10 DEF Handled
  <1>11. QED
    BY <1>3, <1>4, <1>5, <1>6, <1>7, <1>8, <1>9, <1>10 DEF Events

LEMMA ReceiveInv == ASSUME OverlayInv, NEW t \in Tabs, Receive(t) PROVE OverlayInv'
  <1> DEFINE old == tab[t]
             event == Head(old.inbox)
             q == Tail(old.inbox)
             s == [old EXCEPT !.inbox = q]
  <1>1. TabOK(t, old) /\ old.inbox \in Seq(Events) /\ old.inbox # <<>> /\ old \in TabStates
    BY DEF OverlayInv, TabOK, TabStates, Receive
  <1>2. event \in Events /\ q \in Seq(Events)
    BY <1>1
  <1>3. UNCHANGED <<srv, ends>>
        /\ Becomes(t, IF event = "invited" /\ s.view = "none" THEN [s EXCEPT !.view = "ringing"]
                      ELSE IF Alive(t) THEN Handled(t, event, s) ELSE s)
    BY DEF Receive
  <1> HIDE DEF old, event, q
  <1>4. TabOK(t, s) /\ (Talks(s) => Talks(old)) /\ s.sdp = old.sdp
    <2>1. TabOK(t, s) /\ (Talks(s) => Talks(old))
      BY <1>1, <1>2, InboxOK
    <2>2. s.sdp = old.sdp
      BY <1>1 DEF TabStates
    <2>3. QED
      BY <2>1, <2>2
  <1> HIDE DEF s
  <1>5. CASE Becomes(t, [s EXCEPT !.view = "ringing"])
    <2> DEFINE r == [s EXCEPT !.view = "ringing"]
    <2>1. TabOK(t, r) /\ (Talks(r) <=> Talks(s))
      BY <1>4, ShownOK
    <2> HIDE DEF r
    <2>2. Becomes(t, r)
      BY <1>5 DEF r
    <2>3. QED
      BY <1>3, <1>4, <2>1, <2>2, OneTab DEF OverlayInv, old
  <1>6. CASE Becomes(t, Handled(t, event, s))
    <2>1. TabOK(t, Handled(t, event, s)) /\ (Talks(Handled(t, event, s)) => Talks(s))
      BY <1>2, <1>4, HandledOK DEF old
    <2>2. QED
      BY <1>3, <1>4, <1>6, <2>1, OneTab DEF OverlayInv, old
  <1>7. CASE Becomes(t, s)
    BY <1>3, <1>4, <1>7, OneTab DEF OverlayInv, old
  <1>8. QED
    BY <1>3, <1>5, <1>6, <1>7

LEMMA NegotiateInv == ASSUME OverlayInv, NEW t \in Tabs, Negotiate(t) PROVE OverlayInv'
  <1> DEFINE s == tab[t]
  <1>1. TabOK(t, s) /\ UNCHANGED <<srv, ends>>
    BY DEF OverlayInv, Negotiate
  <1>2. PICK r : /\ Becomes(t, r)
                 /\ \/ s.work = "setup" /\ (r = [s EXCEPT !.work = "offering"] \/ r = [s EXCEPT !.work = "idle"])
                    \/ s.work = "offering" /\ r = [s EXCEPT !.sdp = "half", !.work = "offer"]
                    \/ r = [s EXCEPT !.sdp = "both", !.ice = 0, !.work = "answer"]
                    \/ r = [s EXCEPT !.sdp = "both", !.ice = 0, !.work = "idle"]
    BY DEF Negotiate, Answered
  <1> HIDE DEF s
  <1>3. s.work \in {"setup", "offering"} => t = Outgoing
    BY <1>1 DEF TabOK
  <1>4. TabOK(t, r) /\ (Talks(r) => Talks(s))
    <2>1. CASE s.work = "setup" /\ (r = [s EXCEPT !.work = "offering"] \/ r = [s EXCEPT !.work = "idle"])
      BY <1>1, <1>3, <2>1, WorkOK
    <2>2. CASE s.work = "offering" /\ r = [s EXCEPT !.sdp = "half", !.work = "offer"]
      BY <1>1, <1>3, <2>2, OfferOK
    <2>3. CASE r = [s EXCEPT !.sdp = "both", !.ice = 0, !.work = "answer"]
      BY <1>1, <2>3, BothOK
    <2>4. CASE r = [s EXCEPT !.sdp = "both", !.ice = 0, !.work = "idle"]
      BY <1>1, <2>4, BothOK
    <2>5. QED
      BY <1>2, <2>1, <2>2, <2>3, <2>4
  <1>5. QED
    BY <1>1, <1>2, <1>4, OneTab DEF OverlayInv, s

LEMMA PassingInv ==
  ASSUME OverlayInv, NEW t \in Tabs, PassOn(t) \/ Candidate(t) \/ Connected(t) PROVE OverlayInv'
  <1>1. TabOK(t, tab[t]) /\ tab[t] \in TabStates /\ Others(t) \in SUBSET Tabs /\ UNCHANGED <<srv, ends>>
    BY DEF OverlayInv, TabOK, Others, Tabs, PassOn, Candidate, Connected
  <1>2. CASE PassOn(t)
    <2> DEFINE r == [tab[t] EXCEPT !.work = "idle"]
    <2>1. TabOK(t, r) /\ (Talks(r) <=> Talks(tab[t]))
      BY <1>1, WorkOK
    <2> HIDE DEF r
    <2>2. \E event \in Events, to \in SUBSET Tabs : Emits(event, to, t, r)
      BY <1>1, <1>2 DEF PassOn, Events, r
    <2>3. QED
      BY <1>1, <2>1, <2>2, OneTab DEF OverlayInv
  <1>3. CASE Candidate(t)
    <2> DEFINE r == [tab[t] EXCEPT !.found = TRUE]
    <2>1. /\ r \in TabStates /\ r.dead = tab[t].dead /\ r.past = tab[t].past /\ r.posts = tab[t].posts
          /\ r.held = tab[t].held /\ r.swap = tab[t].swap /\ r.work = tab[t].work
          /\ r.sdp = tab[t].sdp /\ r.ice = tab[t].ice
      BY <1>1 DEF TabStates
    <2> HIDE DEF r
    <2>2. TabOK(t, r) /\ (Talks(r) <=> Talks(tab[t]))
      BY <1>1, <2>1 DEF TabOK, Talks
    <2>3. \E event \in Events, to \in SUBSET Tabs : Emits(event, to, t, r)
      BY <1>1, <1>3 DEF Candidate, Events, r
    <2>4. QED
      BY <1>1, <2>2, <2>3, OneTab DEF OverlayInv
  <1>4. CASE Connected(t)
    <2> DEFINE c == Show(tab[t], "active")
               r == [c EXCEPT !.linked = TRUE]
    <2>1. TabOK(t, c) /\ (Talks(c) => Talks(tab[t]))
      <3>1. TabOK(t, c) /\ c.dead = tab[t].dead /\ c.past = tab[t].past /\ c.posts = tab[t].posts
        BY <1>1, ShowOK
      <3>2. QED
        BY <3>1 DEF Talks
    <2>2. Becomes(t, r)
      BY <1>4 DEF Connected
    <2> HIDE DEF c
    <2>3. c \in TabStates
      BY <2>1 DEF TabOK
    <2>4. /\ r \in TabStates /\ r.dead = c.dead /\ r.past = c.past /\ r.posts = c.posts
          /\ r.held = c.held /\ r.swap = c.swap /\ r.work = c.work
          /\ r.sdp = c.sdp /\ r.ice = c.ice
      BY <2>3 DEF TabStates
    <2> HIDE DEF r
    <2>5. TabOK(t, r) /\ (Talks(r) <=> Talks(c))
      BY <2>1, <2>4 DEF TabOK, Talks
    <2>6. QED
      BY <1>1, <2>1, <2>2, <2>5, OneTab DEF OverlayInv
  <1>5. QED
    BY <1>2, <1>3, <1>4

-----------------------------------------------------------------------------

LEMMA OverlayStarts == OverlayInit => OverlayInv
  <1>1. NewTab \in TabStates
    BY NewOK DEF TabOK
  <1>2. QED
    BY <1>1, NewOK DEF OverlayInit, OverlayInv, OneAnswered, Tabs

LEMMA OverlayStep == OverlayInv /\ [OverlayNext]_ovars => OverlayInv'
  <1> SUFFICES ASSUME OverlayInv, [OverlayNext]_ovars PROVE OverlayInv'
    OBVIOUS
  <1>1. CASE UNCHANGED ovars
    BY <1>1 DEF ovars, OverlayInv, OneAnswered
  <1>2. CASE StartCall \/ Invite \/ Mount \/ Lapse
    BY <1>2, StartingInv
  <1>3. ASSUME NEW t \in Tabs, User(t) \/ Media(t) \/ Signals(t) \/ Timers(t) \/ Drop(t)
        PROVE  OverlayInv'
    <2>1. CASE User(t)
      BY <2>1, PressAcceptInv, FinishingInv, EndingInv, CameraInv DEF User
    <2>2. CASE Media(t)
      BY <2>2, SetupInv, FailingSetupInv, CameraInv, PassingInv, FinishingInv DEF Media
    <2>3. CASE Signals(t)
      BY <2>3, AcceptCallInv, EndCallInv, ReceiveInv, NegotiateInv, PassingInv, FinishingInv DEF Signals
    <2>4. CASE Timers(t) \/ Drop(t)
      BY <2>4, FinishingInv, EndingInv DEF Timers
    <2>5. QED
      BY <1>3, <2>1, <2>2, <2>3, <2>4
  <1>4. QED
    BY <1>1, <1>2, <1>3 DEF OverlayNext

LEMMA OverlayAlways == OverlaySpec => []OverlayInv
  BY OverlayStarts, OverlayStep, PTL DEF OverlaySpec

\* Whatever a tab was waiting for when its call ended, a permission, a request or
\* the peer connection, it keeps no capture and no connection (cleanup, setup,
\* toggleVideo): only a camera that was being attached then may stay on.
THEOREM OverlayReleases == OverlaySpec => []DeadHoldsNothing
  <1>1. OverlayInv => DeadHoldsNothing
    BY DEF OverlayInv, TabOK, DeadHoldsNothing
  <1>2. QED
    BY <1>1, OverlayAlways, PTL

\* However many tabs answer at once, one is accepted, and the others wait for the
\* refusal that ends them (accept, the call's "accept" action).
THEOREM OverlayOneTab == OverlaySpec => []OneTabTalks
  <1>1. OverlayInv => OneTabTalks
    <2> SUFFICES ASSUME OverlayInv, NEW t \in Incoming, NEW o \in Incoming, t # o, Beats(t), Beats(o)
                 PROVE  tab[t].posts > 0 \/ tab[o].posts > 0
      BY DEF OneTabTalks
    <2>1. ~Talks(tab[t]) \/ ~Talks(tab[o])
      BY DEF OverlayInv, OneAnswered
    <2>2. tab[t].posts \in Nat /\ tab[o].posts \in Nat
      BY DEF OverlayInv, TabStates, Tabs
    <2>3. QED
      BY <2>1, <2>2 DEF Talks, Beats, Alive
  <1>2. QED
    BY <1>1, OverlayAlways, PTL

\* A candidate that came before the description is added with it, and none that
\* comes later waits (handleSignal's offer, answer and ice).
THEOREM OverlayAddsCandidates == OverlaySpec => []NoCandidateWaits
  <1>1. OverlayInv => NoCandidateWaits
    BY OverlayAssumption DEF OverlayInv, TabOK, NoCandidateWaits, RemoteSet
  <1>2. QED
    BY <1>1, OverlayAlways, PTL
=============================================================================
