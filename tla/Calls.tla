-------------------------------- MODULE Calls --------------------------------
(***************************************************************************)
(* Calls between connected users (internal/communication/calls.go): the     *)
(* call's hash and the busy lease of each party in Redis, the invitation    *)
(* with its notification in PostgreSQL, and the requests about a call.      *)
(* A request is several calls to Redis and PostgreSQL: each is a step of    *)
(* its own, and other requests, removals and the clock act between them.    *)
(*                                                                         *)
(* Left out: rate limits and malformed requests, which return before they   *)
(* change anything.                                                        *)
(***************************************************************************)
EXTENDS Integers, FiniteSets

CONSTANTS Users, NoUser,
          Calls, NoCall,
          ringTTL,         \* 45 s, in ticks: an unanswered call
          talkTTL,         \* 75 s: an answered call without a heartbeat
          slack            \* 5 s: what a lease lasts longer than its call

ASSUME CallsAssumption ==
    /\ NoUser \notin Users /\ NoCall \notin Calls
    /\ ringTTL \in Nat \ {0} /\ talkTTL \in Nat \ {0} /\ slack \in Nat \ {0}

VARIABLES call,            \* communication:call:<id>
          busy,            \* communication:busy:<user>, with its TTL
          links,           \* the pairs with a connection that peer() accepts
          reqs             \* the requests under way

cvars == <<call, busy, links, reqs>>

\* "signal" is every request that has no script: offer, answer, ice, media.
\* step: the call to Redis or PostgreSQL that comes next.
Types == {"invite", "accept", "end", "heartbeat", "signal"}
Steps == {"peer", "script", "insert", "undo"}
Requests == [type : Types, on : Calls \cup {NoCall}, caller : Users, callee : Users,
             active : BOOLEAN, step : Steps]

Free == [call |-> NoCall, ttl |-> 0]
Gone == [state |-> "none", caller |-> NoUser, callee |-> NoUser, ttl |-> 0]

Live(c)     == call[c].state # "none"
Parties(c)  == {call[c].caller, call[c].callee}
Both(r)     == {r.caller, r.callee}
Lease(c, n) == [call |-> c, ttl |-> n + slack]

\* randomID never gives an id twice.
FreshCall(c) ==
    /\ ~Live(c)
    /\ \A u \in Users : busy[u].call # c
    /\ \A r \in reqs : r.on # c

Leaves(r)     == reqs' = reqs \ {r}
GoesTo(r, r2) == reqs' = (reqs \ {r}) \cup {r2}

-----------------------------------------------------------------------------
(* Faulty variants, for the properties to detect: none is part of CallsNext. *)

\* asks only whether the callee is free
ReserveCallee(r, c) ==
    /\ r \in reqs /\ r.type = "invite" /\ r.step = "script"
    /\ FreshCall(c)
    /\ busy[r.callee] = Free
    /\ call' = [call EXCEPT ![c] = [state |-> "ringing", caller |-> r.caller,
                                    callee |-> r.callee, ttl |-> ringTTL]]
    /\ busy' = [u \in Users |-> IF u \in Both(r) THEN Lease(c, ringTTL) ELSE busy[u]]
    /\ GoesTo(r, [r EXCEPT !.on = c, !.step = "insert"])
    /\ UNCHANGED links

\* renews by what the request has read of the call's state
BeatUnchecked(r) ==
    /\ r \in reqs /\ r.type = "heartbeat" /\ r.step = "script"
    /\ call' = [call EXCEPT ![r.on].ttl = IF Live(r.on) THEN talkTTL ELSE 0]
    /\ busy' = [u \in Users |->
                   IF u \in Both(r) /\ busy[u].call \in {r.on, NoCall}
                   THEN Lease(r.on, talkTTL) ELSE busy[u]]
    /\ Leaves(r)
    /\ UNCHANGED links

\* looks for a connection when the call starts only
CheckNobody(r) ==
    /\ r \in reqs /\ r.step = "peer"
    /\ IF r.type = "heartbeat" /\ ~r.active THEN Leaves(r)
       ELSE GoesTo(r, [r EXCEPT !.step = "script"])
    /\ UNCHANGED <<call, busy, links>>

\* renews the call but not the leases
AcceptCallOnly(r) ==
    /\ r \in reqs /\ r.type = "accept" /\ r.step = "script"
    /\ call[r.on].state = "ringing"
    /\ call' = [call EXCEPT ![r.on].state = "active", ![r.on].ttl = talkTTL]
    /\ Leaves(r)
    /\ UNCHANGED <<busy, links>>

-----------------------------------------------------------------------------
CallsInit ==
    /\ call = [c \in Calls |-> Gone]
    /\ busy = [u \in Users |-> Free]
    /\ links = {pair \in SUBSET Users : Cardinality(pair) = 2}
    /\ reqs = {}

\* invite: the caller's connection is looked up, ...
AskInvite(u, v) ==
    /\ u # v /\ {u, v} \in links
    /\ reqs' = reqs \cup {[type |-> "invite", on |-> NoCall, caller |-> u, callee |-> v,
                           active |-> FALSE, step |-> "script"]}
    /\ UNCHANGED <<call, busy, links>>

\* ... both parties are reserved, or the request is refused, ...
Reserve(r, c) ==
    /\ r \in reqs /\ r.type = "invite" /\ r.step = "script"
    /\ FreshCall(c)
    /\ \A u \in Both(r) : busy[u] = Free
    /\ call' = [call EXCEPT ![c] = [state |-> "ringing", caller |-> r.caller,
                                    callee |-> r.callee, ttl |-> ringTTL]]
    /\ busy' = [u \in Users |-> IF u \in Both(r) THEN Lease(c, ringTTL) ELSE busy[u]]
    /\ GoesTo(r, [r EXCEPT !.on = c, !.step = "insert"])
    /\ UNCHANGED links

\* ... the notification is written, and the two parties told the call's id, ...
Insert(r) ==
    /\ r \in reqs /\ r.step = "insert"
    /\ Leaves(r) \/ GoesTo(r, [r EXCEPT !.step = "undo"])
    /\ UNCHANGED <<call, busy, links>>

\* ... or the three keys deleted, whatever they hold by then.
Undo(r) ==
    /\ r \in reqs /\ r.step = "undo"
    /\ call' = [call EXCEPT ![r.on] = Gone]
    /\ busy' = [u \in Users |-> IF u \in Both(r) THEN Free ELSE busy[u]]
    /\ Leaves(r)
    /\ UNCHANGED links

\* callAction: a party who knows the call's id asks, and its hash is read.
\* Only the callee's accept gets further than the others'.
Ask(u, c, type) ==
    /\ Live(c) /\ u \in Parties(c)
    /\ \A r \in reqs : r.type = "invite" => r.on # c
    /\ type = "accept" => u = call[c].callee
    /\ reqs' = reqs \cup {[type |-> type, on |-> c,
                           caller |-> call[c].caller, callee |-> call[c].callee,
                           active |-> call[c].state = "active", step |-> "peer"]}
    /\ UNCHANGED <<call, busy, links>>

\* Any request is an end when the connection is removed or blocked.
CheckPeer(r) ==
    /\ r \in reqs /\ r.step = "peer"
    /\ IF Both(r) \notin links THEN GoesTo(r, [r EXCEPT !.type = "end", !.step = "script"])
       ELSE IF r.type = "heartbeat" /\ ~r.active THEN Leaves(r)
       ELSE GoesTo(r, [r EXCEPT !.step = "script"])
    /\ UNCHANGED <<call, busy, links>>

\* The script of accept renews the leases without looking whose they are.
Accept(r) ==
    /\ r \in reqs /\ r.type = "accept" /\ r.step = "script"
    /\ call[r.on].state = "ringing"
    /\ call' = [call EXCEPT ![r.on].state = "active", ![r.on].ttl = talkTTL]
    /\ busy' = [u \in Users |-> IF u \in Both(r) /\ busy[u] # Free
                                THEN Lease(busy[u].call, talkTTL) ELSE busy[u]]
    /\ Leaves(r)
    /\ UNCHANGED links

End(r) ==
    /\ r \in reqs /\ r.type = "end" /\ r.step = "script"
    /\ call' = [call EXCEPT ![r.on] = Gone]
    /\ busy' = [u \in Users |-> IF u \in Both(r) /\ busy[u].call = r.on
                                THEN Free ELSE busy[u]]
    /\ Leaves(r)
    /\ UNCHANGED links

\* The script of heartbeat renews a lease of this call, or makes a missing one.
Beat(r) ==
    /\ r \in reqs /\ r.type = "heartbeat" /\ r.step = "script"
    /\ call[r.on].state = "active"
    /\ call' = [call EXCEPT ![r.on].ttl = talkTTL]
    /\ busy' = [u \in Users |->
                   IF u \in Both(r) /\ busy[u].call \in {r.on, NoCall}
                   THEN Lease(r.on, talkTTL) ELSE busy[u]]
    /\ Leaves(r)
    /\ UNCHANGED links

\* A request that its script refuses, that has no script, that fails, or whose
\* client or server is gone, changes nothing more.
Stop(r) ==
    /\ r \in reqs
    /\ Leaves(r)
    /\ UNCHANGED <<call, busy, links>>

\* social.Repository.Remove or Block; a connection that ended stays ended.
Unlink(pair) ==
    /\ pair \in links
    /\ links' = links \ {pair}
    /\ UNCHANGED <<call, busy, reqs>>

\* Keys that run out.
AfterTick(key, missing) == IF key.ttl <= 1 THEN missing ELSE [key EXCEPT !.ttl = @ - 1]

Tick ==
    /\ call' = [c \in Calls |-> AfterTick(call[c], Gone)]
    /\ busy' = [u \in Users |-> AfterTick(busy[u], Free)]
    /\ UNCHANGED <<links, reqs>>

\* Writing a notification, or giving it up, takes far less than a lease.
Inserting == \E r \in reqs : r.step \in {"insert", "undo"}
Clock == ~Inserting /\ Tick

Serve(r) ==
    \/ \E c \in Calls : Reserve(r, c)
    \/ Insert(r) \/ Undo(r) \/ CheckPeer(r) \/ Accept(r) \/ End(r) \/ Beat(r) \/ Stop(r)

CallsNext ==
    \/ \E u, v \in Users : AskInvite(u, v)
    \/ \E u \in Users, c \in Calls, type \in Types \ {"invite"} : Ask(u, c, type)
    \/ \E r \in reqs : Serve(r)
    \/ \E pair \in links : Unlink(pair)
    \/ Clock

CallsSpec == CallsInit /\ [][CallsNext]_cvars

\* The clock goes on whenever no invitation is half-way, and none is for ever;
\* nothing is assumed of clients.
Settle(c) == \E r \in reqs : r.on = c /\ (Insert(r) \/ Undo(r))
FairCallsSpec ==
    /\ CallsSpec
    /\ SF_cvars(Clock)
    /\ \A c \in Calls : WF_cvars(Settle(c))

-----------------------------------------------------------------------------
CallKeys == [state : {"none", "ringing", "active"}, caller : Users \cup {NoUser},
             callee : Users \cup {NoUser}, ttl : 0..ringTTL + talkTTL]
BusyKeys == [call : Calls \cup {NoCall}, ttl : 0..ringTTL + talkTTL + slack]

\* The keys' shape; a request about a call names its parties.
CallsTypeOK ==
    /\ call \in [Calls -> CallKeys]
    /\ busy \in [Users -> BusyKeys]
    /\ links \subseteq SUBSET Users
    /\ reqs \subseteq Requests
    /\ \A c \in Calls : IF Live(c) THEN Parties(c) \subseteq Users /\ call[c].ttl > 0
                        ELSE call[c] = Gone
    /\ \A u \in Users : busy[u].ttl > 0 <=> busy[u].call # NoCall

\* The busy leases do what they are for: however invitations, answers, ends,
\* heartbeats and lapsing keys overlap, nobody is in two calls.
OneCallEach ==
    \A c, d \in Calls : Live(c) /\ Live(d) /\ c # d => Parties(c) \cap Parties(d) = {}

\* Both parties of a call hold its lease, and longer than the call lasts.
LeaseOutlivesCall ==
    \A c \in Calls : Live(c) =>
        \A u \in Parties(c) : busy[u].call = c /\ busy[u].ttl > call[c].ttl

\* Nobody stays busy with a call that is over for longer than the slack: not
\* by a late heartbeat or answer, nor by the end of another call.
FreedInTime ==
    \A u \in Users, c \in Calls :
        busy[u].call = c /\ busy[u].ttl > slack => Live(c) /\ u \in Parties(c)

\* docs/architecture/communication.md:17: a call of a removed or blocked
\* connection ends, even if both clients go on sending heartbeats.
UnlinkedCallEnds ==
    \A c \in Calls : (Live(c) /\ Parties(c) \notin links) ~> ~Live(c)
=============================================================================
