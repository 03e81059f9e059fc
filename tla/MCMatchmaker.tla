----------------------------- MODULE MCMatchmaker -----------------------------
(* Matchmaker for TLC. *)
EXTENDS Matchmaker, TLC

Symmetry == Permutations(Users) \cup Permutations(Conns)

Asks(intent, interests) == [intent |-> intent, languages |-> {"en"}, interests |-> interests]

\* Two intents that exclude each other.
Intents == {Asks(intent, {}) : intent \in {"dating", "gaming"}}

\* Interests that a user shares none, one or both of, and two intents that go
\* together.
Interests == {Asks("gaming", {}), Asks("surprise_me", {"ai"}), Asks("gaming", {"ai", "art"})}

\* What a user asked for is of no account once they have left the queue.
WaitingWants ==
    <<presence, queue, userMatch, match, recent, deadlines, graces, line, search, blocked,
      friends, [u \in {v \in Users : queue[v] # NoConn} |-> wants[u]]>>

\* At most two searches at a time.
TwoSearches == Cardinality({uc \in Users \X Conns : ~Free(uc[1], uc[2])}) <= 2
=============================================================================
