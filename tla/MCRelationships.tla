-------------------------- MODULE MCRelationships --------------------------
(* Relationships for TLC. *)
EXTENDS Relationships, FiniteSets, TLC

Symmetry == Permutations(Users)

\* Claims here are made with allowRecent = TRUE: recent changes nothing.  What
\* is remembered of an encounter matters to a vote that is on its way and to a
\* connection that was made; no vote comes to an encounter that is gone.
WithoutRecent ==
    <<presence, queue, userMatch, match, deadlines, graces, blocks, rows, votes, asks,
      {<<m, met[m]>> : m \in
          {n \in Matches : \/ rows[n].outcome = "connected"
                           \/ \E u \in Users, c \in Conns : votes[u][c].match = n}}>>

\* At most two requests in the middle of their steps at a time.
TwoInFlight ==
    Cardinality({u \in Users : asks[u] # NoAsk})
      + Cardinality({uc \in Users \X Conns : votes[uc[1]][uc[2]] # NoVote}) <= 2
=============================================================================
