-------------------------- MODULE MCDiscoverySocket --------------------------
(* DiscoverySocket for TLC. *)
EXTENDS DiscoverySocket, FiniteSets, TLC

Symmetry == Permutations(Users) \cup Permutations(Conns) \cup Permutations(Matches)

\* As in MCEncounterStore, recent guards no claim that is not also made with
\* allowRecent = TRUE; connect votes guard nothing but connect votes; and a dead
\* socket without presence is as good as closed.
Relevant ==
    <<presence, queue, userMatch, deadlines, graces,
      [m \in Matches |-> [match[m] EXCEPT !.connect = {}, !.created = FALSE]],
      [u \in Users |-> [c \in Conns |->
          IF ~Runs(u, c) /\ ~Speaks(u, c) THEN Closed ELSE sock[u][c]]]>>

\* At most three handlers at a time: one user's sockets overlap, not both users'.
ThreeHandlers ==
    Cardinality({uc \in Users \X Conns : Runs(uc[1], uc[2])}) <= 3
=============================================================================
