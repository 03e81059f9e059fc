-------------------------- MODULE MCEncounterStore --------------------------
(* EncounterStore for TLC. *)
EXTENDS EncounterStore, TLC

\* Users, sockets and encounters are interchangeable.
Symmetry == Permutations(Users) \cup Permutations(Conns) \cup Permutations(Matches)

\* recent guards only the claims made with allowRecent = FALSE, and the same
\* claims are made with TRUE: what it holds changes no other key.
WithoutRecent == <<presence, queue, userMatch, match, deadlines, graces>>
=============================================================================
