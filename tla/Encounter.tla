------------------------------ MODULE Encounter ------------------------------
(***************************************************************************)
(* What an encounter is to the two people in it, whatever keys, schedules,  *)
(* sockets and clocks the server keeps for it: two people meet; the minute  *)
(* runs out unless both want more; when both want to stay in touch a        *)
(* connection may come of it; and at any time the encounter may end.        *)
(* EncounterStore implements it.                                            *)
(***************************************************************************)

CONSTANTS Users, Matches

VARIABLE encounter         \* each encounter

\* over: the minute is; extend and connect: who wants more, and to stay in touch.
Of(parties, state, over, extend, connect, created) ==
    [parties |-> parties, state |-> state, over |-> over,
     extend |-> extend, connect |-> connect, created |-> created]

NoEncounter == Of({}, "missing", FALSE, {}, {}, FALSE)

TakesVotes(e) == e.state = "extended" \/ (e.state = "active" /\ ~e.over)

-----------------------------------------------------------------------------
(* What may become, in one step, of the encounter e: it becomes f.          *)

Meet(e, f) ==
    /\ e = NoEncounter
    /\ \E u, v \in Users : u # v /\ f = Of({u, v}, "active", FALSE, {}, {}, FALSE)

WantMore(e, f) ==
    /\ e.state = "active" /\ TakesVotes(e)
    /\ \E u \in e.parties :
          LET both == e.parties \subseteq e.extend \cup {u} IN
          f = Of(e.parties, IF both THEN "extended" ELSE "active", e.over,
                 e.extend \cup {u}, e.connect, e.created)

WantContact(e, f) ==
    /\ TakesVotes(e) /\ ~e.created
    /\ \E u \in e.parties :
          f = Of(e.parties, e.state, e.over, e.extend, e.connect \cup {u}, e.created)

Link(e, f) ==
    /\ e # NoEncounter /\ e.parties \subseteq e.connect
    /\ f = Of(e.parties, e.state, e.over, e.extend, e.connect, TRUE)

RunOut(e, f) ==
    /\ e.state = "active"
    /\ f = Of(e.parties, e.state, TRUE, e.extend, e.connect, e.created)

End(e, f) == f = NoEncounter

EncounterStep(e, f) ==
    \/ Meet(e, f) \/ WantMore(e, f) \/ WantContact(e, f)
    \/ Link(e, f) \/ RunOut(e, f) \/ End(e, f)

-----------------------------------------------------------------------------
EncounterInit == encounter = [m \in Matches |-> NoEncounter]

\* Encounters are independent; the clock runs for all of them at once.
EncounterNext ==
    \A m \in Matches :
        encounter'[m] = encounter[m] \/ EncounterStep(encounter[m], encounter'[m])

EncounterSpec == EncounterInit /\ [][EncounterNext]_encounter
=============================================================================
