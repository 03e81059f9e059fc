----------------------------- MODULE LabSession -----------------------------
(***************************************************************************)
(* The networking lab in the browser (lib/webrtc/lab-session.ts,            *)
(* components/video/lab.tsx, lib/webrtc/media.ts): each tab has one session *)
(* after another, all of which write into the one view of the tab.  A       *)
(* session handles its messages one at a time and waits for its peer        *)
(* connection meanwhile; leaving, failing and joining again do not wait.    *)
(***************************************************************************)
EXTENDS LabRoom

CONSTANTS Tabs,            \* numbered, too
          Muters,          \* bound: the tabs whose microphone is muted and unmuted
          Tricklers,       \* bound: the sessions that send a candidate
          MaxPending       \* candidates that may wait: 128

ASSUME LabSessionAssumption ==
    Tabs \subseteq Nat /\ None \notin Tabs /\ Muters \subseteq Tabs
    /\ Tricklers \subseteq Sessions /\ MaxPending \in Nat

VARIABLES session,         \* the fields of each session
          view,            \* LabView of each tab
          current          \* session.current of each tab

lvars == <<rvars, session, view, current>>

\* media: whether it is asked for or held; peer: its descriptions; busy: what the
\* handler waits for; sent: whether it has sent its candidate.
NewSession(t) == [tab |-> t, stopped |-> FALSE, media |-> "asked", muted |-> FALSE,
                  socket |-> "none", peer |-> "none", channel |-> FALSE, ice |-> 0,
                  busy |-> "no", sent |-> FALSE]
Unused == [NewSession(None) EXCEPT !.media = "none", !.stopped = TRUE]

InitialView == [phase |-> "idle", local |-> None, shown |-> {}, muted |-> FALSE]
Final  == {"idle", "ended", "error"}
Active(t) == view[t].phase \notin Final

Running(i) == ~session[i].stopped
Patch(i, v) == view' = [view EXCEPT ![session[i].tab] = v]
Phase(i, phase) == Patch(i, [view[session[i].tab] EXCEPT !.phase = phase])
Is(i, s) == session' = [session EXCEPT ![i] = s]
\* send(): into the socket, whose other end may have stopped reading.
Sent(i, type) == IF conn[i] \in {"leaving", "closed"} THEN up[i] ELSE Append(up[i], type)
Send(i, type) == up' = [up EXCEPT ![i] = Sent(i, type)]

-----------------------------------------------------------------------------
(* Faulty variants, for the properties to detect: none is part of LabNext. *)

\* media that come late are used
UsedAnyway(i) == TRUE

\* ends with the pictures on the screen
PictureKept(t, phase) == [view[t] EXCEPT !.phase = phase]

-----------------------------------------------------------------------------
LabInit ==
    /\ RoomInit
    /\ session = [i \in Sessions |-> Unused]
    /\ view = [t \in Tabs |-> InitialView] /\ current = [t \in Tabs |-> None]

(* close() and fail() *)

Closed(s) == [s EXCEPT !.stopped = TRUE, !.media = IF @ = "held" THEN "none" ELSE @,
                       !.socket = "none", !.peer = "none", !.channel = FALSE, !.ice = 0]
Bye(i) == IF session[i].socket = "open" THEN Sent(i, "leave") ELSE up[i]

FinalView(t, phase) == [InitialView EXCEPT !.phase = phase]

\* The session ends, and the view says how.
Ends(i, phase) ==
    /\ Is(i, Closed(session[i]))
    /\ up' = [up EXCEPT ![i] = Bye(i)] /\ down' = [down EXCEPT ![i] = <<>>]
    /\ Patch(i, FinalView(session[i].tab, phase))

Leave(t) ==
    /\ Active(t) /\ current[t] # None /\ Running(current[t])
    /\ Ends(current[t], "ended")
    /\ UNCHANGED <<room, present, conn, mail, faults, current>>

\* join(): the button is disabled by the next rendering only.  Sessions start in
\* order, the first in the first tab.
Join(t, i) ==
    /\ session[i] = Unused /\ \A j \in Sessions : j < i => session[j] # Unused
    /\ t <= i
    /\ ~Active(t) \/ view[t].phase = "acquiring"
    /\ LET old == current[t] IN
          /\ session' = [j \in Sessions |-> IF j = i THEN NewSession(t)
                                            ELSE IF j = old THEN Closed(session[j]) ELSE session[j]]
          /\ up' = [j \in Sessions |-> IF j = old THEN Bye(j) ELSE up[j]]
          /\ down' = [j \in Sessions |-> IF j = old THEN <<>> ELSE down[j]]
    /\ current' = [current EXCEPT ![t] = i]
    /\ view' = [view EXCEPT ![t] = [InitialView EXCEPT !.phase = "acquiring"]]
    /\ UNCHANGED <<room, present, conn, mail, faults>>

(* start() *)

\* What comes late is stopped at once.
InTime(i) == Running(i)
MediaComes(i) ==
    /\ session[i].media = "asked"
    /\ IF InTime(i)
       THEN /\ Is(i, [session[i] EXCEPT !.media = "held", !.socket = "connecting"])
            /\ Patch(i, [view[session[i].tab] EXCEPT !.local = i, !.phase = "connecting"])
       ELSE Is(i, [session[i] EXCEPT !.media = "none"]) /\ UNCHANGED view
    /\ UNCHANGED <<rvars, current>>

MediaRefused(i) ==
    /\ session[i].media = "asked"
    /\ IF Running(i) THEN /\ session' = [session EXCEPT ![i] = [Closed(@) EXCEPT !.media = "none"]]
                          /\ Patch(i, FinalView(session[i].tab, "error"))
       ELSE Is(i, [session[i] EXCEPT !.media = "none"]) /\ UNCHANGED view
    /\ UNCHANGED <<rvars, current>>

SocketOpens(i) ==
    /\ session[i].socket = "connecting"
    /\ Is(i, [session[i] EXCEPT !.socket = "open"])
    /\ Becomes(i, "open") /\ Send(i, "join")
    /\ UNCHANGED <<room, present, mail, down, faults, view, current>>

\* It fails, or the server closes it and what came before is in the chain.
SocketCloses(i) ==
    /\ \/ (session[i].socket = "connecting" /\ faults < MaxFaults)
       \/ /\ session[i].socket = "open" /\ conn[i] = "closed"
          /\ down[i] = <<>> \/ session[i].busy # "no"
    /\ Ends(i, "error")
    /\ faults' = IF session[i].socket = "connecting" THEN faults + 1 ELSE faults
    /\ UNCHANGED <<room, present, conn, mail, current>>

\* Every ten seconds; those that find room and presence change nothing and are
\* left out.
Beat(i) ==
    /\ session[i].socket = "open" /\ \A n \in DOMAIN up[i] : up[i][n] # "heartbeat"
    /\ conn[i] = "serving"
    /\ ~room.live \/ i \notin present
    /\ Send(i, "heartbeat")
    /\ UNCHANGED <<room, present, conn, mail, down, faults, session, view, current>>

(* receive() *)

\* What ends the session at once: the room is gone, a refusal, a message before the
\* peer connection is there, one candidate too many.
Too(i, type) ==
    \/ type \in {"offerer", "offer", "answer", "ice"} /\ session[i].peer = "none"
    \/ type = "ice" /\ session[i].peer \in {"new", "local"} /\ session[i].ice >= MaxPending
    \/ type = "error"

\* bindChannel: by the one who offers, and with the connection by the other.
Bound(s) == [s EXCEPT !.channel = TRUE]

\* What the others do to a session before it waits.
Handled(s, type) ==
    CASE type = "ready"    -> [s EXCEPT !.peer = "new"]
      [] type = "offerer"  -> [Bound(s) EXCEPT !.busy = "offer"]
      [] type = "answerer" -> s
      [] type = "offer"    -> [s EXCEPT !.busy = "answer"]
      [] type = "answer"   -> [s EXCEPT !.busy = "remote"]
      [] type = "ice"      -> [s EXCEPT !.ice = IF s.peer = "both" THEN @ ELSE @ + 1]
PhaseAt(i, type) ==
    CASE type = "ready" -> "waiting" [] type \in {"offerer", "answerer"} -> "negotiating"
      [] OTHER -> view[session[i].tab].phase

\* The next of the chain.
Receive(i) ==
    /\ Running(i) /\ session[i].busy = "no" /\ down[i] # <<>>
    /\ LET type == Head(down[i]) IN
          IF type = "ended" THEN Ends(i, "ended")
          ELSE IF Too(i, type) THEN Ends(i, "error")
          ELSE /\ down' = [down EXCEPT ![i] = Tail(@)]
               /\ Is(i, Handled(session[i], type)) /\ Phase(i, PhaseAt(i, type))
               /\ UNCHANGED up
    /\ UNCHANGED <<room, present, conn, mail, faults, current>>

\* The remote description is set, and with it the candidates that wait.
Remote(s) == [s EXCEPT !.peer = "both", !.ice = 0]

\* The peer connection is done with it; a session that has ended sends nothing.
Settles(i) ==
    /\ session[i].busy # "no"
    /\ LET s == [session[i] EXCEPT !.busy = "no"] IN
       \/ /\ Running(i)
          /\ Is(i, CASE s.peer = "new" /\ session[i].busy = "offer" -> [s EXCEPT !.peer = "local"]
                     [] OTHER -> Remote(s))
          /\ IF session[i].busy = "remote" THEN UNCHANGED up ELSE Send(i, session[i].busy)
          /\ UNCHANGED view
       \/ ~Running(i) /\ Is(i, s) /\ UNCHANGED <<up, view>>
    /\ UNCHANGED <<room, present, conn, mail, down, faults, current>>

\* A candidate, as soon as the local description is being set.
Candidate(i) ==
    /\ \/ session[i].peer \in {"local", "both"}
       \/ session[i].peer = "new" /\ session[i].busy = "offer"
    /\ i \in Tricklers /\ ~session[i].sent
    /\ Is(i, [session[i] EXCEPT !.sent = TRUE])
    /\ Send(i, "ice")
    /\ UNCHANGED <<room, present, conn, mail, down, faults, view, current>>

(* The peer connection, once both descriptions are set: its state, the stream of
   the peer, and a line of the chat of either. *)

Connected(i) ==
    /\ session[i].peer = "both"
    /\ Is(i, Bound(session[i]))
    /\ Patch(i, [view[session[i].tab] EXCEPT !.phase = "connected", !.shown = @ \cup {i}])
    /\ UNCHANGED <<rvars, current>>

\* The connection fails, or what the peer connection was asked for does.
ConnectionFails(i) ==
    /\ session[i].peer = "both" \/ session[i].busy # "no"
    /\ faults < MaxFaults /\ Running(i)
    /\ Ends(i, "error")
    /\ faults' = faults + 1
    /\ UNCHANGED <<room, present, conn, mail, current>>

Mute(t) ==
    /\ t \in Muters /\ Active(t) /\ current[t] # None /\ session[current[t]].media = "held"
    /\ LET s == session[current[t]] IN
          /\ Is(current[t], [s EXCEPT !.muted = ~@])
          /\ view' = [view EXCEPT ![t].muted = ~s.muted]
    /\ UNCHANGED <<rvars, current>>

User(t) == Leave(t) \/ Mute(t) \/ \E i \in Sessions : Join(t, i)
Media(i) == MediaComes(i) \/ MediaRefused(i)
Network(i) == SocketOpens(i) \/ SocketCloses(i) \/ Beat(i)
PeerConnection(i) == Candidate(i) \/ Connected(i) \/ ConnectionFails(i)
OfRoom == RoomNext /\ UNCHANGED <<session, view, current>>

LabNext == \/ OfRoom \/ \E t \in Tabs : User(t)
           \/ \E i \in Sessions : Media(i) \/ Network(i) \/ Receive(i) \/ Settles(i) \/ PeerConnection(i)

LabSpec == LabInit /\ [][LabNext]_lvars

\* The server runs its handlers, keys expire, the browser hands its messages over,
\* finishes what the peer connection was asked for, and keeps its interval.
FairLabSpec ==
    /\ LabSpec /\ WF_lvars(RoomExpires /\ UNCHANGED <<session, view, current>>)
    /\ \A i \in Sessions :
          /\ WF_lvars(Handling(i) /\ UNCHANGED <<session, view, current>>)
          /\ WF_lvars(Forward(i) /\ UNCHANGED <<session, view, current>>)
          /\ WF_lvars(Receive(i)) /\ WF_lvars(Settles(i))
          /\ WF_lvars(Beat(i)) /\ WF_lvars(SocketOpens(i) \/ SocketCloses(i))

-----------------------------------------------------------------------------

\* A session that has ended holds neither capture nor connection, however late they
\* come, and in each tab only the current one has not ended.
EndedHoldsNothing ==
    \A i \in Sessions :
        /\ session[i].stopped => /\ session[i].media # "held" /\ session[i].socket = "none"
                                 /\ session[i].peer = "none" /\ ~session[i].channel
        /\ Running(i) => session[i].tab \in Tabs /\ current[session[i].tab] = i

\* Picture, chat and phase are those of the current session, and gone with it.
ViewIsOfTheSession ==
    \A t \in Tabs :
        LET i == current[t] IN
        IF i # None /\ Running(i)
        THEN /\ Active(t) /\ view[t].shown \subseteq {i} /\ view[t].muted = session[i].muted
             /\ view[t].local = IF session[i].media = "held" THEN i ELSE None
        ELSE view[t] = [InitialView EXCEPT !.phase = view[t].phase] /\ ~Active(t)

\* No message needs a peer connection before the session has made it.
PeerIsThereInTime ==
    \A i \in Sessions :
        Running(i) /\ down[i] # <<>> /\ session[i].peer = "none" =>
            Head(down[i]) \in {"ready", "error", "ended"}

\* The one who is left learns it, even when the room is not told.
Left == room.b # None /\ \E i \in {room.a, room.b} : session[i].stopped
EndIsLearned == Left ~> \A i \in {room.a, room.b} \ {None} : session[i].stopped
=============================================================================
