------------------------------- MODULE LabRoom -------------------------------
(***************************************************************************)
(* One room of the networking lab on the server (signaling/lab.go): two     *)
(* slots in Redis, taken and left by scripts, a key that says that a        *)
(* connection is present, and publications that are forwarded to the        *)
(* sockets.  A handler may fail or die, and a publication may be lost.      *)
(***************************************************************************)
EXTENDS Naturals, Sequences, FiniteSets

CONSTANTS Sessions,        \* the connections there may be, numbered
          None,            \* no connection
          MaxFaults        \* bound: failures of the server

ASSUME LabRoomAssumption ==
    Sessions \subseteq Nat /\ None \notin Sessions /\ MaxFaults \in Nat

VARIABLES room,            \* its key, and its slots, kept for the properties
          present,         \* lab:presence: of these exists
          conn,            \* where the handler of each socket is
          mail,            \* published to each and not forwarded
          up, down,        \* in each socket, from and to the browser
          faults

rvars == <<room, present, conn, mail, up, down, faults>>

Signals == {"offer", "answer", "ice"}

Peer(i) == IF i = room.a THEN room.b ELSE IF i = room.b THEN room.a ELSE None
Becomes(i, at) == conn' = [conn EXCEPT ![i] = at]
\* The handler stops reading; what is published to it is lost.
Stops(i, at) == Becomes(i, at) /\ up' = [up EXCEPT ![i] = <<>>]
Tell(i, type) == down' = [down EXCEPT ![i] = Append(@, type)]
Hears(i) == conn[i] \in {"subscribed", "claimed", "serving"}
Unread(i) == [mail EXCEPT ![i] = <<>>]
Publish(box, i, m) == IF i # None /\ Hears(i) THEN [box EXCEPT ![i] = Append(@, m)] ELSE box
FaultsMore == faults < MaxFaults /\ faults' = faults + 1

-----------------------------------------------------------------------------
(* Faulty variants, for the properties to detect: none is part of RoomNext. *)

\* forwards before it has said that it is ready
AtOnce(i) == conn[i] \in {"claimed", "serving"}

\* believes every heartbeat
Believed(i) == TRUE

-----------------------------------------------------------------------------
RoomInit ==
    /\ room = [live |-> TRUE, a |-> None, b |-> None] /\ present = {}
    /\ conn = [i \in Sessions |-> "none"]
    /\ mail = [i \in Sessions |-> <<>>] /\ up = mail /\ down = mail
    /\ faults = 0

\* The handler reads room.join and subscribes before it claims.
Subscribe(i) ==
    /\ conn[i] = "open" /\ up[i] # <<>>
    /\ IF Head(up[i]) = "join"
       THEN Becomes(i, "subscribed") /\ up' = [up EXCEPT ![i] = Tail(@)]
       ELSE Stops(i, "closed")
    /\ UNCHANGED <<room, present, mail, down, faults>>

\* joinScript
Joinable == /\ room.live /\ room.b = None
            /\ room.a = None \/ room.a \in present
Claim(i) ==
    /\ conn[i] = "subscribed"
    /\ IF Joinable
       THEN /\ Becomes(i, "claimed") /\ present' = present \cup {i}
            /\ IF room.a = None
               THEN room' = [room EXCEPT !.a = i] /\ UNCHANGED mail
               ELSE /\ room' = [room EXCEPT !.b = i]
                    /\ mail' = Publish(Publish(mail, room.a, "offerer"), i, "answerer")
            /\ UNCHANGED <<up, down>>
       ELSE /\ Stops(i, "closed") /\ Tell(i, "error")
            /\ UNCHANGED <<room, present, mail>>
    /\ UNCHANGED faults

\* connection.ready, and from then on what is published.
Ready(i) ==
    /\ conn[i] = "claimed"
    /\ Becomes(i, "serving") /\ Tell(i, "ready")
    /\ UNCHANGED <<room, present, mail, up, faults>>

Forwards(i) == conn[i] = "serving"
Forward(i) ==
    /\ Forwards(i) /\ mail[i] # <<>>
    /\ down' = [down EXCEPT ![i] = Append(@, Head(mail[i]))]
    /\ mail' = [mail EXCEPT ![i] = Tail(@)]
    /\ UNCHANGED <<room, present, conn, up, faults>>

\* signalScript
MaySignal(i) == room.live /\ Peer(i) # None /\ {i, Peer(i)} \subseteq present

\* The read loop: a heartbeat renews the presence, if there still is one, and
\* learns that the room is gone; a signal goes to the peer or ends the socket.
RoomStands(i) == room.live
Serve(i) ==
    /\ conn[i] = "serving" /\ up[i] # <<>>
    /\ LET m == Head(up[i])
           goesOn == up' = [up EXCEPT ![i] = Tail(@)] /\ UNCHANGED conn
       IN
          \/ /\ m \in {"leave"} \/ (m = "heartbeat" /\ i \notin present)
             /\ Stops(i, "leaving") /\ UNCHANGED <<mail, down>>
          \/ /\ m = "heartbeat" /\ i \in present
             /\ IF RoomStands(i) THEN goesOn /\ UNCHANGED down
                ELSE Tell(i, "ended") /\ Stops(i, "leaving")
             /\ UNCHANGED mail
          \/ /\ m \in Signals
             /\ IF MaySignal(i) THEN mail' = Publish(mail, Peer(i), m) /\ goesOn /\ UNCHANGED down
                ELSE Tell(i, "error") /\ Stops(i, "leaving") /\ UNCHANGED mail
    /\ UNCHANGED <<room, present, faults>>

\* The handler returns: leaveScript, whose failure is ignored, and the socket.
LeaveRoom(i) ==
    /\ conn[i] = "leaving"
    /\ Becomes(i, "closed")
    /\ \/ /\ room.live /\ i \in {room.a, room.b}
          /\ room' = [room EXCEPT !.live = FALSE] /\ present' = present \ {i}
          /\ mail' = Publish(Unread(i), Peer(i), "ended")
          /\ UNCHANGED faults
       \/ /\ ~room.live \/ i \notin {room.a, room.b}
          /\ mail' = Unread(i) /\ UNCHANGED <<room, present, faults>>
       \/ FaultsMore /\ mail' = Unread(i) /\ UNCHANGED <<room, present>>
    /\ UNCHANGED <<up, down>>

\* A timeout of 35 seconds, the limiter, an error of Redis or of a write.
HandlerFails(i) ==
    /\ conn[i] \in {"claimed", "serving"} /\ FaultsMore
    /\ Stops(i, "leaving")
    /\ UNCHANGED <<room, present, mail, down>>

\* The server stops: nobody runs leaveScript.
ServerDies(i) ==
    /\ conn[i] \in {"open", "subscribed", "claimed", "serving", "leaving"} /\ FaultsMore
    /\ Stops(i, "closed") /\ mail' = Unread(i)
    /\ UNCHANGED <<room, present, down>>

MailLost(i) ==
    /\ mail[i] # <<>> /\ FaultsMore
    /\ mail' = [mail EXCEPT ![i] = Tail(@)]
    /\ UNCHANGED <<room, present, conn, up, down>>

\* Ten minutes.
RoomExpires ==
    /\ room.live
    /\ room' = [room EXCEPT !.live = FALSE]
    /\ UNCHANGED <<present, conn, mail, up, down, faults>>

\* Forty seconds without a heartbeat.
PresenceExpires(i) ==
    /\ i \in present
    /\ IF conn[i] = "closed" THEN UNCHANGED faults ELSE FaultsMore
    /\ present' = present \ {i}
    /\ UNCHANGED <<room, conn, mail, up, down>>

Handling(i) == Subscribe(i) \/ Claim(i) \/ Ready(i) \/ Serve(i) \/ LeaveRoom(i)
Faults(i)   == HandlerFails(i) \/ ServerDies(i) \/ MailLost(i) \/ PresenceExpires(i)
RoomNext == RoomExpires \/ \E i \in Sessions : Handling(i) \/ Forward(i) \/ Faults(i)
=============================================================================
