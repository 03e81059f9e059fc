-------------------------- MODULE LabSessionProofs --------------------------
(***************************************************************************)
(* Theorems about the networking lab in the browser: what a session holds,  *)
(* what its tab shows, and in which order its messages come.                *)
(***************************************************************************)
EXTENDS LabSession, SequenceTheorems, TLAPS

Conns == {"none", "open", "subscribed", "claimed", "serving", "leaving", "closed"}
Tellings == {"ready", "error", "ended", "offerer", "answerer"} \cup Signals
Sayings == {"join", "leave", "heartbeat"} \cup Signals

RoomTypeOK ==
    /\ room \in [live : BOOLEAN, a : Sessions \cup {None}, b : Sessions \cup {None}]
    /\ present \in SUBSET Sessions
    /\ conn \in [Sessions -> Conns]
    /\ mail \in [Sessions -> Seq(Tellings)]
    /\ up \in [Sessions -> Seq(Sayings)]
    /\ down \in [Sessions -> Seq(Tellings)]
    /\ faults \in Nat

SessionStates ==
    [tab : Tabs \cup {None}, stopped : BOOLEAN, media : {"asked", "held", "none"},
     muted : BOOLEAN, socket : {"none", "connecting", "open"},
     peer : {"none", "new", "local", "both"}, channel : BOOLEAN, ice : Nat,
     busy : {"no", "offer", "answer", "remote"}, sent : BOOLEAN]

Views == [phase : Final \cup {"acquiring", "connecting", "waiting", "negotiating", "connected"},
          local : Sessions \cup {None}, shown : SUBSET Sessions, muted : BOOLEAN]

LabTypeOK ==
    /\ session \in [Sessions -> SessionStates]
    /\ view \in [Tabs -> Views]
    /\ current \in [Tabs -> Sessions \cup {None}]

\* What the fields of one session say of each other.
Consistent(s) ==
    /\ s.tab = None => s = Unused
    /\ s.stopped => s.media # "held" /\ s.socket = "none" /\ s.peer = "none" /\ ~s.channel
    /\ ~s.stopped /\ s.media = "asked" => s.socket = "none"
    /\ ~s.stopped /\ s.socket # "open" => s.peer = "none"
    /\ ~s.stopped /\ s.peer = "none" => s.busy = "no"

\* What a view shows while the current session of its tab is i, in the state s.
Shows(v, i, s) ==
    IF s.stopped
    THEN v = [InitialView EXCEPT !.phase = v.phase] /\ v.phase \in Final
    ELSE /\ v.phase \notin Final /\ v.shown \subseteq {i} /\ v.muted = s.muted
         /\ v.local = IF s.media = "held" THEN i ELSE None

SessionOK(i) ==
    /\ Consistent(session[i])
    /\ Running(i) => current[session[i].tab] = i
TabOK(t) ==
    IF current[t] = None
    THEN view[t] = [InitialView EXCEPT !.phase = view[t].phase] /\ view[t].phase \in Final
    ELSE session[current[t]].tab = t /\ Shows(view[t], current[t], session[current[t]])

\* Nothing is told to a browser before "ready", or instead of it "error".
Order(s, at, told) ==
    /\ s.tab = None \/ (~s.stopped /\ s.socket # "open") => at = "none"
    /\ at \in {"none", "open", "subscribed", "claimed"} => told = <<>>
    /\ ~s.stopped /\ s.peer = "none" /\ at = "serving" => told # <<>> /\ Head(told) = "ready"
    /\ ~s.stopped /\ s.peer = "none" /\ at \in {"leaving", "closed"} /\ told # <<>> =>
          Head(told) \in {"ready", "error"}
OrderOK(i) == Order(session[i], conn[i], down[i])

ViewInv == LabTypeOK /\ (\A i \in Sessions : SessionOK(i)) /\ (\A t \in Tabs : TabOK(t))
LabInv == RoomTypeOK /\ ViewInv /\ (\A i \in Sessions : OrderOK(i))

-----------------------------------------------------------------------------
(* The room.                                                                *)

LEMMA HeadOfAppend ==
  ASSUME NEW S, NEW q \in Seq(S), NEW x \in S
  PROVE  /\ Append(q, x) \in Seq(S) /\ Append(q, x) # <<>>
         /\ Head(Append(q, x)) = IF q = <<>> THEN x ELSE Head(q)
  BY AppendProperties, HeadTailAppend

LEMMA TailOfSeq ==
  ASSUME NEW S, NEW q \in Seq(S), q # <<>> PROVE Tail(q) \in Seq(S) /\ Head(q) \in S
  OBVIOUS

\* A message more, a message less, or none.
LEMMA Boxes ==
  ASSUME NEW S, NEW f \in [Sessions -> Seq(S)], NEW i \in Sessions
  PROVE  /\ \A x \in S : [f EXCEPT ![i] = Append(@, x)] \in [Sessions -> Seq(S)]
         /\ [f EXCEPT ![i] = <<>>] \in [Sessions -> Seq(S)]
         /\ f[i] # <<>> => [f EXCEPT ![i] = Tail(@)] \in [Sessions -> Seq(S)]
  BY HeadOfAppend, TailOfSeq, EmptySeq

LEMMA BoxesOfRoom ==
  ASSUME RoomTypeOK, NEW i \in Sessions
  PROVE  /\ up[i] # <<>> => [up EXCEPT ![i] = Tail(@)] \in [Sessions -> Seq(Sayings)]
         /\ [up EXCEPT ![i] = <<>>] \in [Sessions -> Seq(Sayings)]
         /\ mail[i] # <<>> => [mail EXCEPT ![i] = Tail(@)] \in [Sessions -> Seq(Tellings)]
         /\ \A m \in Tellings : [down EXCEPT ![i] = Append(@, m)] \in [Sessions -> Seq(Tellings)]
  <1>1. up \in [Sessions -> Seq(Sayings)]
    BY DEF RoomTypeOK
  <1>2. mail \in [Sessions -> Seq(Tellings)]
    BY DEF RoomTypeOK
  <1>3. down \in [Sessions -> Seq(Tellings)]
    BY DEF RoomTypeOK
  <1>4. QED
    BY <1>1, <1>2, <1>3, Boxes

LEMMA RoomStarts == ASSUME RoomInit PROVE RoomTypeOK
  <1>1. room \in [live : BOOLEAN, a : Sessions \cup {None}, b : Sessions \cup {None}]
    BY DEF RoomInit
  <1>2. conn \in [Sessions -> Conns]
    BY DEF RoomInit, Conns
  <1>3. mail \in [Sessions -> Seq(Tellings)] /\ down \in [Sessions -> Seq(Tellings)]
    BY EmptySeq DEF RoomInit
  <1>4. up \in [Sessions -> Seq(Sayings)]
    BY EmptySeq DEF RoomInit
  <1>5. QED
    BY <1>1, <1>2, <1>3, <1>4 DEF RoomInit, RoomTypeOK

LEMMA UnreadMail == ASSUME RoomTypeOK, NEW i \in Sessions PROVE Unread(i) \in [Sessions -> Seq(Tellings)]
  BY Boxes DEF RoomTypeOK, Unread

LEMMA PublishedMail ==
  ASSUME NEW box \in [Sessions -> Seq(Tellings)], NEW i \in Sessions \cup {None}, NEW m \in Tellings
  PROVE  Publish(box, i, m) \in [Sessions -> Seq(Tellings)]
  <1>1. CASE Publish(box, i, m) = box
    BY <1>1
  <1>2. CASE i \in Sessions /\ Publish(box, i, m) = [box EXCEPT ![i] = Append(@, m)]
    BY <1>2, Boxes
  <1>3. QED
    BY <1>1, <1>2 DEF Publish

LEMMA PeerIsASession == ASSUME RoomTypeOK, NEW i \in Sessions PROVE Peer(i) \in Sessions \cup {None}
  BY DEF RoomTypeOK, Peer

\* Every step of the server keeps the types, and the order of what is told.
LEMMA RoomStep ==
  ASSUME RoomTypeOK, RoomNext PROVE RoomTypeOK'
  <1>1. ASSUME NEW i \in Sessions, Subscribe(i) PROVE RoomTypeOK'
    <2>1. up[i] # <<>> /\ (up' = [up EXCEPT ![i] = Tail(@)] \/ up' = [up EXCEPT ![i] = <<>>])
      BY <1>1 DEF Subscribe, Stops
    <2>2. up' \in [Sessions -> Seq(Sayings)]
      BY <2>1, BoxesOfRoom
    <2>3. conn' \in [Sessions -> Conns]
      BY <1>1 DEF Subscribe, Becomes, Stops, RoomTypeOK, Conns
    <2>4. QED
      BY <1>1, <2>2, <2>3 DEF RoomTypeOK, Subscribe
  <1>2. ASSUME NEW i \in Sessions, Claim(i) PROVE RoomTypeOK'
    <2>1. CASE ~Joinable
      <3>1. up' = [up EXCEPT ![i] = <<>>] /\ down' = [down EXCEPT ![i] = Append(@, "error")]
        BY <1>2, <2>1 DEF Claim, Stops, Tell
      <3>2. up' \in [Sessions -> Seq(Sayings)]
        BY <3>1, BoxesOfRoom DEF RoomTypeOK
      <3>3. down' \in [Sessions -> Seq(Tellings)]
        BY <3>1, BoxesOfRoom DEF RoomTypeOK, Tellings
      <3>4. QED
        BY <1>2, <2>1, <3>2, <3>3 DEF RoomTypeOK, Claim, Becomes, Stops, Conns
    <2>2. CASE Joinable
      <3>1. room' \in [live : BOOLEAN, a : Sessions \cup {None}, b : Sessions \cup {None}]
        BY <1>2, <2>2 DEF Claim, RoomTypeOK
      <3>2. mail' \in [Sessions -> Seq(Tellings)]
        <4>1. Publish(mail, room.a, "offerer") \in [Sessions -> Seq(Tellings)]
          BY PublishedMail DEF RoomTypeOK, Tellings
        <4>2. Publish(Publish(mail, room.a, "offerer"), i, "answerer") \in [Sessions -> Seq(Tellings)]
          BY <4>1, PublishedMail DEF Tellings
        <4>3. QED
          BY <1>2, <2>2, <4>2 DEF Claim, RoomTypeOK
      <3>3. QED
        BY <1>2, <2>2, <3>1, <3>2 DEF RoomTypeOK, Claim, Becomes, Conns
    <2>3. QED
      BY <2>1, <2>2
  <1>3. ASSUME NEW i \in Sessions, Ready(i) PROVE RoomTypeOK'
    BY <1>3, BoxesOfRoom DEF RoomTypeOK, Ready, Becomes, Tell, Conns, Tellings
  <1>4. ASSUME NEW i \in Sessions, Forward(i) PROVE RoomTypeOK'
    <2>1. Head(mail[i]) \in Tellings
      BY <1>4, TailOfSeq DEF RoomTypeOK, Forward
    <2>2. down' \in [Sessions -> Seq(Tellings)] /\ mail' \in [Sessions -> Seq(Tellings)]
      BY <1>4, <2>1, BoxesOfRoom DEF RoomTypeOK, Forward
    <2>3. QED
      BY <1>4, <2>2 DEF RoomTypeOK, Forward
  <1>5. ASSUME NEW i \in Sessions, Serve(i) PROVE RoomTypeOK'
    <2>1. mail' \in [Sessions -> Seq(Tellings)]
      <3>1. mail' = mail \/ (Head(up[i]) \in Signals /\ mail' = Publish(mail, Peer(i), Head(up[i])))
        BY <1>5 DEF Serve
      <3>2. QED
        <4>1. mail \in [Sessions -> Seq(Tellings)] /\ Signals \subseteq Tellings
          BY DEF RoomTypeOK, Tellings
        <4>2. QED
          BY <3>1, <4>1, PublishedMail, PeerIsASession
    <2>2. up' \in [Sessions -> Seq(Sayings)]
      <3>1. up[i] # <<>> /\ (up' = [up EXCEPT ![i] = Tail(@)] \/ up' = [up EXCEPT ![i] = <<>>])
        BY <1>5 DEF Serve, Stops
      <3>2. QED
        BY <3>1, BoxesOfRoom
    <2>3. down' \in [Sessions -> Seq(Tellings)]
      <3>1. \/ down' = down \/ down' = [down EXCEPT ![i] = Append(@, "ended")]
            \/ down' = [down EXCEPT ![i] = Append(@, "error")]
        BY <1>5 DEF Serve, Tell
      <3>2. [down EXCEPT ![i] = Append(@, "ended")] \in [Sessions -> Seq(Tellings)]
        BY BoxesOfRoom DEF Tellings
      <3>3. [down EXCEPT ![i] = Append(@, "error")] \in [Sessions -> Seq(Tellings)]
        BY BoxesOfRoom DEF Tellings
      <3>4. QED
        BY <3>1, <3>2, <3>3 DEF RoomTypeOK
    <2>4. conn' \in [Sessions -> Conns]
      BY <1>5 DEF Serve, Stops, Becomes, RoomTypeOK, Conns
    <2>5. QED
      BY <1>5, <2>1, <2>2, <2>3, <2>4 DEF Serve, RoomTypeOK
  <1>6. ASSUME NEW i \in Sessions, LeaveRoom(i) PROVE RoomTypeOK'
    <2>1. mail' \in [Sessions -> Seq(Tellings)]
      BY <1>6, PublishedMail, PeerIsASession, UnreadMail DEF LeaveRoom, Tellings
    <2>2. conn' \in [Sessions -> Conns]
      BY <1>6 DEF LeaveRoom, Becomes, RoomTypeOK, Conns
    <2>3. room' \in [live : BOOLEAN, a : Sessions \cup {None}, b : Sessions \cup {None}]
      BY <1>6 DEF LeaveRoom, RoomTypeOK
    <2>4. QED
      <3>1. present' \in SUBSET Sessions
        BY <1>6 DEF LeaveRoom, RoomTypeOK
      <3>2. faults' \in Nat
        BY <1>6 DEF LeaveRoom, RoomTypeOK, FaultsMore
      <3>3. up' = up /\ down' = down
        BY <1>6 DEF LeaveRoom
      <3>4. QED
        BY <2>1, <2>2, <2>3, <3>1, <3>2, <3>3 DEF RoomTypeOK
  <1>7. ASSUME NEW i \in Sessions, Faults(i) PROVE RoomTypeOK'
    <2>1. CASE HandlerFails(i)
      BY <2>1, BoxesOfRoom DEF HandlerFails, RoomTypeOK, Stops, Becomes, FaultsMore, Conns
    <2>2. CASE ServerDies(i)
      <3>1. mail' \in [Sessions -> Seq(Tellings)]
        BY <2>2, UnreadMail DEF ServerDies
      <3>2. up' \in [Sessions -> Seq(Sayings)]
        BY <2>2, BoxesOfRoom DEF ServerDies, Stops, RoomTypeOK
      <3>3. QED
        BY <2>2, <3>1, <3>2 DEF ServerDies, RoomTypeOK, Stops, Becomes, FaultsMore, Conns
    <2>3. CASE MailLost(i)
      BY <2>3, BoxesOfRoom DEF MailLost, RoomTypeOK, FaultsMore
    <2>4. CASE PresenceExpires(i)
      BY <2>4 DEF PresenceExpires, RoomTypeOK, FaultsMore
    <2>5. QED
      BY <1>7, <2>1, <2>2, <2>3, <2>4 DEF Faults
  <1>8. CASE RoomExpires
    BY <1>8 DEF RoomExpires, RoomTypeOK
  <1>9. QED
    BY <1>1, <1>2, <1>3, <1>4, <1>5, <1>6, <1>7, <1>8 DEF RoomNext, Handling

\* The handler of a socket says "ready" first, and an error last.
LEMMA RoomOrder ==
  ASSUME RoomTypeOK, RoomNext, NEW j \in Sessions, OrderOK(j), session' = session
  PROVE  OrderOK(j)'
  <1>1. down[j] \in Seq(Tellings) /\ mail[j] \in Seq(Tellings)
    BY DEF RoomTypeOK
  <1>2. ASSUME NEW i \in Sessions, i # j, Handling(i) \/ Forward(i) \/ Faults(i)
        PROVE  conn'[j] = conn[j] /\ down'[j] = down[j]
    BY <1>2 DEF RoomTypeOK, Handling, Subscribe, Claim, Ready, Serve, LeaveRoom, Forward, Faults, HandlerFails,
       ServerDies, MailLost, PresenceExpires, Stops, Becomes, Tell
  <1>3. CASE Subscribe(j)
    BY <1>3 DEF RoomTypeOK, Subscribe, Stops, Becomes, OrderOK, Order
  <1>4. CASE Claim(j)
    <2>1. CASE Joinable
      BY <1>4, <2>1 DEF RoomTypeOK, Claim, Becomes, OrderOK, Order
    <2>2. CASE ~Joinable
      <3>1. conn'[j] = "closed" /\ down'[j] = Append(down[j], "error")
        BY <1>4, <2>2 DEF RoomTypeOK, Claim, Stops, Becomes, Tell
      <3>2. QED
        BY <1>1, <1>4, <3>1, HeadOfAppend DEF Claim, OrderOK, Order, Tellings
    <2>3. QED
      BY <2>1, <2>2
  <1>5. CASE Ready(j)
    <2>1. conn'[j] = "serving" /\ down'[j] = Append(down[j], "ready")
      BY <1>5 DEF RoomTypeOK, Ready, Becomes, Tell
    <2>2. QED
      BY <1>1, <1>5, <2>1, HeadOfAppend DEF Ready, OrderOK, Order, Tellings
  <1>6. CASE Forward(j)
    <2>1. conn'[j] = conn[j] /\ conn[j] = "serving" /\ down'[j] = Append(down[j], Head(mail[j]))
      BY <1>6 DEF RoomTypeOK, Forward, Forwards
    <2>2. Head(mail[j]) \in Tellings
      BY <1>1, <1>6, TailOfSeq DEF Forward
    <2>3. QED
      BY <1>1, <2>1, <2>2, HeadOfAppend DEF OrderOK, Order
  <1>7. CASE Serve(j)
    <2>1. /\ conn[j] = "serving"
          /\ \/ conn'[j] = "serving" /\ down'[j] = down[j]
             \/ conn'[j] = "leaving" /\ \/ down'[j] = down[j]
                                        \/ \E m \in {"ended", "error"} : down'[j] = Append(down[j], m)
      BY <1>7 DEF RoomTypeOK, Serve, Stops, Becomes, Tell
    <2>2. QED
      BY <1>1, <2>1, HeadOfAppend DEF OrderOK, Order, Tellings
  <1>8. CASE LeaveRoom(j) \/ Faults(j)
    <2>1. /\ down'[j] = down[j]
          /\ \/ conn'[j] = conn[j]
             \/ conn[j] # "none" /\ conn'[j] \in {"leaving", "closed"}
      BY <1>8 DEF RoomTypeOK, LeaveRoom, Faults, HandlerFails, ServerDies, MailLost, PresenceExpires,
         Stops, Becomes
    <2>2. QED
      BY <2>1 DEF OrderOK, Order, RoomTypeOK, Conns
  <1>9. CASE RoomExpires
    BY <1>9 DEF RoomExpires, OrderOK
  <1>10. QED
    <2>1. ASSUME conn'[j] = conn[j] /\ down'[j] = down[j] PROVE OrderOK(j)'
      BY <2>1 DEF OrderOK
    <2>2. QED
      BY <1>2, <1>3, <1>4, <1>5, <1>6, <1>7, <1>8, <1>9, <2>1 DEF RoomNext, Handling

-----------------------------------------------------------------------------
(* The sessions and their views.                                            *)

LEMMA NoneIsNoTab == None \notin Tabs /\ None \notin Sessions
  BY LabSessionAssumption, LabRoomAssumption

LEMMA NewOK ==
  ASSUME NEW t \in Tabs \cup {None}
  PROVE  NewSession(t) \in SessionStates /\ Unused \in SessionStates
  BY DEF NewSession, Unused, SessionStates

LEMMA UnusedFields ==
  /\ Unused.stopped = TRUE /\ Unused.media = "none" /\ Unused.socket = "none"
  /\ Unused.peer = "none" /\ Unused.channel = FALSE /\ Unused.tab = None /\ Unused.busy = "no"
  BY DEF Unused, NewSession

\* close() leaves nothing held or open.
LEMMA ClosedFields ==
  ASSUME NEW s \in SessionStates
  PROVE  /\ Closed(s) \in SessionStates
         /\ Closed(s).stopped = TRUE /\ Closed(s).media # "held" /\ Closed(s).socket = "none"
         /\ Closed(s).peer = "none" /\ Closed(s).channel = FALSE /\ Closed(s).tab = s.tab
  <1> DEFINE media == IF s.media = "held" THEN "none" ELSE s.media
             r == [s EXCEPT !.stopped = TRUE, !.media = media, !.socket = "none",
                            !.peer = "none", !.channel = FALSE, !.ice = 0]
  <1>1. media \in {"asked", "none"}
    BY DEF SessionStates
  <1>2. Closed(s) = r
    BY DEF Closed
  <1> HIDE DEF media
  <1>3. r \in SessionStates /\ r.stopped = TRUE /\ r.media = media /\ r.socket = "none"
        /\ r.peer = "none" /\ r.channel = FALSE /\ r.tab = s.tab
    BY <1>1 DEF SessionStates
  <1>4. QED
    BY <1>1, <1>2, <1>3

LEMMA InitialFields ==
  ASSUME NEW phase \in Final \cup {"acquiring"}
  PROVE  LET v == [InitialView EXCEPT !.phase = phase]
         IN  v \in Views /\ v.phase = phase /\ v.shown = {} /\ v.muted = FALSE /\ v.local = None
  BY DEF InitialView, Views, Final

LEMMA FinalShows ==
  ASSUME NEW i \in Sessions, NEW s, s.stopped, NEW t, NEW phase \in Final
  PROVE  FinalView(t, phase) \in Views /\ Shows(FinalView(t, phase), i, s)
  BY InitialFields DEF FinalView, Shows

\* What a step of one session, of which at most the view of its tab learns, must
\* take care of.
LEMMA OneChanges ==
  ASSUME ViewInv, NEW i \in Sessions, NEW s \in SessionStates, NEW t \in Tabs, NEW v \in Views,
         session[i].tab = t, s.tab = t, Consistent(s), ~s.stopped => current[t] = i,
         current[t] = i => Shows(v, i, s), current[t] # i => v = view[t],
         session' = [session EXCEPT ![i] = s], view' = [view EXCEPT ![t] = v], current' = current
  PROVE  ViewInv'
  <1>1. LabTypeOK'
    BY DEF ViewInv, LabTypeOK
  <1>2. session'[i] = s /\ \A j \in Sessions : j # i => session'[j] = session[j]
    BY DEF ViewInv, LabTypeOK
  <1>3. ASSUME NEW j \in Sessions PROVE SessionOK(j)'
    <2>1. CASE j = i
      BY <1>2, <2>1 DEF SessionOK, Running
    <2>2. CASE j # i
      BY <1>2, <2>2 DEF ViewInv, SessionOK, Running
    <2>3. QED
      BY <2>1, <2>2
  <1>4. view'[t] = v /\ \A u \in Tabs : u # t => view'[u] = view[u]
    BY DEF ViewInv, LabTypeOK
  <1>5. ASSUME NEW u \in Tabs PROVE TabOK(u)'
    <2>1. current'[u] = current[u] /\ current[u] \in Sessions \cup {None}
      BY DEF ViewInv, LabTypeOK
    <2>2. CASE current[u] = None
      BY <1>4, <2>1, <2>2, NoneIsNoTab DEF ViewInv, TabOK
    <2>3. CASE current[u] = i
      <3>1. u = t
        BY <2>3, NoneIsNoTab DEF ViewInv, TabOK
      <3>2. QED
        BY <1>2, <1>4, <2>1, <2>3, <3>1, NoneIsNoTab DEF TabOK
    <2>4. CASE current[u] # None /\ current[u] # i
      <3>1. view'[u] = view[u]
        BY <1>4, <2>4
      <3>2. session'[current[u]] = session[current[u]]
        BY <1>2, <2>1, <2>4
      <3>3. QED
        BY <2>1, <2>4, <3>1, <3>2 DEF ViewInv, TabOK
    <2>5. QED
      BY <2>2, <2>3, <2>4
  <1>6. QED
    BY <1>1, <1>3, <1>5 DEF ViewInv

\* A session that runs is that of its tab, which shows it.
LEMMA RunningIsCurrent ==
  ASSUME ViewInv, NEW i \in Sessions, Running(i)
  PROVE  /\ session[i] \in SessionStates /\ session[i].tab \in Tabs
         /\ current[session[i].tab] = i /\ view[session[i].tab] \in Views
         /\ Shows(view[session[i].tab], i, session[i]) /\ Consistent(session[i])
  <1>1. session[i] \in SessionStates /\ SessionOK(i)
    BY DEF ViewInv, LabTypeOK
  <1>2. session[i].tab \in Tabs
    BY <1>1, UnusedFields DEF SessionStates, SessionOK, Consistent, Running
  <1>3. QED
    BY <1>1, <1>2, NoneIsNoTab DEF ViewInv, LabTypeOK, SessionOK, TabOK, Running

\* A session ends, and its tab shows how.
LEMMA EndsView ==
  ASSUME ViewInv, NEW i \in Sessions, Running(i), NEW phase \in Final,
         NEW s \in SessionStates, s.stopped, s.tab = session[i].tab, Consistent(s),
         session' = [session EXCEPT ![i] = s], Patch(i, FinalView(session[i].tab, phase)), current' = current
  PROVE  ViewInv'
  <1> DEFINE t == session[i].tab
  <1>1. t \in Tabs /\ current[t] = i
    BY RunningIsCurrent
  <1>2. FinalView(t, phase) \in Views /\ Shows(FinalView(t, phase), i, s)
    BY FinalShows
  <1>3. view' = [view EXCEPT ![t] = FinalView(t, phase)]
    BY DEF Patch
  <1> HIDE DEF t
  <1>4. session[i].tab = t
    BY DEF t
  <1>5. QED
    BY <1>1, <1>2, <1>3, <1>4, OneChanges

\* What happens to a session that has ended, its tab does not show.
LEMMA StoppedChanges ==
  ASSUME ViewInv, NEW i \in Sessions, NEW s \in SessionStates, session[i].stopped, s.stopped,
         s.tab = session[i].tab, s.tab \in Tabs, Consistent(s),
         session' = [session EXCEPT ![i] = s], UNCHANGED <<view, current>>
  PROVE  ViewInv'
  <1> DEFINE t == s.tab
  <1>1. view[t] \in Views /\ view' = [view EXCEPT ![t] = view[t]]
    BY DEF ViewInv, LabTypeOK
  <1>2. current[t] = i => Shows(view[t], i, s)
    BY NoneIsNoTab DEF ViewInv, TabOK, Shows
  <1>3. t \in Tabs /\ session[i].tab = t /\ s.tab = t
    OBVIOUS
  <1> HIDE DEF t
  <1>4. QED
    BY <1>1, <1>2, <1>3, OneChanges

\* A session goes on, and its tab shows no more of it than another phase.
LEMMA PhaseChanges ==
  ASSUME ViewInv, NEW i \in Sessions, NEW s \in SessionStates, Running(i), ~s.stopped,
         s.tab = session[i].tab, s.media = session[i].media, s.muted = session[i].muted, Consistent(s),
         NEW phase \in {"waiting", "negotiating", "connected", view[session[i].tab].phase},
         NEW shown \in {view[session[i].tab].shown, view[session[i].tab].shown \cup {i}},
         session' = [session EXCEPT ![i] = s], current' = current,
         Patch(i, [view[session[i].tab] EXCEPT !.phase = phase, !.shown = shown])
  PROVE  ViewInv'
  <1> DEFINE t == session[i].tab
             v == [view[t] EXCEPT !.phase = phase, !.shown = shown]
  <1>1. t \in Tabs /\ current[t] = i /\ view[t] \in Views /\ Shows(view[t], i, session[i])
    BY RunningIsCurrent
  <1>2. shown \in SUBSET Sessions /\ shown \subseteq {i} /\ phase \notin Final
        /\ phase \in Final \cup {"acquiring", "connecting", "waiting", "negotiating", "connected"}
    BY <1>1 DEF Shows, Views, Running, Final
  <1>3. v \in Views /\ v.phase = phase /\ v.shown = shown /\ v.local = view[t].local /\ v.muted = view[t].muted
    BY <1>1, <1>2 DEF Views
  <1>4. Shows(v, i, s)
    BY <1>1, <1>2, <1>3 DEF Shows, Running
  <1>5. view' = [view EXCEPT ![t] = v] /\ session[i].tab = t /\ s.tab = t
    BY DEF Patch
  <1> HIDE DEF t, v
  <1>6. QED
    BY <1>1, <1>3, <1>4, <1>5, OneChanges

\* A session goes on, and its tab does not show it.
LEMMA SameView ==
  ASSUME ViewInv, NEW i \in Sessions, NEW s \in SessionStates, Running(i), ~s.stopped,
         s.tab = session[i].tab, s.media = session[i].media, s.muted = session[i].muted, Consistent(s),
         session' = [session EXCEPT ![i] = s], UNCHANGED <<view, current>>
  PROVE  ViewInv'
  <1> DEFINE t == session[i].tab
             v == view[t]
  <1>1. t \in Tabs /\ current[t] = i /\ view[t] \in Views /\ Shows(view[t], i, session[i])
    BY RunningIsCurrent
  <1>2. v \in Views /\ Shows(v, i, s) /\ session[i].tab = t /\ s.tab = t
    BY <1>1 DEF Shows, Running
  <1>3. view' = [view EXCEPT ![t] = v]
    BY <1>1 DEF ViewInv, LabTypeOK
  <1> HIDE DEF t, v
  <1>4. QED
    BY <1>1, <1>2, <1>3, OneChanges

LEMMA ClosedConsistent ==
  ASSUME NEW s \in SessionStates, s.tab # None PROVE Consistent(Closed(s))
  BY ClosedFields DEF Consistent

-----------------------------------------------------------------------------
(* Each step of a session.                                                  *)

LEMMA SentTypes ==
  ASSUME LabInv, NEW i \in Sessions, NEW type \in Sayings
  PROVE  Sent(i, type) \in Seq(Sayings) /\ Bye(i) \in Seq(Sayings)
  <1>1. up[i] \in Seq(Sayings) /\ "leave" \in Sayings
    BY DEF LabInv, RoomTypeOK, Sayings
  <1>2. \A x \in Sayings : Append(up[i], x) \in Seq(Sayings)
    BY <1>1, HeadOfAppend
  <1>3. QED
    BY <1>1, <1>2 DEF Sent, Bye

LEMMA OthersOrder ==
  ASSUME LabInv, NEW i \in Sessions, OrderOK(i)',
         \A j \in Sessions \ {i} :
            session'[j] = session[j] /\ conn'[j] = conn[j] /\ down'[j] = down[j]
  PROVE  \A j \in Sessions : OrderOK(j)'
  BY DEF LabInv, OrderOK

\* However a session ends, it takes what it was told with it.
LEMMA EndsInv ==
  ASSUME LabInv, NEW i \in Sessions, Running(i), NEW phase \in Final, Ends(i, phase),
         UNCHANGED <<room, present, conn, mail, current>>, faults' \in Nat
  PROVE  LabInv'
  <1>1. session[i] \in SessionStates /\ session[i].tab # None
    BY RunningIsCurrent, NoneIsNoTab DEF LabInv
  <1>2. session' = [session EXCEPT ![i] = Closed(session[i])]
    BY DEF Ends, Is
  <1>3. ViewInv'
    BY <1>1, <1>2, ClosedFields, ClosedConsistent, EndsView DEF LabInv, Ends
  <1>4. RoomTypeOK'
    <2>1. up' \in [Sessions -> Seq(Sayings)]
      BY SentTypes DEF Ends, LabInv, RoomTypeOK, Sayings
    <2>2. down' \in [Sessions -> Seq(Tellings)]
      BY EmptySeq DEF Ends, LabInv, RoomTypeOK
    <2>3. QED
      BY <2>1, <2>2 DEF LabInv, RoomTypeOK
  <1>5. session \in [Sessions -> SessionStates] /\ down \in [Sessions -> Seq(Tellings)]
    BY DEF LabInv, ViewInv, LabTypeOK, RoomTypeOK
  <1>6. session'[i] = Closed(session[i]) /\ down'[i] = <<>> /\ conn'[i] = conn[i]
    BY <1>2, <1>5 DEF Ends
  <1>7. OrderOK(i)'
    BY <1>1, <1>6, ClosedFields DEF OrderOK, Order
  <1>8. \A j \in Sessions \ {i} :
            session'[j] = session[j] /\ conn'[j] = conn[j] /\ down'[j] = down[j]
    BY <1>2, <1>5 DEF Ends
  <1>9. QED
    BY <1>3, <1>4, <1>7, <1>8, OthersOrder DEF LabInv

LEMMA LeaveInv == ASSUME LabInv, NEW t \in Tabs, Leave(t) PROVE LabInv'
  <1>1. current[t] \in Sessions
    BY DEF Leave, LabInv, ViewInv, LabTypeOK
  <1>2. QED
    BY <1>1, EndsInv DEF Leave, Final, LabInv, RoomTypeOK

LEMMA SocketClosesInv == ASSUME LabInv, NEW i \in Sessions, SocketCloses(i) PROVE LabInv'
  <1>1. Running(i)
    BY DEF SocketCloses, LabInv, ViewInv, SessionOK, Consistent, Running
  <1>2. faults' \in Nat
    BY DEF SocketCloses, LabInv, RoomTypeOK
  <1>3. QED
    BY <1>1, <1>2, EndsInv DEF SocketCloses, Final

LEMMA ConnectionFailsInv == ASSUME LabInv, NEW i \in Sessions, ConnectionFails(i) PROVE LabInv'
  <1>1. faults' \in Nat
    BY DEF ConnectionFails, LabInv, RoomTypeOK
  <1>2. QED
    BY <1>1, EndsInv DEF ConnectionFails, Final

\* A step of one session that is told nothing.
LEMMA QuietInv ==
  ASSUME LabInv, NEW i \in Sessions, NEW s \in SessionStates, ViewInv',
         session' = [session EXCEPT ![i] = s], Order(s, conn[i], down[i]),
         UNCHANGED <<room, present, conn, mail, down, faults>>, up' \in [Sessions -> Seq(Sayings)]
  PROVE  LabInv'
  <1>1. session'[i] = s /\ \A j \in Sessions \ {i} : session'[j] = session[j]
    BY DEF LabInv, ViewInv, LabTypeOK
  <1>2. OrderOK(i)'
    BY <1>1 DEF OrderOK
  <1>3. QED
    BY <1>1, <1>2, OthersOrder DEF LabInv, RoomTypeOK

\* Media that come, or are refused, when the session has ended.
LEMMA LateInv ==
  ASSUME LabInv, NEW i \in Sessions, ~Running(i), session[i].media = "asked",
         session' = [session EXCEPT ![i] = [session[i] EXCEPT !.media = "none"]],
         UNCHANGED <<rvars, view, current>>
  PROVE  LabInv'
  <1> DEFINE s == [session[i] EXCEPT !.media = "none"]
  <1>1. session[i] \in SessionStates /\ Consistent(session[i]) /\ OrderOK(i) /\ up \in [Sessions -> Seq(Sayings)]
    BY DEF LabInv, ViewInv, LabTypeOK, SessionOK, RoomTypeOK
  <1>2. /\ s \in SessionStates /\ s.tab = session[i].tab /\ s.stopped = session[i].stopped
        /\ s.media = "none" /\ s.socket = session[i].socket /\ s.peer = session[i].peer
        /\ s.channel = session[i].channel
    BY <1>1 DEF SessionStates
  <1>3. session[i] # Unused
    BY UnusedFields
  <1>4. Consistent(s) /\ s.stopped /\ s.tab \in Tabs
    BY <1>1, <1>2, <1>3 DEF Consistent, Running, SessionStates
  <1>5. Order(s, conn[i], down[i])
    BY <1>1, <1>2, <1>4, NoneIsNoTab DEF OrderOK, Order
  <1>6. session' = [session EXCEPT ![i] = s] /\ session[i].stopped
    BY DEF Running
  <1> HIDE DEF s
  <1>7. ViewInv'
    BY <1>2, <1>4, <1>6, StoppedChanges DEF LabInv
  <1>8. QED
    BY <1>1, <1>2, <1>5, <1>6, <1>7, QuietInv DEF rvars

LEMMA MediaComesInv == ASSUME LabInv, NEW i \in Sessions, MediaComes(i) PROVE LabInv'
  <1>1. session[i] \in SessionStates /\ Consistent(session[i]) /\ OrderOK(i) /\ up \in [Sessions -> Seq(Sayings)]
    BY DEF LabInv, ViewInv, LabTypeOK, SessionOK, RoomTypeOK
  <1>2. CASE Running(i)
    <2> DEFINE t == session[i].tab
               s == [session[i] EXCEPT !.media = "held", !.socket = "connecting"]
               v == [view[t] EXCEPT !.local = i, !.phase = "connecting"]
    <2>1. t \in Tabs /\ current[t] = i /\ view[t] \in Views /\ Shows(view[t], i, session[i])
      BY <1>2, RunningIsCurrent DEF LabInv
    <2>2. /\ s \in SessionStates /\ s.tab = t /\ s.stopped = session[i].stopped /\ s.media = "held"
          /\ s.socket = "connecting" /\ s.peer = session[i].peer /\ s.busy = session[i].busy
          /\ s.muted = session[i].muted
      BY <1>1 DEF SessionStates
    <2>3. /\ v \in Views /\ v.local = i /\ v.phase = "connecting" /\ v.shown = view[t].shown
          /\ v.muted = view[t].muted
      BY <2>1 DEF Views
    <2>4. session' = [session EXCEPT ![i] = s] /\ view' = [view EXCEPT ![t] = v]
      BY <1>2 DEF MediaComes, InTime, Is, Patch
    <2>5. Consistent(s)
      BY <1>1, <1>2, <2>1, <2>2, NoneIsNoTab DEF MediaComes, Consistent, Running
    <2>6. Shows(v, i, s)
      BY <1>2, <2>1, <2>2, <2>3 DEF Shows, Running, Final
    <2>7. Order(s, conn[i], down[i])
      BY <1>1, <1>2, <2>1, <2>2, NoneIsNoTab DEF MediaComes, Consistent, Running, OrderOK, Order
    <2> HIDE DEF t, s, v
    <2>8. session[i].tab = t
      BY DEF t
    <2>9. ViewInv'
      BY <2>1, <2>2, <2>3, <2>4, <2>5, <2>6, <2>8, OneChanges DEF MediaComes, LabInv
    <2>10. QED
      BY <1>1, <2>2, <2>4, <2>7, <2>9, QuietInv DEF MediaComes, rvars
  <1>3. CASE ~Running(i)
    BY <1>3, LateInv DEF MediaComes, InTime, Is
  <1>4. QED
    BY <1>2, <1>3

LEMMA MediaRefusedInv == ASSUME LabInv, NEW i \in Sessions, MediaRefused(i) PROVE LabInv'
  <1>1. session[i] \in SessionStates /\ Consistent(session[i]) /\ OrderOK(i) /\ up \in [Sessions -> Seq(Sayings)]
    BY DEF LabInv, ViewInv, LabTypeOK, SessionOK, RoomTypeOK
  <1>2. CASE Running(i)
    <2> DEFINE c == Closed(session[i])
               s == [c EXCEPT !.media = "none"]
    <2>1. session[i].tab \in Tabs
      BY <1>2, RunningIsCurrent DEF LabInv
    <2>2. /\ c \in SessionStates /\ c.stopped = TRUE /\ c.socket = "none" /\ c.peer = "none"
          /\ c.channel = FALSE /\ c.tab = session[i].tab
      BY <1>1, ClosedFields
    <2>3. session' = [session EXCEPT ![i] = s]
      BY <1>2 DEF MediaRefused
    <2> HIDE DEF c
    <2>4. /\ s \in SessionStates /\ s.tab = session[i].tab /\ s.stopped = TRUE /\ s.media = "none"
          /\ s.socket = "none" /\ s.peer = "none" /\ s.channel = FALSE
      BY <2>2 DEF SessionStates
    <2>5. Consistent(s)
      BY <2>1, <2>4, NoneIsNoTab DEF Consistent
    <2>6. Order(s, conn[i], down[i])
      BY <1>1, <1>2, <2>1, <2>4, NoneIsNoTab DEF MediaRefused, Consistent, Running, OrderOK, Order
    <2> HIDE DEF s
    <2>7. ViewInv'
      BY <1>2, <2>3, <2>4, <2>5, EndsView DEF MediaRefused, LabInv, Final
    <2>8. QED
      BY <1>1, <2>3, <2>4, <2>6, <2>7, QuietInv DEF MediaRefused, rvars
  <1>3. CASE ~Running(i)
    BY <1>3, LateInv DEF MediaRefused, Is
  <1>4. QED
    BY <1>2, <1>3

LEMMA SocketOpensInv == ASSUME LabInv, NEW i \in Sessions, SocketOpens(i) PROVE LabInv'
  <1> DEFINE s == [session[i] EXCEPT !.socket = "open"]
  <1>1. /\ session \in [Sessions -> SessionStates] /\ conn \in [Sessions -> Conns]
        /\ session[i] \in SessionStates /\ Consistent(session[i]) /\ OrderOK(i)
    BY DEF LabInv, ViewInv, LabTypeOK, SessionOK, RoomTypeOK
  <1>2. Running(i)
    BY <1>1 DEF SocketOpens, Consistent, Running
  <1>3. /\ s \in SessionStates /\ s.tab = session[i].tab /\ s.stopped = session[i].stopped
        /\ s.media = session[i].media /\ s.socket = "open" /\ s.peer = session[i].peer
        /\ s.busy = session[i].busy /\ s.muted = session[i].muted
    BY <1>1 DEF SessionStates
  <1>4. session' = [session EXCEPT ![i] = s] /\ conn' = [conn EXCEPT ![i] = "open"]
    BY DEF SocketOpens, Is, Becomes
  <1>5. session[i].tab # None /\ session[i].media # "asked" /\ conn[i] = "none" /\ down[i] = <<>>
    BY <1>1, <1>2, NoneIsNoTab, RunningIsCurrent
       DEF SocketOpens, Consistent, Running, OrderOK, Order, LabInv
  <1>6. Consistent(s) /\ Order(s, "open", down[i])
    BY <1>1, <1>2, <1>3, <1>5 DEF Consistent, Running, Order
  <1> HIDE DEF s
  <1>7. ViewInv'
    BY <1>2, <1>3, <1>4, <1>6, SameView DEF SocketOpens, LabInv, Running
  <1>8. RoomTypeOK'
    <2>1. up' \in [Sessions -> Seq(Sayings)]
      BY SentTypes DEF SocketOpens, Send, LabInv, RoomTypeOK, Sayings
    <2>2. QED
      BY <1>4, <2>1 DEF SocketOpens, LabInv, RoomTypeOK, Conns
  <1>9. OrderOK(i)'
    BY <1>1, <1>4, <1>6 DEF OrderOK, SocketOpens
  <1>10. QED
    BY <1>1, <1>4, <1>7, <1>8, <1>9, OthersOrder DEF SocketOpens, LabInv

LEMMA BeatInv == ASSUME LabInv, NEW i \in Sessions, Beat(i) PROVE LabInv'
  <1>1. up' \in [Sessions -> Seq(Sayings)]
    BY SentTypes DEF Beat, Send, LabInv, RoomTypeOK, Sayings
  <1>2. RoomTypeOK'
    BY <1>1 DEF Beat, LabInv, RoomTypeOK
  <1>3. ViewInv'
    BY DEF Beat, LabInv, ViewInv, LabTypeOK, SessionOK, TabOK, Running
  <1>4. \A j \in Sessions : OrderOK(j)'
    BY DEF Beat, LabInv, OrderOK
  <1>5. QED
    BY <1>2, <1>3, <1>4 DEF LabInv

LEMMA SettlesInv == ASSUME LabInv, NEW i \in Sessions, Settles(i) PROVE LabInv'
  <1> DEFINE s == [session[i] EXCEPT !.busy = "no"]
  <1>1. /\ session[i] \in SessionStates /\ Consistent(session[i]) /\ OrderOK(i)
        /\ up \in [Sessions -> Seq(Sayings)] /\ session[i] # Unused /\ session[i].busy # "no"
    BY UnusedFields DEF Settles, LabInv, ViewInv, LabTypeOK, SessionOK, RoomTypeOK
  <1>2. /\ s \in SessionStates /\ s.tab = session[i].tab /\ s.stopped = session[i].stopped
        /\ s.media = session[i].media /\ s.socket = session[i].socket /\ s.peer = session[i].peer
        /\ s.channel = session[i].channel /\ s.busy = "no" /\ s.muted = session[i].muted
    BY <1>1 DEF SessionStates
  <1>3. s.tab \in Tabs
    BY <1>1, <1>2 DEF Consistent, SessionStates
  <1>4. CASE Running(i)
    <2>1. PICK r : /\ r = [s EXCEPT !.peer = "local"] \/ r = [s EXCEPT !.peer = "both", !.ice = 0]
                   /\ session' = [session EXCEPT ![i] = r]
      <3>1. \/ session' = [session EXCEPT ![i] = [s EXCEPT !.peer = "local"]]
            \/ session' = [session EXCEPT ![i] = [s EXCEPT !.peer = "both", !.ice = 0]]
        BY <1>4 DEF Settles, Is, Remote
      <3>2. QED
        BY <3>1
    <2> HIDE DEF s
    <2>2. /\ r \in SessionStates /\ r.tab = s.tab /\ r.stopped = s.stopped /\ r.media = s.media
          /\ r.socket = s.socket /\ r.peer \in {"local", "both"} /\ r.busy = "no" /\ r.muted = s.muted
      <3>1. CASE r = [s EXCEPT !.peer = "local"]
        BY <1>2, <3>1 DEF SessionStates
      <3>2. CASE r = [s EXCEPT !.peer = "both", !.ice = 0]
        BY <1>2, <3>2 DEF SessionStates
      <3>3. QED
        BY <2>1, <3>1, <3>2
    <2>3. session[i].socket = "open" /\ session[i].media # "asked"
      BY <1>1, <1>4 DEF Consistent, Running
    <2>4. Consistent(r)
      BY <1>2, <1>3, <1>4, <2>2, <2>3, NoneIsNoTab DEF Consistent, Running
    <2>5. Order(r, conn[i], down[i])
      BY <1>1, <1>2, <1>3, <1>4, <2>2, <2>3, NoneIsNoTab DEF OrderOK, Order, Running
    <2>6. ViewInv'
      BY <1>2, <1>4, <2>1, <2>2, <2>4, SameView DEF Settles, LabInv, Running
    <2>7. up' \in [Sessions -> Seq(Sayings)]
      <3>1. up' = up \/ (up' = [up EXCEPT ![i] = Sent(i, session[i].busy)] /\ session[i].busy # "remote")
        BY <1>4 DEF Settles, Send
      <3>2. session[i].busy # "remote" => session[i].busy \in Sayings
        BY <1>1 DEF SessionStates, Sayings, Signals
      <3>3. QED
        BY <1>1, <3>1, <3>2, SentTypes
    <2>8. QED
      BY <2>1, <2>2, <2>5, <2>6, <2>7, QuietInv DEF Settles
  <1>5. CASE ~Running(i)
    <2>1. session' = [session EXCEPT ![i] = s] /\ up' = up /\ view' = view /\ current' = current
      BY <1>5 DEF Settles, Is
    <2> HIDE DEF s
    <2>2. Consistent(s) /\ s.stopped
      BY <1>1, <1>2, <1>3, <1>5, NoneIsNoTab DEF Consistent, Running
    <2>3. Order(s, conn[i], down[i])
      BY <1>1, <1>2, <1>3, <2>2, NoneIsNoTab DEF OrderOK, Order
    <2>4. ViewInv'
      BY <1>2, <1>3, <1>5, <2>1, <2>2, StoppedChanges DEF LabInv, Running
    <2>5. QED
      BY <1>1, <1>2, <2>1, <2>3, <2>4, QuietInv DEF Settles
  <1>6. QED
    BY <1>4, <1>5

LEMMA CandidateInv == ASSUME LabInv, NEW i \in Sessions, Candidate(i) PROVE LabInv'
  <1> DEFINE s == [session[i] EXCEPT !.sent = TRUE]
  <1>1. /\ session[i] \in SessionStates /\ Consistent(session[i]) /\ OrderOK(i)
    BY DEF LabInv, ViewInv, LabTypeOK, SessionOK
  <1>2. Running(i) /\ session[i].tab # None
    BY <1>1, UnusedFields DEF Candidate, Consistent, Running
  <1>3. /\ s \in SessionStates /\ s.tab = session[i].tab /\ s.stopped = session[i].stopped
        /\ s.media = session[i].media /\ s.socket = session[i].socket /\ s.peer = session[i].peer
        /\ s.busy = session[i].busy /\ s.muted = session[i].muted
    BY <1>1 DEF SessionStates
  <1>4. session' = [session EXCEPT ![i] = s] /\ up' = [up EXCEPT ![i] = Sent(i, "ice")]
    BY DEF Candidate, Is, Send
  <1>5. up' \in [Sessions -> Seq(Sayings)]
    BY <1>4, SentTypes DEF LabInv, RoomTypeOK, Sayings, Signals
  <1>6. Consistent(s) /\ Order(s, conn[i], down[i])
    BY <1>1, <1>2, <1>3 DEF Consistent, OrderOK, Order, Running
  <1> HIDE DEF s
  <1>7. ViewInv'
    BY <1>2, <1>3, <1>4, <1>6, SameView DEF Candidate, LabInv, Running
  <1>8. QED
    BY <1>3, <1>4, <1>5, <1>6, <1>7, QuietInv DEF Candidate

LEMMA ConnectedInv == ASSUME LabInv, NEW i \in Sessions, Connected(i) PROVE LabInv'
  <1> DEFINE s == [session[i] EXCEPT !.channel = TRUE]
             t == session[i].tab
             shown == view[t].shown \cup {i}
  <1>1. /\ session[i] \in SessionStates /\ Consistent(session[i]) /\ OrderOK(i)
        /\ up \in [Sessions -> Seq(Sayings)]
    BY DEF LabInv, ViewInv, LabTypeOK, SessionOK, RoomTypeOK
  <1>2. Running(i) /\ session[i].tab # None
    BY <1>1, UnusedFields DEF Connected, Consistent, Running
  <1>3. /\ s \in SessionStates /\ s.tab = session[i].tab /\ s.stopped = session[i].stopped
        /\ s.media = session[i].media /\ s.socket = session[i].socket /\ s.peer = session[i].peer
        /\ s.busy = session[i].busy /\ s.muted = session[i].muted
    BY <1>1 DEF SessionStates
  <1>4. session' = [session EXCEPT ![i] = s]
    BY DEF Connected, Is, Bound
  <1>5. Patch(i, [view[t] EXCEPT !.phase = "connected", !.shown = shown])
    BY DEF Connected
  <1>6. Consistent(s) /\ Order(s, conn[i], down[i])
    BY <1>1, <1>2, <1>3 DEF Consistent, OrderOK, Order, Running
  <1>7. shown \in {view[t].shown, view[t].shown \cup {i}}
    OBVIOUS
  <1> HIDE DEF s, shown
  <1>8. ViewInv'
    BY <1>2, <1>3, <1>4, <1>5, <1>6, <1>7, PhaseChanges DEF Connected, LabInv, Running
  <1>9. QED
    BY <1>1, <1>3, <1>4, <1>6, <1>8, QuietInv DEF Connected, rvars

LEMMA MuteInv == ASSUME LabInv, NEW t \in Tabs, Mute(t) PROVE LabInv'
  <1> DEFINE i == current[t]
             s == [session[i] EXCEPT !.muted = ~session[i].muted]
             v == [view[t] EXCEPT !.muted = ~session[i].muted]
  <1>1. i \in Sessions
    BY DEF Mute, LabInv, ViewInv, LabTypeOK
  <1>2. /\ session[i] \in SessionStates /\ Consistent(session[i]) /\ OrderOK(i) /\ session[i].tab = t
        /\ up \in [Sessions -> Seq(Sayings)] /\ session[i].media = "held"
    BY <1>1, NoneIsNoTab DEF Mute, LabInv, ViewInv, LabTypeOK, SessionOK, TabOK, RoomTypeOK
  <1>3. Running(i)
    BY <1>2 DEF Consistent, Running
  <1>4. view[t] \in Views /\ Shows(view[t], i, session[i])
    BY <1>1, <1>2, <1>3, RunningIsCurrent DEF LabInv
  <1>5. /\ s \in SessionStates /\ s.tab = t /\ s.stopped = session[i].stopped
        /\ s.media = session[i].media /\ s.socket = session[i].socket /\ s.peer = session[i].peer
        /\ s.busy = session[i].busy /\ s.muted = ~session[i].muted
    BY <1>2 DEF SessionStates
  <1>6. /\ v \in Views /\ v.phase = view[t].phase /\ v.shown = view[t].shown
        /\ v.local = view[t].local /\ v.muted = ~session[i].muted
    BY <1>2, <1>4 DEF Views, SessionStates
  <1>7. session' = [session EXCEPT ![i] = s] /\ view' = [view EXCEPT ![t] = v]
    BY DEF Mute, Is
  <1>8. Consistent(s) /\ Order(s, conn[i], down[i]) /\ Shows(v, i, s)
    BY <1>2, <1>3, <1>4, <1>5, <1>6, NoneIsNoTab DEF Consistent, OrderOK, Order, Running, Shows
  <1>9. current[t] = i /\ UNCHANGED <<rvars, current>>
    BY DEF Mute
  <1> HIDE DEF i, s, v
  <1>10. ViewInv'
    BY <1>1, <1>2, <1>5, <1>6, <1>7, <1>8, <1>9, OneChanges DEF LabInv
  <1>11. QED
    BY <1>1, <1>2, <1>5, <1>7, <1>8, <1>9, <1>10, QuietInv DEF rvars

LEMMA ReceiveInv == ASSUME LabInv, NEW i \in Sessions, Receive(i) PROVE LabInv'
  <1> DEFINE type == Head(down[i])
             s == Handled(session[i], type)
             phase == PhaseAt(i, type)
             t == session[i].tab
  <1>1. /\ session[i] \in SessionStates /\ Consistent(session[i]) /\ OrderOK(i) /\ t \in Tabs
        /\ session \in [Sessions -> SessionStates] /\ down \in [Sessions -> Seq(Tellings)]
        /\ view[t] \in Views /\ Running(i) /\ session[i].busy = "no"
    BY RunningIsCurrent DEF Receive, LabInv, ViewInv, LabTypeOK, SessionOK, RoomTypeOK
  <1>2. type \in Tellings /\ Tail(down[i]) \in Seq(Tellings) /\ down[i] # <<>>
    BY <1>1, TailOfSeq DEF Receive
  <1>3. CASE type = "ended"
    <2>1. Ends(i, "ended")
      BY <1>3 DEF Receive
    <2>2. QED
      BY <1>1, <2>1, EndsInv DEF Receive, Final, LabInv, RoomTypeOK
  <1>4. CASE type # "ended" /\ Too(i, type)
    <2>1. Ends(i, "error")
      BY <1>4 DEF Receive
    <2>2. QED
      BY <1>1, <2>1, EndsInv DEF Receive, Final, LabInv, RoomTypeOK
  <1>5. CASE type # "ended" /\ ~Too(i, type)
    <2>1. /\ down' = [down EXCEPT ![i] = Tail(@)] /\ session' = [session EXCEPT ![i] = s] /\ up' = up
          /\ Patch(i, [view[t] EXCEPT !.phase = phase])
      BY <1>5 DEF Receive, Is, Phase
    <2>2. type \in {"ready", "offerer", "answerer", "offer", "answer", "ice"}
      BY <1>2, <1>5 DEF Tellings, Signals, Too
    <2>3. session[i].socket = "open" /\ session[i].media # "asked"
          /\ conn[i] \notin {"none", "open", "subscribed", "claimed"}
      BY <1>1, <1>2, NoneIsNoTab DEF OrderOK, Order, Consistent, Running
    <2>4. type = "ready" \/ session[i].peer # "none"
      BY <1>1, <1>2, <1>5, <2>2, <2>3 DEF OrderOK, Order, Running, LabInv, RoomTypeOK, Conns
    <2>5. /\ s \in SessionStates /\ s.tab = t /\ s.stopped = session[i].stopped
          /\ s.media = session[i].media /\ s.socket = "open" /\ s.muted = session[i].muted
          /\ s.peer # "none"
      <3>1. CASE type = "ready"
        <4>1. s = [session[i] EXCEPT !.peer = "new"]
          BY <3>1 DEF Handled
        <4>2. QED
          BY <1>1, <2>3, <4>1 DEF SessionStates
      <3>2. CASE type = "offerer"
        <4>1. s = [session[i] EXCEPT !.channel = TRUE, !.busy = "offer"]
          BY <3>2 DEF Handled, Bound
        <4>2. QED
          BY <1>1, <2>3, <2>4, <3>2, <4>1 DEF SessionStates
      <3>3. CASE type = "answerer"
        <4>1. s = session[i]
          BY <3>3 DEF Handled
        <4>2. QED
          BY <1>1, <2>3, <2>4, <3>3, <4>1 DEF SessionStates
      <3>4. CASE type \in {"offer", "answer"}
        <4>1. PICK b \in {"answer", "remote"} : s = [session[i] EXCEPT !.busy = b]
          BY <3>4 DEF Handled
        <4>2. QED
          BY <1>1, <2>3, <2>4, <3>4, <4>1 DEF SessionStates
      <3>5. CASE type = "ice"
        <4> DEFINE ice == IF session[i].peer = "both" THEN session[i].ice ELSE session[i].ice + 1
        <4>1. s = [session[i] EXCEPT !.ice = ice]
          BY <3>5 DEF Handled
        <4>2. ice \in Nat
          BY <1>1 DEF SessionStates
        <4> HIDE DEF ice, s
        <4>3. QED
          BY <1>1, <2>3, <2>4, <3>5, <4>1, <4>2 DEF SessionStates
      <3>6. QED
        BY <2>2, <3>1, <3>2, <3>3, <3>4, <3>5
    <2>6. phase \in {"waiting", "negotiating", "connected", view[t].phase}
      BY <2>2 DEF PhaseAt
    <2>7. [view[t] EXCEPT !.phase = phase] = [view[t] EXCEPT !.phase = phase, !.shown = view[t].shown]
      <3> HIDE DEF phase
      <3>1. QED
        BY <1>1 DEF Views
    <2> HIDE DEF s, type, phase
    <2>8. Consistent(s)
      BY <1>1, <2>3, <2>5, NoneIsNoTab DEF Consistent, Running
    <2>9. ViewInv'
      <3>1. Patch(i, [view[t] EXCEPT !.phase = phase, !.shown = view[t].shown])
        BY <2>1, <2>7
      <3>2. view[t].shown \in {view[t].shown, view[t].shown \cup {i}}
        OBVIOUS
      <3>3. QED
        BY <1>1, <2>1, <2>5, <2>6, <2>8, <3>1, <3>2, PhaseChanges DEF Receive, LabInv, Running
    <2>10. RoomTypeOK'
      <3>1. down' \in [Sessions -> Seq(Tellings)]
        BY <1>1, <1>2, <2>1
      <3>2. QED
        BY <2>1, <3>1 DEF Receive, LabInv, RoomTypeOK
    <2>11. session'[i] = s /\ conn'[i] = conn[i]
      BY <1>1, <2>1 DEF Receive
    <2>12. OrderOK(i)'
      BY <1>1, <2>3, <2>5, <2>11, NoneIsNoTab DEF OrderOK, Order
    <2>13. \A j \in Sessions \ {i} :
             session'[j] = session[j] /\ conn'[j] = conn[j] /\ down'[j] = down[j]
      BY <1>1, <2>1 DEF Receive
    <2>14. QED
      BY <2>9, <2>10, <2>12, <2>13, OthersOrder DEF LabInv
  <1>6. QED
    BY <1>3, <1>4, <1>5

\* The session of the tab is closed, and one that was not used yet starts.
LEMMA JoinInv ==
  ASSUME LabInv, NEW t \in Tabs, NEW i \in Sessions, Join(t, i) PROVE LabInv'
  <1> DEFINE old == current[t]
  <1>1. /\ session \in [Sessions -> SessionStates] /\ view \in [Tabs -> Views]
        /\ current \in [Tabs -> Sessions \cup {None}]
        /\ up \in [Sessions -> Seq(Sayings)] /\ down \in [Sessions -> Seq(Tellings)]
    BY DEF LabInv, ViewInv, LabTypeOK, RoomTypeOK
  <1>2. session[i].tab = None /\ conn[i] = "none" /\ down[i] = <<>>
    BY UnusedFields DEF Join, LabInv, OrderOK, Order
  <1>3. old # None => session[old].tab = t /\ old \in Sessions
    BY <1>1 DEF LabInv, ViewInv, TabOK
  <1>4. old # i /\ t # None
    BY <1>2, <1>3, NoneIsNoTab
  <1>5. /\ session' = [j \in Sessions |-> IF j = i THEN NewSession(t)
                                          ELSE IF j = old THEN Closed(session[j]) ELSE session[j]]
        /\ up' = [j \in Sessions |-> IF j = old THEN Bye(j) ELSE up[j]]
        /\ down' = [j \in Sessions |-> IF j = old THEN <<>> ELSE down[j]]
        /\ current' = [current EXCEPT ![t] = i]
        /\ view' = [view EXCEPT ![t] = [InitialView EXCEPT !.phase = "acquiring"]]
        /\ UNCHANGED <<room, present, conn, mail, faults>>
    BY DEF Join
  <1> HIDE DEF old
  <1>6. \A j \in Sessions : Closed(session[j]) \in SessionStates
    BY <1>1, ClosedFields
  <1>7. NewSession(t) \in SessionStates /\ Consistent(NewSession(t)) /\ NewSession(t).tab = t
        /\ ~NewSession(t).stopped /\ NewSession(t).media = "asked" /\ ~NewSession(t).muted
        /\ NewSession(t).peer = "none" /\ NewSession(t).socket = "none"
    BY <1>4, NewOK DEF NewSession, Consistent
  <1>8. LET v == [InitialView EXCEPT !.phase = "acquiring"]
        IN  v \in Views /\ v.phase = "acquiring" /\ v.shown = {} /\ v.muted = FALSE /\ v.local = None
    BY InitialFields
  <1>9. LabTypeOK'
    BY <1>1, <1>5, <1>6, <1>7, <1>8 DEF LabTypeOK
  <1>10. RoomTypeOK'
    <2>1. up' \in [Sessions -> Seq(Sayings)]
      BY <1>1, <1>5, SentTypes DEF Sayings
    <2>2. down' \in [Sessions -> Seq(Tellings)]
      BY <1>1, <1>5, EmptySeq
    <2>3. QED
      BY <1>5, <2>1, <2>2 DEF LabInv, RoomTypeOK
  <1>11. ASSUME NEW j \in Sessions PROVE SessionOK(j)' /\ OrderOK(j)'
    <2>1. SessionOK(j) /\ OrderOK(j) /\ session[j] \in SessionStates
      BY <1>1 DEF LabInv, ViewInv
    <2>2. CASE j = i
      <3>1. session'[j] = NewSession(t) /\ conn'[j] = "none" /\ down'[j] = <<>> /\ current'[t] = i
        BY <1>1, <1>2, <1>4, <1>5, <2>2
      <3>2. QED
        BY <1>7, <2>2, <3>1, NoneIsNoTab DEF SessionOK, OrderOK, Order, Running
    <2>3. CASE j = old
      <3>1. session'[j] = Closed(session[j]) /\ conn'[j] = conn[j] /\ down'[j] = <<>>
        BY <1>4, <1>5, <2>3
      <3>2. session[j].tab = t
        BY <1>3, <2>3, LabRoomAssumption
      <3>3. QED
        BY <1>4, <2>1, <3>1, <3>2, ClosedFields, ClosedConsistent DEF SessionOK, OrderOK, Order, Running
    <2>4. CASE j # i /\ j # old
      <3>1. session'[j] = session[j] /\ conn'[j] = conn[j] /\ down'[j] = down[j]
        BY <1>5, <2>4
      <3>2. Running(j) => current'[session[j].tab] = j
        BY <1>1, <1>5, <2>1, <2>4, RunningIsCurrent DEF SessionOK, LabInv, old
      <3>3. QED
        BY <2>1, <3>1, <3>2 DEF SessionOK, OrderOK, Running
    <2>5. QED
      BY <2>2, <2>3, <2>4
  <1>12. ASSUME NEW u \in Tabs PROVE TabOK(u)'
    <2>1. CASE u = t
      <3>1. current'[u] = i /\ session'[i] = NewSession(t)
            /\ view'[u] = [InitialView EXCEPT !.phase = "acquiring"]
        BY <1>1, <1>5, <2>1
      <3>2. current'[u] # None /\ session'[current'[u]] = NewSession(t)
        BY <3>1, NoneIsNoTab
      <3>3. Shows(view'[u], i, NewSession(t))
        <4> DEFINE v == view'[u]
        <4>1. v.phase = "acquiring" /\ v.shown = {} /\ v.muted = FALSE /\ v.local = None
          BY <1>8, <3>1
        <4>2. NewSession(t).muted = FALSE
          BY DEF NewSession
        <4>3. QED
          BY <1>7, <4>1, <4>2 DEF Shows, Final
      <3>4. QED
        BY <1>7, <2>1, <3>1, <3>2, <3>3 DEF TabOK
    <2>2. CASE u # t
      <3>1. TabOK(u) /\ current'[u] = current[u] /\ view'[u] = view[u]
        BY <1>1, <1>5, <2>2 DEF LabInv, ViewInv
      <3>2. current[u] # None =>
               /\ current[u] \in Sessions /\ session[current[u]].tab = u
        BY <1>1, <3>1 DEF TabOK
      <3>3. current[u] # None => current[u] # i /\ current[u] # old
        BY <1>2, <1>3, <2>2, <3>2, NoneIsNoTab
      <3>4. current[u] # None => session'[current[u]] = session[current[u]]
        BY <1>5, <3>2, <3>3
      <3>5. QED
        BY <3>1, <3>4 DEF TabOK
    <2>3. QED
      BY <2>1, <2>2
  <1>13. QED
    BY <1>9, <1>10, <1>11, <1>12 DEF LabInv, ViewInv

-----------------------------------------------------------------------------

LEMMA LabStarts == LabInit => LabInv
  <1> SUFFICES ASSUME LabInit PROVE LabInv
    OBVIOUS
  <1>1. RoomTypeOK
    BY RoomStarts DEF LabInit
  <1>2. InitialView \in Views /\ InitialView.phase = "idle" /\ InitialView = [InitialView EXCEPT !.phase = "idle"]
    <2>1. InitialView \in Views /\ InitialView.phase = "idle"
      BY DEF InitialView, Views, Final
    <2>2. InitialView = [InitialView EXCEPT !.phase = "idle"]
      <3> HIDE DEF InitialView
      <3>1. QED
        BY <2>1 DEF Views
    <2>3. QED
      BY <2>1, <2>2
  <1>3. LabTypeOK
    BY <1>2, NewOK DEF LabInit, LabTypeOK
  <1>4. \A i \in Sessions : SessionOK(i)
    BY UnusedFields DEF LabInit, SessionOK, Consistent, Running
  <1>5. \A t \in Tabs : TabOK(t)
    <2> HIDE DEF InitialView
    <2>1. ASSUME NEW t \in Tabs PROVE current[t] = None /\ view[t] = InitialView
      BY DEF LabInit
    <2>2. QED
      BY <1>2, <2>1 DEF TabOK, Final
  <1>6. \A i \in Sessions : OrderOK(i)
    BY UnusedFields DEF LabInit, RoomInit, OrderOK, Order
  <1>7. QED
    BY <1>1, <1>3, <1>4, <1>5, <1>6 DEF LabInv, ViewInv

LEMMA LabStep == LabInv /\ [LabNext]_lvars => LabInv'
  <1> SUFFICES ASSUME LabInv, [LabNext]_lvars PROVE LabInv'
    OBVIOUS
  <1>1. ASSUME UNCHANGED <<session, view, current>> PROVE ViewInv'
    BY <1>1 DEF LabInv, ViewInv, LabTypeOK, SessionOK, TabOK, Running
  <1>2. CASE UNCHANGED lvars
    BY <1>1, <1>2 DEF lvars, rvars, LabInv, RoomTypeOK, OrderOK
  <1>3. CASE OfRoom
    <2>1. RoomTypeOK /\ RoomNext /\ UNCHANGED <<session, view, current>> /\ \A i \in Sessions : OrderOK(i)
      BY <1>3 DEF OfRoom, LabInv
    <2>2. RoomTypeOK' /\ \A i \in Sessions : OrderOK(i)'
      BY <2>1, RoomStep, RoomOrder
    <2>3. QED
      BY <1>1, <2>1, <2>2 DEF LabInv
  <1>4. ASSUME NEW t \in Tabs, User(t) PROVE LabInv'
    BY <1>4, LeaveInv, MuteInv, JoinInv DEF User
  <1>5. ASSUME NEW i \in Sessions,
               Media(i) \/ Network(i) \/ Receive(i) \/ Settles(i) \/ PeerConnection(i)
        PROVE  LabInv'
    BY <1>5, MediaComesInv, MediaRefusedInv, SocketOpensInv, SocketClosesInv, BeatInv, ReceiveInv,
       SettlesInv, CandidateInv, ConnectedInv, ConnectionFailsInv
       DEF Media, Network, PeerConnection
  <1>6. QED
    BY <1>2, <1>3, <1>4, <1>5 DEF LabNext

LEMMA LabAlways == LabSpec => []LabInv
  BY LabStarts, LabStep, PTL DEF LabSpec

\* A session that has ended holds neither capture nor connection, whatever was
\* under way when it did: the permission prompt, the socket, the peer connection;
\* and no tab runs two (close, fail, join).
THEOREM LabEndsClean == LabSpec => []EndedHoldsNothing
  <1>1. LabInv => EndedHoldsNothing
    BY RunningIsCurrent DEF LabInv, ViewInv, SessionOK, Consistent, EndedHoldsNothing
  <1>2. QED
    BY <1>1, LabAlways, PTL

\* The one view of a tab, which all its sessions write, is that of the current one
\* (patch, fail, leave).
THEOREM LabShowsItsSession == LabSpec => []ViewIsOfTheSession
  <1>1. LabInv => ViewIsOfTheSession
    <2> SUFFICES ASSUME LabInv, NEW t \in Tabs
                 PROVE  LET i == current[t] IN
                        IF i # None /\ Running(i)
                        THEN /\ Active(t) /\ view[t].shown \subseteq {i}
                             /\ view[t].muted = session[i].muted
                             /\ view[t].local = IF session[i].media = "held" THEN i ELSE None
                        ELSE view[t] = [InitialView EXCEPT !.phase = view[t].phase] /\ ~Active(t)
      BY DEF ViewIsOfTheSession
    <2>1. TabOK(t)
      BY DEF LabInv, ViewInv
    <2>2. CASE current[t] = None
      BY <2>1, <2>2 DEF TabOK, Active
    <2>3. CASE current[t] # None /\ Running(current[t])
      BY <2>1, <2>3 DEF TabOK, Shows, Active, Running
    <2>4. CASE current[t] # None /\ ~Running(current[t])
      BY <2>1, <2>4 DEF TabOK, Shows, Active, Running
    <2>5. QED
      BY <2>2, <2>3, <2>4
  <1>2. QED
    BY <1>1, LabAlways, PTL

\* The server says "ready" before it forwards what was published to a connection,
\* though it subscribes before it claims: the browser has made its peer connection
\* by the time a message needs it (the claim's handler, receive).
THEOREM LabPeerIsThere == LabSpec => []PeerIsThereInTime
  <1>1. LabInv => PeerIsThereInTime
    BY DEF LabInv, RoomTypeOK, Conns, OrderOK, Order, PeerIsThereInTime, Running
  <1>2. QED
    BY <1>1, LabAlways, PTL
=============================================================================
