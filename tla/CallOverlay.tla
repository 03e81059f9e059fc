----------------------------- MODULE CallOverlay -----------------------------
(***************************************************************************)
(* The overlay of one call in the browser tabs of its two parties           *)
(* (components/communication/video-call.tsx, runtime.tsx): the tab that     *)
(* started it, and the tabs in which the callee is rung.  A tab handles its *)
(* events one after the other; permission prompts, requests and peer        *)
(* connection calls suspend it, and everything else happens meanwhile.      *)
(*                                                                         *)
(* srv is what Calls says of the call: answered once, then ended, or lapsed *)
(* when nobody renews it.                                                   *)
(***************************************************************************)
EXTENDS Naturals, Sequences, FiniteSets

CONSTANTS Incoming,        \* the callee's tabs
          Outgoing,        \* the tab that calls
          Video,           \* call.video
          Trickling,       \* the tabs that find a candidate
          Restless         \* the tabs whose user presses Accept twice, or changes the camera

ASSUME OverlayAssumption ==
    /\ Outgoing \notin Incoming /\ Video \in BOOLEAN
    /\ Trickling \cup Restless \subseteq Incoming \cup {Outgoing}

Tabs == Incoming \cup {Outgoing}

VARIABLES srv,             \* the call on the server
          tab,             \* the overlay of each tab, with its refs
          ends             \* the tabs with an "end" or "decline" under way

ovars == <<srv, tab, ends>>

\* view: what is shown, "starting" while startCall waits; dead: "told" that
\* another tab answered; past: callPhase is not "ringing"; setup and work: where
\* setup() and the handler of an event wait; posts: accepts under way; sdp: how
\* many of the two descriptions are set; ice: the pending candidates; swap:
\* where a change of the camera waits; inbox: events on their way to the tab, or
\* waiting in its chain.
NewTab == [view |-> "none", dead |-> "no", past |-> FALSE, setup |-> "no", twice |-> FALSE,
           posts |-> 0, held |-> {}, sdp |-> "none", ice |-> 0, found |-> FALSE,
           work |-> "idle", swap |-> "no", linked |-> FALSE, inbox |-> <<>>]

Mounted(t) == tab[t].view \notin {"none", "starting"}
Alive(t)   == Mounted(t) /\ tab[t].dead = "no"
Beats(t)   == Alive(t) /\ tab[t].past
Ongoing    == srv \in {"ringing", "active"}
Others(t)  == IF t = Outgoing THEN Incoming ELSE {Outgoing}
RemoteSet(t) == tab[t].sdp = "both" \/ (t \in Incoming /\ tab[t].sdp = "half")
HasSender(t) == IF t = Outgoing THEN tab[t].past ELSE tab[t].sdp = "both"

\* cleanup(); what makes no difference to a dead overlay any more is forgotten.
Cleanup(s) ==
    [NewTab EXCEPT
        !.view  = s.view,
        !.dead  = IF s.dead = "no" THEN "yes" ELSE s.dead,
        !.setup = IF s.setup = "no" THEN "done" ELSE IF s.setup = "camera" THEN "mic" ELSE s.setup,
        !.work  = IF s.work \in {"offering", "answering"} THEN "applying" ELSE s.work,
        !.posts = IF srv = "ringing" THEN s.posts ELSE 0,
        !.swap  = IF s.swap = "asking" THEN "no" ELSE s.swap]
Show(s, view) == [s EXCEPT !.view = IF @ = "none" THEN @ ELSE view]
Ended(s)      == Show(Cleanup(s), "ended")
Closed(s)     == [Cleanup(s) EXCEPT !.view = "none", !.work = "idle"]

\* Events go to every tab of a user; a dead overlay handles none.
Sent(event, to, s, t) == IF t \in to /\ s.dead = "no"
                         THEN [s EXCEPT !.inbox = Append(@, event)] ELSE s

Becomes(t, s) == tab' = [tab EXCEPT ![t] = s]
Emits(event, to, t, s) ==
    tab' = [x \in Tabs |-> Sent(event, to, IF x = t THEN s ELSE tab[x], x)]

\* action("end"): a call that is over answers 404.
PostsEnd(t) == ends' = IF Ongoing THEN ends \cup {t} ELSE ends

\* finish(): release everything, close the overlay, end the call
Finish(t) == Becomes(t, Closed(tab[t])) /\ PostsEnd(t)

-----------------------------------------------------------------------------
(* Faulty variants, for the properties to detect: none is part of OverlayNext. *)

\* uses the microphone whenever it comes
MicUnchecked(s) == [s EXCEPT !.held = @ \cup {"mic"}, !.setup = "camera"]

\* goes on when the server refuses the accept
RefusalUnread(s) == [s EXCEPT !.posts = @ - 1]

\* does not add the candidates that came before the offer
AnswerAlone(s) == [s EXCEPT !.sdp = "both", !.work = "answer"]

\* heartbeats whose answers nobody reads
BeatUnread(t) == Beats(t) /\ srv # "active" /\ UNCHANGED ovars

\* gives up unanswered calls only
GivesUpRinging(s) == ~s.past /\ ~s.linked

-----------------------------------------------------------------------------
OverlayInit ==
    /\ srv = "none"
    /\ tab = [t \in Tabs |-> NewTab]
    /\ ends = {}

(* Starting and ringing. *)

\* startCall: no call open; it waits for the server, ...
StartCall ==
    /\ srv = "none" /\ tab[Outgoing].view = "none"
    /\ Becomes(Outgoing, [tab[Outgoing] EXCEPT !.view = "starting"])
    /\ UNCHANGED <<srv, ends>>

\* ... which reserves both and rings the callee, ...
Invite ==
    /\ srv = "none" /\ tab[Outgoing].view = "starting"
    /\ srv' = "ringing"
    /\ Emits("invited", Incoming, Outgoing, tab[Outgoing])
    /\ UNCHANGED ends

\* ... and shows the overlay with the answer; events that came before it have
\* found no overlay.  A refusal shows none.
Mount ==
    /\ tab[Outgoing].view = "starting"
    /\ \/ srv # "none" /\ Becomes(Outgoing, [tab[Outgoing] EXCEPT !.view = "ringing"])
       \/ Becomes(Outgoing, [tab[Outgoing] EXCEPT !.view = "none"])
    /\ UNCHANGED <<srv, ends>>

(* setup(): microphone, camera, peer connection, each awaited. *)

Starts(s) == IF s.setup = "no" THEN [s EXCEPT !.setup = "mic"] ELSE s

\* Stopped when the call is over by then.
TakeMic(s) ==
    IF s.dead # "no" THEN [s EXCEPT !.setup = "done"]
    ELSE [s EXCEPT !.held = @ \cup {"mic"}, !.setup = "camera"]

TakeCamera(s) ==
    IF s.dead # "no" THEN [s EXCEPT !.setup = "done"]
    ELSE [s EXCEPT !.held = @ \cup (IF Video THEN {"camera", "peer"} ELSE {"peer"}),
                   !.setup = "attach"]

\* The end of setup() and, for the callee, of accept(), which then asks.
\* attachCallMedia is awaited by the caller only; nothing is checked after it.
Greet(s) == [Show(s, "connecting") EXCEPT !.setup = "done", !.past = TRUE,
                 !.posts = IF s.work = "setup" \/ s.dead # "no" THEN @ ELSE @ + 1]

Setup(t) ==
    /\ \/ tab[t].setup = "mic" /\ Becomes(t, TakeMic(tab[t]))
       \/ /\ tab[t].setup = "camera"
          /\ LET s == TakeCamera(tab[t]) IN
                Becomes(t, IF t \in Incoming /\ s.setup = "attach" THEN Greet(s) ELSE s)
    /\ UNCHANGED <<srv, ends>>

\* attachCallMedia: the tracks get their transceivers.
Attach(t) ==
    /\ tab[t].setup = "attach"
    /\ Becomes(t, Greet(tab[t]))
    /\ UNCHANGED <<srv, ends>>

\* A refused permission, or a failing device, ends the call, ...
SetupFails(t) ==
    /\ tab[t].setup \in {"mic", "camera", "attach"}
    /\ Becomes(t, [tab[t] EXCEPT !.setup = "failed"])
    /\ PostsEnd(t)
    /\ UNCHANGED srv

\* ... and then the overlay.
AfterFailure(t) ==
    /\ tab[t].setup = "failed" /\ t \notin ends
    /\ Becomes(t, [Ended(tab[t]) EXCEPT !.setup = "done"])
    /\ UNCHANGED <<srv, ends>>

\* The Accept button is there until setup is done: a second press finds setup
\* started, and asks at once.
PressAccept(t) ==
    /\ t \in Incoming /\ tab[t].view = "ringing"
    /\ \/ tab[t].setup = "no" /\ Becomes(t, Starts(tab[t]))
       \/ /\ t \in Restless /\ tab[t].setup # "no" /\ tab[t].dead = "no" /\ ~tab[t].twice
          /\ Becomes(t, [tab[t] EXCEPT !.twice = TRUE, !.posts = @ + 1])
    /\ UNCHANGED <<srv, ends>>

(* The requests. *)

Posted(s)  == [s EXCEPT !.posts = @ - 1]
Refused(s) == Ended(Posted(s))

\* The first accept is told to all tabs of both; its answer may be lost.
AcceptCall(t) ==
    /\ tab[t].posts > 0
    /\ \/ /\ srv = "ringing"
          /\ srv' = "active"
          /\ \E s \in {Posted(tab[t]), Refused(tab[t])} :
                Emits("accept", Tabs, t, s)
       \/ Becomes(t, Refused(tab[t])) /\ UNCHANGED srv      \* too late, or the request is lost
    /\ UNCHANGED ends

EndCall(t) ==
    /\ t \in ends
    /\ \/ srv' = "over" /\ ends' = {} /\ Emits("end", Tabs, t, tab[t])
       \/ ends' = ends \ {t} /\ UNCHANGED <<srv, tab>>       \* the request is lost

\* The call's key runs out: 45 s after the invitation, or without heartbeats.
Lapse ==
    /\ srv = "ringing" \/ (srv = "active" /\ ~\E t \in Tabs : Beats(t))
    /\ srv' = "over" /\ ends' = {}
    /\ UNCHANGED tab

(* Handling an event: the chain takes the next when the last is done. *)

OnAccept(t, s) ==
    IF t = Outgoing THEN [Starts(s) EXCEPT !.work = "setup"]
    ELSE IF ~s.past THEN [Ended(s) EXCEPT !.dead = "told"] ELSE s

\* An offer reaches live tabs with a peer connection only: the others have been
\* told of the answer before.
OnOffer(s) == IF "peer" \in s.held THEN [s EXCEPT !.work = "answering"] ELSE s

OnCandidate(t, s) == IF RemoteSet(t) THEN s ELSE [s EXCEPT !.ice = @ + 1]

Handled(t, event, s) ==
    CASE event = "accept" -> OnAccept(t, s)
      [] event = "end"    -> Ended(s)
      [] event = "offer"  -> OnOffer(s)
      [] event = "answer" -> IF "peer" \in s.held THEN [s EXCEPT !.work = "applying"] ELSE s
      [] event = "ice"    -> OnCandidate(t, s)
      [] OTHER            -> s

\* No overlay: only an invitation is for it.
Receive(t) ==
    /\ tab[t].inbox # <<>> /\ tab[t].work = "idle"
    /\ LET event == Head(tab[t].inbox)
           s     == [tab[t] EXCEPT !.inbox = Tail(@)]
       IN  Becomes(t, IF event = "invited" /\ s.view = "none" THEN [s EXCEPT !.view = "ringing"]
                      ELSE IF Alive(t) THEN Handled(t, event, s) ELSE s)
    /\ UNCHANGED <<srv, ends>>

Answered(s) == [s EXCEPT !.sdp = "both", !.ice = 0, !.work = "answer"]

\* Descriptions are created and set while the peer connection is open; a second
\* answer is not.
Negotiate(t) ==
    /\ \/ /\ tab[t].work = "setup" /\ tab[t].setup = "done"
          /\ Becomes(t, [tab[t] EXCEPT !.work = IF "peer" \in tab[t].held THEN "offering"
                                                ELSE "idle"])
       \/ /\ "peer" \in tab[t].held
          /\ \/ /\ tab[t].work = "offering"
                /\ Becomes(t, [tab[t] EXCEPT !.sdp = "half", !.work = "offer"])
             \/ /\ tab[t].work = "answering"
                /\ Becomes(t, Answered(tab[t]))
             \/ /\ tab[t].work = "applying" /\ tab[t].sdp = "half"
                /\ Becomes(t, [tab[t] EXCEPT !.sdp = "both", !.ice = 0, !.work = "idle"])
    /\ UNCHANGED <<srv, ends>>

\* The offer or answer is passed on while the call is active.
PassOn(t) ==
    /\ tab[t].work \in {"offer", "answer"} /\ srv = "active"
    /\ Emits(tab[t].work, Others(t), t, [tab[t] EXCEPT !.work = "idle"])
    /\ UNCHANGED <<srv, ends>>

\* Any of it may fail, and does on a closed connection: the handler catches it.
HandlerFails(t) ==
    /\ tab[t].work \in {"offering", "answering", "applying", "offer", "answer"}
    /\ Finish(t)
    /\ UNCHANGED srv

\* onicecandidate, once the local description is set: one for all.
Candidate(t) ==
    /\ t \in Trickling /\ "peer" \in tab[t].held /\ srv = "active" /\ ~tab[t].found
    /\ IF t = Outgoing THEN tab[t].sdp # "none" ELSE tab[t].sdp = "both"
    /\ Emits("ice", Others(t), t, [tab[t] EXCEPT !.found = TRUE])
    /\ UNCHANGED <<srv, ends>>

\* onconnectionstatechange
Connected(t) ==
    /\ "peer" \in tab[t].held /\ tab[t].sdp = "both" /\ ~tab[t].linked
    /\ \E o \in Others(t) : tab[o].sdp = "both" /\ "peer" \in tab[o].held
    /\ Becomes(t, [Show(tab[t], "active") EXCEPT !.linked = TRUE])
    /\ UNCHANGED <<srv, ends>>

ConnectionFails(t) ==
    /\ "peer" \in tab[t].held /\ tab[t].sdp = "both"
    /\ Finish(t)
    /\ UNCHANGED srv

(* Timers and the user. *)

\* Each fires once; a call that is past it does not come back to it.
RingTimeout(t) ==
    /\ Alive(t) /\ ~tab[t].past
    /\ Finish(t)
    /\ UNCHANGED srv

GivesUp(s) == s.past /\ ~s.linked

ConnectingTimeout(t) ==
    /\ Alive(t) /\ GivesUp(tab[t])
    /\ Becomes(t, Ended(tab[t])) /\ PostsEnd(t)
    /\ UNCHANGED srv

\* A heartbeat that the server refuses; others change nothing here.
BeatRefused(t) ==
    /\ Beats(t) /\ srv # "active"
    /\ Becomes(t, Ended(tab[t]))
    /\ UNCHANGED <<srv, ends>>

\* End, Decline, Escape, leaving the page; Escape when the call has ended, too.
HangUp(t) ==
    /\ Mounted(t)
    /\ Finish(t)
    /\ UNCHANGED srv

Close(t) ==
    /\ tab[t].view = "ended"
    /\ Becomes(t, Closed(tab[t]))
    /\ UNCHANGED <<srv, ends>>

\* toggleVideo, switchCamera: the camera is asked for, ...
AskCamera(t) ==
    /\ t \in Restless /\ Alive(t) /\ HasSender(t) /\ tab[t].swap = "no"
    /\ Becomes(t, [tab[t] EXCEPT !.swap = "asking"])
    /\ UNCHANGED <<srv, ends>>

\* ... stopped at once if the call is over by then, and attached, ...
CameraComes(t) ==
    /\ tab[t].swap = "asking"
    /\ \/ tab[t].dead = "no" /\ Becomes(t, [tab[t] EXCEPT !.swap = "replacing"])
       \/ Becomes(t, [tab[t] EXCEPT !.swap = "no"])       \* over, or refused
    /\ UNCHANGED <<srv, ends>>

\* ... for which nothing is checked again.
CameraReplaced(t) ==
    /\ tab[t].swap = "replacing"
    /\ Becomes(t, [tab[t] EXCEPT !.held = @ \cup {"camera"},
                                 !.swap = IF tab[t].dead = "no" THEN "no" ELSE "late"])
    /\ UNCHANGED <<srv, ends>>

\* replaceTrack fails, and the new capture is stopped.  It may also stay unsettled
\* when the connection is closed meanwhile.
CameraFails(t) ==
    /\ tab[t].swap = "replacing"
    /\ Becomes(t, [tab[t] EXCEPT !.swap = "no"])
    /\ UNCHANGED <<srv, ends>>

CameraOff(t) ==
    /\ t \in Restless /\ Alive(t) /\ HasSender(t) /\ "camera" \in tab[t].held
    /\ Becomes(t, [tab[t] EXCEPT !.held = @ \ {"camera"}])
    /\ UNCHANGED <<srv, ends>>

\* The event socket closes: transport.closed ends the overlay, and events are
\* lost until it is open again.
Drop(t) ==
    /\ Alive(t) \/ tab[t].inbox # <<>>
    /\ Becomes(t, IF Mounted(t) THEN Ended(tab[t]) ELSE [tab[t] EXCEPT !.inbox = <<>>])
    /\ UNCHANGED <<srv, ends>>

User(t) == PressAccept(t) \/ HangUp(t) \/ Close(t) \/ AskCamera(t) \/ CameraOff(t)
Media(t) == \/ Setup(t) \/ Attach(t) \/ SetupFails(t) \/ AfterFailure(t) \/ CameraComes(t)
            \/ CameraReplaced(t) \/ CameraFails(t) \/ Candidate(t) \/ Connected(t) \/ ConnectionFails(t)
Signals(t) == \/ AcceptCall(t) \/ EndCall(t) \/ Receive(t) \/ Negotiate(t)
              \/ PassOn(t) \/ HandlerFails(t)
Timers(t) == RingTimeout(t) \/ ConnectingTimeout(t) \/ BeatRefused(t)

OverlayNext ==
    \/ StartCall \/ Invite \/ Mount \/ Lapse
    \/ \E t \in Tabs : User(t) \/ Media(t) \/ Signals(t) \/ Timers(t) \/ Drop(t)

OverlaySpec == OverlayInit /\ [][OverlayNext]_ovars

\* Timers fire, heartbeats go on, keys run out, and requests are answered or
\* fail.  Nothing is assumed of users, permissions, peers or sockets.
FairOverlaySpec ==
    /\ OverlaySpec
    /\ WF_ovars(Mount) /\ WF_ovars(Lapse)
    /\ \A t \in Tabs : WF_ovars(RingTimeout(t)) /\ WF_ovars(ConnectingTimeout(t))
                       /\ WF_ovars(BeatRefused(t)) /\ WF_ovars(EndCall(t))

-----------------------------------------------------------------------------

\* Whatever a tab was waiting for when its call ended, it releases the
\* microphone, the camera and the connection: only a camera that was being
\* attached at that moment may stay on.
DeadHoldsNothing ==
    \A t \in Tabs : tab[t].dead # "no" =>
        tab[t].held = {} \/ (tab[t].held = {"camera"} /\ tab[t].swap = "late")

\* Of the tabs in which the callee answers at once, one goes on to talk; the
\* others still wait for the server to refuse them.
OneTabTalks ==
    \A t, o \in Incoming : t # o /\ Beats(t) /\ Beats(o) =>
        tab[t].posts > 0 \/ tab[o].posts > 0

\* A candidate that came before the description is added with it.
NoCandidateWaits ==
    \A t \in Tabs : Alive(t) /\ RemoteSet(t) => tab[t].ice = 0

\* A call that is over ends in every tab, told or not.
OverIsOver == srv = "over" ~> \A t \in Tabs : ~Alive(t) /\ tab[t].view # "starting"

\* An answered call connects, or is over: nobody waits for a tab that is gone.
AnswerLeadsSomewhere ==
    srv = "active" ~> srv = "over" \/ \E t \in Tabs : tab[t].linked /\ Alive(t)

\* communication.md: a tab that was told of the answer elsewhere does not cancel
\* the call.
ToldDoesNotCancel ==
    [][\A t \in Tabs : tab[t].dead = "told" /\ t \in ends' => t \in ends]_ovars
=============================================================================
