--------------------------- MODULE DiscoveryClient ---------------------------
(***************************************************************************)
(* The discovery page (components/discovery/discovery.tsx) of one user and  *)
(* what the server does for it.  The page chains its events: each waits     *)
(* until the one before is handled, and handling one may wait for the       *)
(* camera, the frames or the peer connection.  Changing the camera, closing *)
(* of the socket and leaving the page do not wait for the chain.            *)
(***************************************************************************)
EXTENDS ProcessedCamera, Sequences, FiniteSets

CONSTANTS Matches,         \* the identities of encounters
          Offers,          \* those in which this page makes the offer
          NoMatch, NoCam,  \* no encounter, no capture
          MaxRequests, MaxEvents,  \* bounds: messages to and from the server
          MaxChanges       \* bound: changes of the camera

ASSUME DiscoveryAssumption ==
    /\ Offers \subseteq Matches /\ NoMatch \notin Matches /\ NoCam \notin Cams
    /\ {"absent", "idle", "queued"} \cap Matches = {}
    /\ {MaxRequests, MaxEvents, MaxChanges} \subseteq Nat

VARIABLES srv,             \* the user on the server: absent, idle, queued, or the match
          inbox, outbox,   \* messages from and to the server
          page,            \* the page: its socket, what it shows, its refs
          chain,           \* what the handler of an event waits for
          swap,            \* where switchCamera waits
          late             \* cameras attached after their encounter

dvars == <<cam, srv, inbox, outbox, page, chain, swap, late>>

\* socket: "loading" until there is one.  capture, raw and local are the refs of
\* the three streams, pc and ice the peer connection with its waiting candidates.
NewPage == [socket |-> "loading", stopped |-> FALSE, phase |-> "connecting", match |-> NoMatch,
            requeue |-> FALSE, capture |-> NoCam, raw |-> NoCam, local |-> NoCam,
            pc |-> "none", ice |-> 0]

\* fresh: mediaGeneration is what it was when the wait began.
Idle   == [at |-> "idle", cam |-> NoCam, fresh |-> TRUE]
NoSwap == [at |-> "no", cam |-> NoCam, fresh |-> TRUE, left |-> MaxChanges]
SwapOver == [NoSwap EXCEPT !.left = swap.left]

Event(type, m) == [type |-> type, match |-> m]
Listening == page.socket = "open" /\ ~page.stopped
Changing == IF swap.at = "no" THEN 0 ELSE 1
MayAsk  == Len(outbox) + Changing < MaxRequests
MayTell == Len(inbox) + Changing < MaxEvents
Send(type, m) == outbox' = Append(outbox, Event(type, m))

\* cleanupPeer, cleanupMedia
WithoutPeer(p)  == [p EXCEPT !.pc = "none", !.ice = 0]
WithoutMedia(p) == [p EXCEPT !.capture = NoCam, !.raw = NoCam, !.local = NoCam]
\* drops the streams without stopping their tracks (a faulty variant of Released)
Dropped == cam

Released ==
    [c \in Cams |-> IF c = page.capture THEN Stopped(cam[c])
                    ELSE IF c = page.raw THEN [cam[c] EXCEPT !.input = FALSE] ELSE cam[c]]
Outdated(w) == [w EXCEPT !.fresh = FALSE, !.at = IF @ = "replacing" THEN "late" ELSE @]

\* cleanupCall, and the page p that is left: whoever waits comes back too late.
CleanupCall(p) ==
    /\ cam' = Released
    /\ page' = WithoutMedia(WithoutPeer(p))
    /\ swap' = IF swap.at = "no" THEN swap ELSE Outdated(swap)
    /\ chain' = IF chain.at = "idle" THEN chain ELSE Outdated(chain)

-----------------------------------------------------------------------------
(* Faulty variants, for the properties to detect: none is part of DiscoveryNext. *)

\* leaves the view of the encounter to the next one
ViewKept(p) == [p EXCEPT !.requeue = FALSE, !.phase = "ready"]

\* forgets the candidates that came first
RemoteAlone(p) == [p EXCEPT !.pc = "remote"]

\* tells of the end of an encounter whenever somebody leaves it
EndsAnyway(m) == TRUE

\* shows the last phase of the encounter that is over
PhaseKept(p) == [p EXCEPT !.match = NoMatch, !.requeue = FALSE]

-----------------------------------------------------------------------------
DiscoveryInit ==
    /\ CameraInit
    /\ srv = "absent" /\ inbox = <<>> /\ outbox = <<>>
    /\ page = NewPage /\ chain = Idle /\ swap = NoSwap /\ late = {}

(* The socket. *)

\* The profile is loaded and complete, and the socket made; or the page moves on,
\* or shows that it is offline.
Load ==
    /\ page.socket = "loading" /\ ~page.stopped
    /\ \/ page' = [page EXCEPT !.socket = "connecting"]
       \/ page' = [page EXCEPT !.socket = "none"]
       \/ page' = [page EXCEPT !.socket = "none", !.phase = "offline"]
    /\ UNCHANGED <<cam, srv, inbox, outbox, chain, swap, late>>

\* The server greets, and brings an encounter m back that is going on.  Only then
\* comes what was published since it subscribed, most of it before it looked for m:
\* the announcement of m, or the end of an encounter a of the socket before.  Such
\* an end is "over" here, and match.ended like every other to the page.  (Bounds:
\* one encounter a, and no signals.)
Open ==
    /\ page.socket = "connecting"
    /\ page' = [page EXCEPT !.socket = "open"]
    /\ LET ready == Event("ready", NoMatch) IN
          \/ srv' = "idle" /\ inbox' = <<ready>>
          \/ \E a \in Matches : LET was == Event("found", a)  over == Event("over", a) IN
                srv' = "idle" /\ inbox' \in {<<ready, over>>, <<ready, was, over>>}
          \/ \E m \in Matches : LET found == Event("found", m) IN
                srv' = m /\ inbox' \in {<<ready, found>>, <<ready, found, found>>}
          \/ \E m \in Matches : \E a \in Matches \ {m} :
                LET found == Event("found", m)  was == Event("found", a)  over == Event("over", a)
                IN  srv' = m /\ inbox' \in {<<ready, found, over, found>>,
                                            <<ready, found, was, over, found>>}
    /\ UNCHANGED <<cam, outbox, chain, swap, late>>

\* onclose
CloseSocket ==
    /\ page.socket \in {"connecting", "open"}
    /\ CleanupCall([page EXCEPT !.socket = "closed", !.phase = "offline"])
    /\ srv' = "absent" /\ inbox' = <<>> /\ outbox' = <<>>
    /\ UNCHANGED late

\* The page is left.
Unmount ==
    /\ ~page.stopped
    /\ CleanupCall([page EXCEPT !.stopped = TRUE,
                        !.socket = IF @ \in {"connecting", "open"} THEN "closed" ELSE @])
    /\ srv' = "absent" /\ inbox' = <<>> /\ outbox' = <<>>
    /\ UNCHANGED late

(* getUserMedia: a capture that nothing refers to. *)

Acquire(c) ==
    /\ c \notin {page.capture, page.raw, page.local, chain.cam, swap.cam}
    /\ Capture(c)
    /\ late' = late \ {c}

(* The user. *)

Join ==
    /\ Listening /\ page.match = NoMatch /\ page.phase = "ready" /\ MayAsk
    /\ Send("join", NoMatch)
    /\ UNCHANGED <<cam, srv, inbox, page, chain, swap, late>>

Cancel ==
    /\ Listening /\ page.match = NoMatch /\ page.phase = "queued" /\ MayAsk
    /\ Send("cancel", NoMatch)
    /\ UNCHANGED <<cam, srv, inbox, page, chain, swap, late>>

\* Leave, or Next, after which a new search is wanted.
MatchAction(type) ==
    /\ Listening /\ page.match # NoMatch /\ MayAsk
    /\ Send("leave", page.match)
    /\ page' = [page EXCEPT !.requeue = @ \/ type = "skip"]
    /\ UNCHANGED <<cam, srv, inbox, chain, swap, late>>

(* The server. *)

\* Leaving ends the match the user is in, and no other.
Ends(m) == srv = m

Serve ==
    /\ outbox # <<>> /\ MayTell /\ outbox' = Tail(outbox)
    /\ LET request == Head(outbox) IN
          \/ /\ request.type = "join"
             /\ \/ srv \in {"idle", "queued"} /\ srv' = "queued"
                   /\ inbox' = Append(inbox, Event("joined", NoMatch))
                \/ srv \in Matches /\ UNCHANGED <<srv, inbox>>       \* queue_unavailable
          \/ /\ request.type = "cancel"
             /\ srv' = IF srv = "queued" THEN "idle" ELSE srv
             /\ inbox' = Append(inbox, Event("left", NoMatch))
          \/ /\ request.type = "leave"
             /\ IF Ends(request.match)
                THEN /\ srv' = IF srv = request.match THEN "idle" ELSE srv
                     /\ inbox' = Append(inbox, Event("ended", request.match))
                ELSE UNCHANGED <<srv, inbox>>
    /\ UNCHANGED <<cam, page, chain, swap, late>>

\* Somebody is found.  The event may overtake the answer to the request to join,
\* which the handler writes itself.
Claim(m) ==
    /\ srv = "queued" /\ MayTell
    /\ m # page.match /\ \A i \in DOMAIN inbox : inbox[i].match # m
    /\ \A i \in DOMAIN outbox : outbox[i].match # m
    /\ srv' = m
    /\ \/ inbox' = Append(inbox, Event("found", m))
       \/ LET n == Len(inbox) IN
             /\ n > 0 /\ inbox[n].type = "joined"
             /\ inbox' = [inbox EXCEPT ![n] = Event("found", m)] \o <<inbox[n]>>
    /\ UNCHANGED <<cam, outbox, page, chain, swap, late>>

\* The minute is over, the peer leaves, or one of them blocks the other.
MatchEnds ==
    /\ srv \in Matches /\ MayTell
    /\ srv' = "idle" /\ inbox' = Append(inbox, Event("ended", srv))
    /\ UNCHANGED <<cam, outbox, page, chain, swap, late>>

\* The peer answers or offers, finds a candidate, or comes back: one at a time.
PeerSignals(type) ==
    /\ srv \in Matches /\ inbox = <<>>
    /\ type \in {IF srv \in Offers THEN "answer" ELSE "offer", "ice", "reconnected"}
    /\ type = "ice" => page.ice = 0                        \* bound
    /\ inbox' = Append(inbox, Event(type, srv))
    /\ UNCHANGED <<cam, srv, outbox, page, chain, swap, late>>

(* Handling an event. *)

Shows(p) == page' = p /\ UNCHANGED <<cam, outbox, chain, swap>>
Await(p, at) == page' = p /\ chain' = [Idle EXCEPT !.at = at] /\ UNCHANGED <<cam, outbox, swap>>

\* startCall: the media of this encounter if they are still live, or new ones
HasMedia(p) == p.local # NoCam /\ Sending(p.local)
StartCall(p) ==
    IF HasMedia(p) THEN Await([WithoutPeer(p) EXCEPT !.pc = "new"], "senders")
    ELSE /\ page' = WithoutMedia(WithoutPeer(p)) /\ cam' = Released
         /\ swap' = IF swap.at = "no" THEN swap ELSE Outdated(swap)
         /\ chain' = [Idle EXCEPT !.at = "media"]
         /\ UNCHANGED outbox

Ended(p) == [p EXCEPT !.match = NoMatch, !.phase = "ready", !.requeue = FALSE]

Apply(event) ==
    LET p == page
        current == event.match = p.match
    IN  \/ event.type \in {"ready", "left"} /\ Shows([p EXCEPT !.phase = "ready"])
        \/ event.type = "joined" /\ Shows([p EXCEPT !.phase = "queued"])
        \/ event.type = "found"
           /\ StartCall([p EXCEPT !.match = event.match, !.phase = "matched"])
        \/ event.type = "offer"
           /\ IF current /\ p.pc # "none" THEN Await(p, "answering") ELSE Shows(p)
        \/ event.type = "answer"
           /\ IF current /\ p.pc # "none" THEN Await(p, "applying") ELSE Shows(p)
        \/ event.type = "ice"
           /\ Shows([p EXCEPT !.ice = IF current /\ p.pc # "remote" THEN @ + 1 ELSE @])
        \/ event.type = "reconnected"
           /\ IF p.match = NoMatch THEN Shows(p) ELSE StartCall(p)
        \/ event.type \in {"ended", "over"}
           /\ CleanupCall(Ended(p))
           /\ IF p.requeue THEN Send("join", NoMatch) ELSE UNCHANGED outbox

Receive ==
    /\ Listening /\ chain.at = "idle" /\ inbox # <<>>
    /\ inbox' = Tail(inbox)
    /\ Apply(Head(inbox))
    /\ UNCHANGED <<srv, late>>

(* startCall after its first wait. *)

Returns == chain' = Idle
InTime(w) == ~page.stopped /\ w.fresh

\* The camera comes with the microphone, and is stopped at once when the page has
\* no use for it any more.
MediaComes ==
    /\ chain.at = "media"
    /\ \/ /\ InTime(chain)
          /\ \E c \in Cams :
                /\ Acquire(c)
                /\ page' = [page EXCEPT !.raw = c]
                /\ chain' = [chain EXCEPT !.at = "process", !.cam = c]
       \/ Returns /\ UNCHANGED <<cam, page, late>>       \* refused, or too late
    /\ UNCHANGED <<srv, inbox, outbox, swap>>

\* processCamera is done: the capture is kept, or stopped.
Keeps(w) == InTime(w)
FramesCome ==
    /\ chain.at = "process"
    /\ \/ Process(chain.cam) \/ Play(chain.cam)
    /\ LET at == cam'[chain.cam].at IN
          \/ at = "play" /\ UNCHANGED <<page, chain>>
          \/ at = "none" /\ Returns /\ UNCHANGED page
          \/ /\ at \in {"frames", "canvas"} /\ Keeps(chain)
             /\ page' = [page EXCEPT !.capture = chain.cam, !.local = chain.cam]
             /\ chain' = [Idle EXCEPT !.at = "devices"]
    /\ UNCHANGED <<srv, inbox, outbox, swap, late>>

FramesComeLate ==
    /\ chain.at = "process" /\ ~Keeps(chain)
    /\ Stop(chain.cam) /\ Returns
    /\ UNCHANGED <<srv, inbox, outbox, page, swap, late>>

\* enumerateDevices; the stream may be gone by then.
MakePeer ==
    /\ chain.at = "devices"
    /\ \/ /\ page.local # NoCam
          /\ page' = [page EXCEPT !.pc = "new"]
          /\ chain' = [Idle EXCEPT !.at = "senders"]
       \/ Returns /\ UNCHANGED page
    /\ UNCHANGED <<cam, srv, inbox, outbox, swap, late>>

\* setParameters, and the offer if it is for this page to make it
Offer ==
    /\ chain.at = "senders"
    /\ Returns
    /\ UNCHANGED <<cam, srv, inbox, outbox, page, swap, late>>

\* setRemoteDescription, applyPendingIce and, for an offer, the answer
Remote(p) == [p EXCEPT !.pc = "remote", !.ice = 0]
Negotiate ==
    /\ chain.at \in {"answering", "applying"}
    /\ \/ chain.fresh /\ page.pc # "none" /\ page' = Remote(page)
       \/ UNCHANGED page                              \* refused, or closed meanwhile
    /\ Returns
    /\ UNCHANGED <<cam, srv, inbox, outbox, swap, late>>

(* switchCamera. *)

Choose ==
    /\ page.match # NoMatch /\ ~page.stopped /\ swap.at = "no" /\ swap.left > 0
    /\ swap' = [NoSwap EXCEPT !.at = "media", !.left = swap.left - 1]
    /\ UNCHANGED <<cam, srv, inbox, outbox, page, chain, late>>

SwapComes ==
    /\ swap.at = "media"
    /\ \/ \E c \in Cams : /\ Acquire(c)
                          /\ swap' = [swap EXCEPT !.at = "process", !.cam = c]
       \/ swap' = SwapOver /\ UNCHANGED <<cam, late>>
    /\ UNCHANGED <<srv, inbox, outbox, page, chain>>

\* Processed, it replaces the track that is sent, if the encounter is the same, ...
Replaceable == page.local # NoCam /\ page.pc # "none" /\ swap.fresh
SwapProcessed ==
    /\ swap.at = "process"
    /\ \/ /\ Process(swap.cam) \/ Play(swap.cam)
          /\ LET at == cam'[swap.cam].at IN
                \/ at = "play" /\ UNCHANGED swap
                \/ at = "none" /\ swap' = SwapOver
                \/ /\ at \in {"frames", "canvas"} /\ Replaceable
                   /\ swap' = [swap EXCEPT !.at = "replacing"]
       \/ /\ ~Replaceable
          /\ Stop(swap.cam) /\ swap' = SwapOver
    /\ UNCHANGED <<srv, inbox, outbox, page, chain, late>>

\* ... which is not asked again when the track has been replaced.
SwapDone ==
    /\ swap.at \in {"replacing", "late"}
    /\ cam' = [c \in Cams |-> IF c = page.capture THEN Stopped(cam[c]) ELSE cam[c]]
    /\ page' = [page EXCEPT !.capture = swap.cam,
                            !.local = IF swap.at = "late" THEN @ ELSE swap.cam]
    /\ late' = IF swap.at = "late" THEN late \cup {swap.cam} ELSE late
    /\ swap' = SwapOver
    /\ UNCHANGED <<srv, inbox, outbox, chain>>

SwapFails ==
    /\ swap.at \in {"replacing", "late"}
    /\ Stop(swap.cam) /\ swap' = SwapOver
    /\ UNCHANGED <<srv, inbox, outbox, page, chain, late>>

Picture == (\E c \in Cams : Frames(c)) /\ UNCHANGED <<srv, inbox, outbox, page, chain, swap, late>>

Handling == MediaComes \/ FramesCome \/ FramesComeLate \/ MakePeer \/ Offer \/ Negotiate
Server == \/ Serve \/ MatchEnds \/ \E m \in Matches : Claim(m)
          \/ \E type \in {"offer", "answer", "ice", "reconnected"} : PeerSignals(type)
Camera == Choose \/ SwapComes \/ SwapProcessed \/ SwapDone \/ SwapFails \/ Picture

DiscoveryNext ==
    \/ Load \/ Open \/ CloseSocket \/ Unmount
    \/ Join \/ Cancel \/ \E type \in {"leave", "skip"} : MatchAction(type)
    \/ Receive \/ Handling \/ Server \/ Camera

DiscoverySpec == DiscoveryInit /\ [][DiscoveryNext]_dvars

\* Prompts are answered and browser calls settle: then the chain goes on.
FairDiscoverySpec == DiscoverySpec /\ WF_dvars(Receive) /\ WF_dvars(Handling)

-----------------------------------------------------------------------------

\* A camera is on for the handler or the change that waits for it, for the encounter
\* in view while there is one and a socket, or because that change was completing
\* when the encounter ended (cameras that stay on then are late).
On == {c \in Cams : cam[c].input}
Needless == (page.match = NoMatch \/ page.socket # "open") /\ chain.at = "idle"
CamerasAreOwned ==
    On \subseteq {chain.cam, swap.cam} \cup late
                \cup (IF Needless THEN {} ELSE {page.capture})

\* match.ended names no encounter that is not the one in view: the page applies it
\* whatever it names.  One from before the socket was open may find another one in
\* view, which it takes down; then that one is announced again.
EndIsOfThisEncounter ==
    Listening /\ chain.at = "idle" /\ inbox # <<>> =>
        LET end == Head(inbox) IN
        /\ end.type = "ended" => end.match = page.match
        /\ end.type = "over" =>
              \/ page.match \in {NoMatch, end.match}
              \/ \E i \in 2..Len(inbox) : inbox[i] = Event("found", page.match)

\* Candidates wait for a description only.
CandidatesAreAdded == page.pc = "remote" => page.ice = 0

\* When nothing is under way, the page shows what the server holds.
PageShowsTheServer ==
    Listening /\ chain.at = "idle" /\ inbox = <<>> /\ outbox = <<>> =>
        /\ (page.match # NoMatch \/ srv \in Matches) => page.match = srv
        /\ page.match = NoMatch => page.phase = IF srv = "queued" THEN "queued" ELSE "ready"

\* An encounter that is over on the server ends on the page, whatever the page was
\* waiting for.
EndIsShown ==
    \A m \in Matches : page.match = m /\ srv # m ~> page.match # m \/ ~Listening
=============================================================================
