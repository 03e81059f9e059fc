------------------------ MODULE DiscoveryClientProofs ------------------------
(***************************************************************************)
(* Theorems about the discovery page, for any captures, encounters and      *)
(* bounds: whatever it awaits, and however often encounters, changes and    *)
(* sockets end meanwhile, no capture is left without somebody who stops     *)
(* it, no frame is leaked, every capture that is on has an owner, and the   *)
(* page comes to show what the server holds.                                *)
(***************************************************************************)
EXTENDS DiscoveryClient, SequenceTheorems, TLAPS

\* What is invariant of one capture.  Only a capture that is sent by frames, or was,
\* has a loop.
Tended(r) ==
    /\ r.at \in {"none", "over"} => ~r.input
    /\ r.at = "frames" <=> r.loop # "off" /\ r.at # "over"
    /\ r.open # {} => r.loop = "writing"

CameraInv == CameraTypeOK /\ \A c \in Cams : Tended(cam[c])

\* What a step of the page may make of one capture.
CaptureStep(r, s) ==
    \/ s = r
    \/ s = Stopped(r)
    \/ s = LoopEnds(r)
    \/ s = Captured
    \/ r.at = "raw" /\ s = [r EXCEPT !.at = "frames", !.loop = "reading"]
    \/ r.at = "raw" /\ s = [r EXCEPT !.at = "play"]
    \/ r.at = "play" /\ s = [r EXCEPT !.at = "canvas"]
    \/ r.at = "frames" /\ r.loop = "reading"
       /\ s = [r EXCEPT !.loop = "writing", !.open = {"frame", "transformed"}]
    \/ r.at = "frames" /\ r.loop = "writing" /\ s = [r EXCEPT !.loop = "reading", !.open = {}]
    \/ s = [r EXCEPT !.input = FALSE]

CaptureSteps ==
    /\ cam' = [c \in Cams |-> cam'[c]]
    /\ \A c \in Cams : CaptureStep(cam[c], cam'[c])

-----------------------------------------------------------------------------
\* A stop, as often as it comes, leaves a capture off, or to its loop.
LEMMA StoppedIsTended ==
  ASSUME NEW r, r \in CameraStates, Tended(r), NEW s, s = Stopped(r)
  PROVE  s \in CameraStates /\ Tended(s)
  <1>1. s \in CameraStates
    BY DEF CameraStates, Stopped, NoCamera
  <1>2. Tended(s)
    BY DEF CameraStates, Tended, Stopped, NoCamera
  <1>3. QED
    BY <1>1, <1>2

\* The end of the loop is the end of the capture and of its frames.
LEMMA LoopEndsTended ==
  ASSUME NEW r, r \in CameraStates, NEW s, s = LoopEnds(r)
  PROVE  s \in CameraStates /\ Tended(s)
  <1>1. s = NoCamera
    BY DEF CameraStates, LoopEnds, Stopped, NoCamera
  <1>2. QED
    BY <1>1 DEF CameraStates, Tended, NoCamera

\* Every step of a capture keeps it tended.
LEMMA StepIsTended ==
  ASSUME NEW r, r \in CameraStates, Tended(r), NEW s, CaptureStep(r, s)
  PROVE  s \in CameraStates /\ Tended(s)
  <1>1. CASE s = r
    BY <1>1
  <1>2. CASE s = Stopped(r)
    BY <1>2, StoppedIsTended
  <1>3. CASE s = LoopEnds(r)
    BY <1>3, LoopEndsTended
  <1>4. CASE s = Captured
    BY <1>4 DEF CameraStates, Tended, Captured, NoCamera
  <1>5. CASE r.at = "raw" /\ s = [r EXCEPT !.at = "frames", !.loop = "reading"]
    BY <1>5 DEF CameraStates, Tended
  <1>6. CASE r.at = "raw" /\ s = [r EXCEPT !.at = "play"]
    BY <1>6 DEF CameraStates, Tended
  <1>7. CASE r.at = "play" /\ s = [r EXCEPT !.at = "canvas"]
    BY <1>7 DEF CameraStates, Tended
  <1>8. CASE /\ r.at = "frames" /\ r.loop = "reading"
             /\ s = [r EXCEPT !.loop = "writing", !.open = {"frame", "transformed"}]
    BY <1>8 DEF CameraStates, Tended
  <1>9. CASE /\ r.at = "frames" /\ r.loop = "writing"
             /\ s = [r EXCEPT !.loop = "reading", !.open = {}]
    BY <1>9 DEF CameraStates, Tended
  <1>10. CASE s = [r EXCEPT !.input = FALSE]
    BY <1>10 DEF CameraStates, Tended
  <1>11. QED
    BY <1>1, <1>2, <1>3, <1>4, <1>5, <1>6, <1>7, <1>8, <1>9, <1>10 DEF CaptureStep

\* A step of one capture leaves the others alone.
LEMMA OneCapture ==
  ASSUME CameraTypeOK, NEW c, NEW s, Is(c, s), c \in Cams => CaptureStep(cam[c], s)
  PROVE  CaptureSteps
  <1>1. cam' = [x \in Cams |-> IF x = c THEN s ELSE cam[x]]
    BY DEF Is, CameraTypeOK
  <1>2. ASSUME NEW x \in Cams PROVE CaptureStep(cam[x], cam'[x])
    <2>1. CASE x = c
      BY <1>1, <2>1
    <2>2. CASE x # c
      BY <1>1, <2>2 DEF CaptureStep
    <2>3. QED
      BY <2>1, <2>2
  <1>3. QED
    BY <1>1, <1>2 DEF CaptureSteps

LEMMA NoCapture ==
  ASSUME CameraTypeOK, UNCHANGED cam
  PROVE  CaptureSteps
  BY DEF CameraTypeOK, CaptureSteps, CaptureStep

\* cleanupMedia stops the capture and the raw stream, which may be two.
LEMMA ReleasedSteps ==
  ASSUME CameraTypeOK, cam' = Released
  PROVE  CaptureSteps
  <1>1. cam' = [c \in Cams |-> cam'[c]]
    BY DEF Released
  <1>2. ASSUME NEW c \in Cams PROVE CaptureStep(cam[c], cam'[c])
    <2>1. CASE c = page.capture
      BY <2>1 DEF Released, CaptureStep
    <2>2. CASE c # page.capture /\ c = page.raw
      <3>1. cam'[c] = [cam[c] EXCEPT !.input = FALSE]
        BY <2>2 DEF Released
      <3>2. QED
        BY <3>1 DEF CaptureStep
    <2>3. CASE c # page.capture /\ c # page.raw
      BY <2>3 DEF Released, CaptureStep
    <2>4. QED
      BY <2>1, <2>2, <2>3
  <1>3. QED
    BY <1>1, <1>2 DEF CaptureSteps

LEMMA TakenSteps ==
  ASSUME CameraTypeOK, NEW c, Capture(c)
  PROVE  CaptureSteps
  <1>1. CaptureStep(cam[c], Captured)
    BY DEF CaptureStep
  <1>2. QED
    BY <1>1, OneCapture DEF Capture

LEMMA StopSteps ==
  ASSUME CameraTypeOK, NEW c, Stop(c)
  PROVE  CaptureSteps
  <1>1. CaptureStep(cam[c], Stopped(cam[c]))
    BY DEF CaptureStep
  <1>2. QED
    BY <1>1, OneCapture DEF Stop

LEMMA ProcessSteps ==
  ASSUME CameraTypeOK, NEW c, Process(c)
  PROVE  CaptureSteps
  <1>1. PICK s : /\ Is(c, s) /\ cam[c].at = "raw"
                 /\ \/ s = [cam[c] EXCEPT !.at = "frames", !.loop = "reading"]
                    \/ s = [cam[c] EXCEPT !.at = "play"]
    BY Zenon DEF Process
  <1>2. CaptureStep(cam[c], s)
    BY <1>1, Zenon DEF CaptureStep
  <1>3. QED
    BY <1>1, <1>2, OneCapture

LEMMA PlaySteps ==
  ASSUME CameraTypeOK, NEW c, Play(c)
  PROVE  CaptureSteps
  <1>1. PICK s : /\ Is(c, s) /\ cam[c].at = "play"
                 /\ s = [cam[c] EXCEPT !.at = "canvas"] \/ s = Stopped(cam[c])
    BY Zenon DEF Play
  <1>2. CaptureStep(cam[c], s)
    BY <1>1, Zenon DEF CaptureStep
  <1>3. QED
    BY <1>1, <1>2, OneCapture

LEMMA FramesSteps ==
  ASSUME CameraTypeOK, NEW c, Frames(c)
  PROVE  CaptureSteps
  <1>1. CASE ReadFrame(c)
    <2>1. PICK s : /\ Is(c, s)
                   /\ \/ /\ cam[c].at = "frames" /\ cam[c].loop = "reading"
                         /\ s = [cam[c] EXCEPT !.loop = "writing", !.open = {"frame", "transformed"}]
                      \/ s = LoopEnds(cam[c])
      BY <1>1, Zenon DEF ReadFrame
    <2>2. CaptureStep(cam[c], s)
      BY <2>1, Zenon DEF CaptureStep
    <2>3. QED
      BY <2>1, <2>2, OneCapture
  <1>2. CASE WriteFrame(c)
    <2>1. PICK s : /\ Is(c, s)
                   /\ \/ /\ cam[c].at = "frames" /\ cam[c].loop = "writing"
                         /\ s = [cam[c] EXCEPT !.loop = "reading", !.open = {}]
                      \/ s = LoopEnds(cam[c])
      BY <1>2, Zenon DEF WriteFrame
    <2>2. CaptureStep(cam[c], s)
      BY <2>1, Zenon DEF CaptureStep
    <2>3. QED
      BY <2>1, <2>2, OneCapture
  <1>3. CASE Unplug(c)
    <2>1. PICK s : Is(c, s) /\ s = [cam[c] EXCEPT !.input = FALSE]
      BY <1>3, Zenon DEF Unplug
    <2>2. CaptureStep(cam[c], s)
      BY <2>1, Zenon DEF CaptureStep
    <2>3. QED
      BY <2>1, <2>2, OneCapture
  <1>4. QED
    BY <1>1, <1>2, <1>3 DEF Frames

-----------------------------------------------------------------------------
LEMMA CleanupCallSteps ==
  ASSUME CameraTypeOK, NEW p, CleanupCall(p)
  PROVE  CaptureSteps
  BY ReleasedSteps DEF CleanupCall

LEMMA AcquireSteps ==
  ASSUME CameraTypeOK, NEW c, Acquire(c)
  PROVE  CaptureSteps
  BY TakenSteps DEF Acquire

LEMMA StartCallSteps ==
  ASSUME CameraTypeOK, NEW p, StartCall(p)
  PROVE  CaptureSteps
  <1>1. UNCHANGED cam \/ cam' = Released
    BY DEF StartCall, Await
  <1>2. QED
    BY <1>1, NoCapture, ReleasedSteps

\* Of the events, those that start or end a call touch captures.
LEMMA ApplySteps ==
  ASSUME CameraTypeOK, NEW event, Apply(event)
  PROVE  CaptureSteps
  <1>1. \/ \E p : StartCall(p)
        \/ \E p : CleanupCall(p)
        \/ UNCHANGED cam
    BY Zenon DEF Apply, Shows, Await
  <1>2. QED
    BY <1>1, NoCapture, StartCallSteps, CleanupCallSteps

\* Every step of the page is such a step of each capture.
LEMMA PageSteps ==
  ASSUME CameraTypeOK, DiscoveryNext
  PROVE  CaptureSteps
  <1>1. CASE Load \/ Open
    BY <1>1, NoCapture DEF Load, Open
  <1>2. CASE CloseSocket \/ Unmount
    BY <1>2, CleanupCallSteps DEF CloseSocket, Unmount
  <1>3. CASE Join \/ Cancel \/ \E type \in {"leave", "skip"} : MatchAction(type)
    BY <1>3, NoCapture DEF Join, Cancel, MatchAction
  <1>4. CASE Receive
    BY <1>4, ApplySteps DEF Receive
  <1>5. CASE Handling
    <2>1. CASE MediaComes
      BY <2>1, NoCapture, AcquireSteps DEF MediaComes
    <2>2. CASE FramesCome
      BY <2>2, ProcessSteps, PlaySteps DEF FramesCome
    <2>3. CASE FramesComeLate
      BY <2>3, StopSteps DEF FramesComeLate
    <2>4. CASE MakePeer \/ Offer \/ Negotiate
      BY <2>4, NoCapture DEF MakePeer, Offer, Negotiate
    <2>5. QED
      BY <1>5, <2>1, <2>2, <2>3, <2>4 DEF Handling
  <1>6. CASE Server
    BY <1>6, NoCapture DEF Server, Serve, MatchEnds, Claim, PeerSignals
  <1>7. CASE Camera
    <2>1. CASE Choose
      BY <2>1, NoCapture DEF Choose
    <2>2. CASE SwapComes
      BY <2>2, NoCapture, AcquireSteps DEF SwapComes
    <2>3. CASE SwapProcessed
      BY <2>3, ProcessSteps, PlaySteps, StopSteps DEF SwapProcessed
    <2>4. CASE SwapDone
      BY <2>4 DEF SwapDone, CaptureSteps, CaptureStep
    <2>5. CASE SwapFails
      BY <2>5, StopSteps DEF SwapFails
    <2>6. CASE Picture
      BY <2>6, FramesSteps DEF Picture
    <2>7. QED
      BY <1>7, <2>1, <2>2, <2>3, <2>4, <2>5, <2>6 DEF Camera
  <1>8. QED
    BY <1>1, <1>2, <1>3, <1>4, <1>5, <1>6, <1>7 DEF DiscoveryNext

\* The invariant: each capture keeps it by itself, whoever acts.
LEMMA CamerasKept == DiscoverySpec => []CameraInv
  <1>1. DiscoveryInit => CameraInv
    BY DEF DiscoveryInit, CameraInit, CameraInv, CameraTypeOK, CameraStates, Tended, NoCamera
  <1>2. CameraInv /\ [DiscoveryNext]_dvars => CameraInv'
    <2>1. SUFFICES ASSUME CameraInv, [DiscoveryNext]_dvars PROVE CameraInv'
      OBVIOUS
    <2>2. CaptureSteps
      BY <2>1, PageSteps, NoCapture DEF dvars, CameraInv
    <2>3. ASSUME NEW c \in Cams PROVE cam'[c] \in CameraStates /\ Tended(cam'[c])
      <3>1. cam[c] \in CameraStates /\ Tended(cam[c]) /\ CaptureStep(cam[c], cam'[c])
        BY <2>1, <2>2 DEF CameraInv, CameraTypeOK, CaptureSteps
      <3>2. QED
        BY <3>1, StepIsTended
    <2>4. QED
      BY <2>2, <2>3 DEF CameraInv, CameraTypeOK, CaptureSteps
  <1>3. QED
    BY <1>1, <1>2, PTL DEF DiscoverySpec

\* Whatever the page awaits when an encounter ends, the user changes the camera or
\* the socket closes: no capture is on that is over, none is sent without its loop,
\* and no frame outlives its round (processCamera, and all that stops it).
THEOREM DiscoveryTendsCaptures == DiscoverySpec => []CaptureIsTended
  <1>1. CameraInv => CaptureIsTended
    <2>1. SUFFICES ASSUME CameraInv, NEW c \in Cams
                   PROVE  /\ cam[c].at \in {"none", "over"} => ~cam[c].input
                          /\ cam[c].at = "frames" => cam[c].loop # "off"
                          /\ cam[c].open # {} => cam[c].loop = "writing"
      BY DEF CaptureIsTended
    <2>2. QED
      BY <2>1 DEF CameraInv, Tended
  <1>2. QED
    BY <1>1, CamerasKept, PTL

-----------------------------------------------------------------------------
(* Who owns a capture that is on.                                           *)

\* The records keep their fields.
PageIs(p) ==
    p = [socket |-> p.socket, stopped |-> p.stopped, phase |-> p.phase, match |-> p.match,
         requeue |-> p.requeue, capture |-> p.capture, raw |-> p.raw, local |-> p.local,
         pc |-> p.pc, ice |-> p.ice]
ChainIs(w) == w = [at |-> w.at, cam |-> w.cam, fresh |-> w.fresh]
SwapIs(w)  == w = [at |-> w.at, cam |-> w.cam, fresh |-> w.fresh, left |-> w.left]

RecordsOK == PageIs(page) /\ ChainIs(chain) /\ SwapIs(swap)

\* Whoever waits for a capture holds it while it is processed, or attached.
WaitsOK ==
    /\ IF chain.at = "process" THEN chain.cam \in Cams ELSE chain.cam = NoCam
    /\ IF swap.at \in {"no", "media"} THEN swap.cam = NoCam ELSE swap.cam \in Cams

\* Nothing is sent, except by a change that came too late.
Bare == page.local = NoCam /\ page.capture \in late \cup {NoCam} /\ swap.at # "replacing"

\* Without an encounter or a socket nothing is sent, and nobody waits in time for what
\* would be; nor is anything sent while new media are awaited.
BareOK ==
    /\ page.match = NoMatch \/ page.socket # "open" => Bare
    /\ chain.at \in {"media", "process"} /\ chain.fresh =>
          page.match # NoMatch /\ page.socket = "open" /\ Bare

OnIsOwned == On \subseteq {chain.cam, swap.cam, page.capture} \cup late

OwnInv == RecordsOK /\ WaitsOK /\ BareOK /\ OnIsOwned /\ CandidatesAreAdded

\* The encounter that an event brings is one.
FoundIsMatch ==
    inbox # <<>> /\ Head(inbox).type = "found" => Head(inbox).match \in Matches

-----------------------------------------------------------------------------
\* A step that turns no capture on but c, if any.
LEMMA OnAfter ==
  ASSUME CameraTypeOK, NEW c \in Cams, NEW s, Is(c, s)
  PROVE  /\ (s.input => cam[c].input) => On' \subseteq On
         /\ ~s.input => On' \subseteq On \ {c}
         /\ On' \subseteq On \cup {c}
  <1>1. cam' = [x \in Cams |-> IF x = c THEN s ELSE cam[x]]
    BY DEF Is, CameraTypeOK
  <1>2. QED
    BY <1>1 DEF On

\* A capture that is stopped, or whose loop has ended, is off.
LEMMA StaysOff ==
  ASSUME NEW r \in CameraStates
  PROVE  ~Stopped(r).input /\ ~LoopEnds(r).input
  BY DEF CameraStates, LoopEnds, Stopped, NoCamera

LEMMA OnAfterProcess ==
  ASSUME CameraTypeOK, NEW c \in Cams, Process(c) \/ Play(c) \/ Frames(c)
  PROVE  On' \subseteq On
  <1>1. cam[c] \in CameraStates
    BY DEF CameraTypeOK
  <1>2. ASSUME NEW s, Is(c, s), s.input => cam[c].input PROVE On' \subseteq On
    BY <1>2, OnAfter
  <1>3. CASE Process(c)
    <2>1. PICK s : /\ Is(c, s)
                   /\ \/ s = [cam[c] EXCEPT !.at = "frames", !.loop = "reading"]
                      \/ s = [cam[c] EXCEPT !.at = "play"]
      BY <1>3, Zenon DEF Process
    <2>2. s.input = cam[c].input
      BY <1>1, <2>1, StaysOff DEF CameraStates
    <2>3. QED
      BY <1>2, <2>1, <2>2
  <1>4. CASE Play(c)
    <2>1. PICK s : Is(c, s) /\ (s = [cam[c] EXCEPT !.at = "canvas"] \/ s = Stopped(cam[c]))
      BY <1>4, Zenon DEF Play
    <2>2. s.input => cam[c].input
      BY <1>1, <2>1, StaysOff DEF CameraStates
    <2>3. QED
      BY <1>2, <2>1, <2>2
  <1>5. CASE Frames(c)
    <2>1. PICK s : /\ Is(c, s)
                   /\ \/ s = [cam[c] EXCEPT !.loop = "writing", !.open = {"frame", "transformed"}]
                      \/ s = [cam[c] EXCEPT !.loop = "reading", !.open = {}]
                      \/ s = [cam[c] EXCEPT !.input = FALSE]
                      \/ s = LoopEnds(cam[c])
      BY <1>5, Zenon DEF Frames, ReadFrame, WriteFrame, Unplug
    <2>2. s.input => cam[c].input
      BY <1>1, <2>1, StaysOff DEF CameraStates
    <2>3. QED
      BY <1>2, <2>1, <2>2
  <1>6. QED
    BY <1>3, <1>4, <1>5

LEMMA OnAfterStop ==
  ASSUME CameraTypeOK, NEW c \in Cams, Stop(c)
  PROVE  On' \subseteq On \ {c}
  <1>1. cam[c] \in CameraStates
    BY DEF CameraTypeOK
  <1>2. Is(c, Stopped(cam[c])) /\ ~Stopped(cam[c]).input
    BY <1>1 DEF Stop, CameraStates, Stopped, NoCamera
  <1>3. QED
    BY <1>2, OnAfter

LEMMA OnAfterRelease ==
  ASSUME CameraTypeOK, cam' = Released
  PROVE  On' \subseteq On \ {page.capture}
  <1>1. ASSUME NEW c \in Cams, cam'[c].input PROVE c # page.capture /\ cam[c].input
    <2>1. cam[c] \in CameraStates
      BY DEF CameraTypeOK
    <2>2. ~Stopped(cam[c]).input
      BY <2>1 DEF CameraStates, Stopped, NoCamera
    <2>3. cam'[c] = IF c = page.capture THEN Stopped(cam[c])
                    ELSE IF c = page.raw THEN [cam[c] EXCEPT !.input = FALSE] ELSE cam[c]
      BY DEF Released
    <2>4. [cam[c] EXCEPT !.input = FALSE].input = FALSE
      BY <2>1 DEF CameraStates
    <2>5. QED
      BY <1>1, <2>2, <2>3, <2>4
  <1>2. QED
    BY <1>1 DEF On

\* A step that changes nothing but what OwnInv is not about.
OwnSame ==
    /\ UNCHANGED <<cam, chain, swap, late>> /\ PageIs(page')
    /\ page'.match = page.match /\ page'.socket = page.socket
    /\ page'.capture = page.capture /\ page'.local = page.local
    /\ page'.pc = "remote" => page'.ice = 0

LEMMA SameOwns == ASSUME OwnInv, OwnSame PROVE OwnInv'
  <1>1. RecordsOK' /\ WaitsOK'
    BY DEF OwnInv, OwnSame, RecordsOK, WaitsOK
  <1>2. BareOK' /\ CandidatesAreAdded'
    BY DEF OwnInv, OwnSame, BareOK, Bare, CandidatesAreAdded
  <1>3. OnIsOwned'
    BY DEF OwnInv, OwnSame, OnIsOwned, On
  <1>4. QED
    BY <1>1, <1>2, <1>3 DEF OwnInv

\* cleanupPeer and cleanupMedia leave a bare page; what waits comes too late.
LEMMA WithoutAll ==
  ASSUME NEW p, PageIs(p), NEW q, q = WithoutMedia(WithoutPeer(p))
  PROVE  /\ PageIs(q) /\ q.local = NoCam /\ q.capture = NoCam /\ q.pc = "none"
         /\ q.match = p.match /\ q.socket = p.socket /\ q.stopped = p.stopped /\ q.phase = p.phase
  BY DEF PageIs, WithoutMedia, WithoutPeer

LEMMA OutdatedSwap ==
  ASSUME OwnInv, swap' = IF swap.at = "no" THEN swap ELSE Outdated(swap)
  PROVE  /\ SwapIs(swap') /\ swap'.cam = swap.cam /\ swap'.at # "replacing"
         /\ IF swap'.at \in {"no", "media"} THEN swap'.cam = NoCam ELSE swap'.cam \in Cams
  BY DEF OwnInv, RecordsOK, WaitsOK, SwapIs, Outdated

LEMMA CleanupOwns ==
  ASSUME CameraTypeOK, OwnInv, NEW p, PageIs(p), CleanupCall(p), UNCHANGED late
  PROVE  OwnInv'
  <1>1. /\ PageIs(page') /\ page'.local = NoCam /\ page'.capture = NoCam /\ page'.pc = "none"
    BY WithoutAll DEF CleanupCall
  <1>2. /\ SwapIs(swap') /\ swap'.cam = swap.cam /\ swap'.at # "replacing"
        /\ IF swap'.at \in {"no", "media"} THEN swap'.cam = NoCam ELSE swap'.cam \in Cams
    BY OutdatedSwap DEF CleanupCall
  <1>3. /\ ChainIs(chain') /\ chain'.cam = chain.cam
        /\ IF chain'.at = "process" THEN chain'.cam \in Cams ELSE chain'.cam = NoCam
        /\ ~(chain'.at \in {"media", "process"} /\ chain'.fresh)
    BY DEF OwnInv, RecordsOK, WaitsOK, ChainIs, CleanupCall, Outdated
  <1>4. On' \subseteq On \ {page.capture}
    BY OnAfterRelease DEF CleanupCall
  <1>5. OnIsOwned'
    BY <1>2, <1>3, <1>4 DEF OwnInv, OnIsOwned
  <1>6. BareOK'
    BY <1>1, <1>2, <1>3 DEF BareOK, Bare
  <1>7. QED
    BY <1>1, <1>2, <1>3, <1>5, <1>6 DEF OwnInv, RecordsOK, WaitsOK, CandidatesAreAdded

\* A call starts on a page p that shows its encounter.
LEMMA StartCallOwns ==
  ASSUME CameraTypeOK, OwnInv, NEW p, PageIs(p), p.match # NoMatch, p.socket = "open",
         p.capture = page.capture, p.local = page.local,
         chain.at = "idle", StartCall(p), UNCHANGED late
  PROVE  OwnInv'
  <1>1. chain.cam = NoCam
    BY DEF OwnInv, WaitsOK
  <1>2. CASE HasMedia(p)
    <2>1. /\ page' = [WithoutPeer(p) EXCEPT !.pc = "new"]
          /\ chain' = [Idle EXCEPT !.at = "senders"] /\ UNCHANGED <<cam, swap, late>>
      BY <1>2 DEF StartCall, Await
    <2>2. /\ PageIs(page') /\ page'.match # NoMatch /\ page'.socket = "open"
          /\ page'.capture = page.capture /\ page'.pc = "new"
      BY <2>1 DEF PageIs, WithoutPeer
    <2>3. ChainIs(chain') /\ chain'.at = "senders" /\ chain'.cam = NoCam
      BY <2>1 DEF ChainIs, Idle
    <2>4. OnIsOwned'
      BY <1>1, <2>1, <2>2, <2>3 DEF OwnInv, OnIsOwned, On
    <2>5. BareOK' /\ WaitsOK' /\ RecordsOK' /\ CandidatesAreAdded'
      BY <2>1, <2>2, <2>3 DEF OwnInv, BareOK, WaitsOK, RecordsOK, CandidatesAreAdded
    <2>6. QED
      BY <2>4, <2>5 DEF OwnInv
  <1>3. CASE ~HasMedia(p)
    <2>1. /\ page' = WithoutMedia(WithoutPeer(p)) /\ cam' = Released
          /\ swap' = IF swap.at = "no" THEN swap ELSE Outdated(swap)
          /\ chain' = [Idle EXCEPT !.at = "media"]
      BY <1>3 DEF StartCall
    <2>2. /\ PageIs(page') /\ page'.match # NoMatch /\ page'.socket = "open"
          /\ page'.local = NoCam /\ page'.capture = NoCam /\ page'.pc = "none"
      BY <2>1, WithoutAll
    <2>3. ChainIs(chain') /\ chain'.at = "media" /\ chain'.cam = NoCam
      BY <2>1 DEF ChainIs, Idle
    <2>4. /\ SwapIs(swap') /\ swap'.cam = swap.cam /\ swap'.at # "replacing"
          /\ IF swap'.at \in {"no", "media"} THEN swap'.cam = NoCam ELSE swap'.cam \in Cams
      BY <2>1, OutdatedSwap
    <2>5. On' \subseteq On \ {page.capture}
      BY <2>1, OnAfterRelease
    <2>6. OnIsOwned'
      BY <1>1, <2>3, <2>4, <2>5 DEF OwnInv, OnIsOwned
    <2>7. BareOK' /\ WaitsOK' /\ RecordsOK' /\ CandidatesAreAdded'
      BY <2>2, <2>3, <2>4 DEF BareOK, Bare, WaitsOK, RecordsOK, CandidatesAreAdded
    <2>8. QED
      BY <2>6, <2>7 DEF OwnInv
  <1>4. QED
    BY <1>2, <1>3

\* A handler goes on to wait for something else, with the page as it is for OwnInv.
LEMMA AwaitOwns ==
  ASSUME OwnInv, chain.cam = NoCam, UNCHANGED <<cam, page, swap, late>>,
         NEW at, at \notin {"media", "process"}, chain' = [Idle EXCEPT !.at = at]
  PROVE  OwnInv'
  <1>1. ChainIs(chain') /\ chain'.at = at /\ chain'.cam = NoCam
    BY DEF ChainIs, Idle
  <1>2. OnIsOwned'
    BY <1>1 DEF OwnInv, OnIsOwned, On
  <1>3. BareOK'
    BY <1>1 DEF OwnInv, BareOK, Bare
  <1>4. QED
    BY <1>1, <1>2, <1>3 DEF OwnInv, WaitsOK, RecordsOK, CandidatesAreAdded

LEMMA ApplyOwns ==
  ASSUME CameraTypeOK, OwnInv, Listening, chain.at = "idle",
         NEW event, event.type = "found" => event.match # NoMatch, Apply(event), UNCHANGED late
  PROVE  OwnInv'
  <1>1. PageIs(page) /\ page.socket = "open" /\ chain.cam = NoCam
    BY DEF OwnInv, RecordsOK, WaitsOK, Listening
  <1>2. CASE \E phase : Shows([page EXCEPT !.phase = phase])
    <2>1. OwnSame
      BY <1>1, <1>2 DEF Shows, OwnSame, PageIs, OwnInv, CandidatesAreAdded
    <2>2. QED
      BY <2>1, SameOwns
  <1>3. CASE event.type = "found" /\ StartCall([page EXCEPT !.match = event.match, !.phase = "matched"])
    <2>1. PICK p : p = [page EXCEPT !.match = event.match, !.phase = "matched"]
      OBVIOUS
    <2>2. PageIs(p) /\ p.match # NoMatch /\ p.socket = "open"
          /\ p.capture = page.capture /\ p.local = page.local
      BY <1>1, <1>3, <2>1 DEF PageIs
    <2>3. QED
      BY <1>3, <2>1, <2>2, StartCallOwns
  <1>4. CASE Await(page, "answering") \/ Await(page, "applying")
    BY <1>1, <1>4, AwaitOwns DEF Await
  <1>5. CASE Shows(page)
    <2>1. OwnSame
      BY <1>1, <1>5 DEF Shows, OwnSame, OwnInv, CandidatesAreAdded
    <2>2. QED
      BY <2>1, SameOwns
  <1>6. CASE Shows([page EXCEPT !.ice = IF event.match = page.match /\ page.pc # "remote"
                                        THEN @ + 1 ELSE @])
    <2>1. OwnSame
      BY <1>1, <1>6 DEF Shows, OwnSame, PageIs, OwnInv, CandidatesAreAdded
    <2>2. QED
      BY <2>1, SameOwns
  <1>7. CASE page.match # NoMatch /\ StartCall(page)
    BY <1>1, <1>7, StartCallOwns
  <1>8. CASE CleanupCall(Ended(page))
    <2>1. PICK p : p = Ended(page)
      OBVIOUS
    <2>2. PageIs(p)
      BY <1>1, <2>1 DEF PageIs, Ended
    <2>3. QED
      BY <1>8, <2>1, <2>2, CleanupOwns
  <1>9. QED
    BY <1>2, <1>3, <1>4, <1>5, <1>6, <1>7, <1>8 DEF Apply

\* The handler has nothing to wait for any more.
LEMMA ReturnOwns ==
  ASSUME OwnInv, Returns, On' \subseteq On \ {chain.cam}, UNCHANGED <<swap, late>>,
         PageIs(page'), page'.match = page.match, page'.socket = page.socket,
         page'.capture = page.capture, page'.local = page.local,
         page'.pc = "remote" => page'.ice = 0
  PROVE  OwnInv'
  <1>1. ChainIs(chain') /\ chain'.at = "idle" /\ chain'.cam = NoCam
    BY DEF Returns, ChainIs, Idle
  <1>2. OnIsOwned'
    BY <1>1 DEF OwnInv, OnIsOwned
  <1>3. BareOK'
    BY <1>1 DEF OwnInv, BareOK, Bare
  <1>4. QED
    BY <1>1, <1>2, <1>3 DEF OwnInv, WaitsOK, RecordsOK, CandidatesAreAdded

LEMMA MediaComesOwns ==
  ASSUME CameraTypeOK, OwnInv, MediaComes
  PROVE  OwnInv'
  <1>1. chain.at = "media" /\ chain.cam = NoCam /\ swap' = swap /\ PageIs(page)
    BY DEF MediaComes, OwnInv, WaitsOK, RecordsOK
  <1>2. ASSUME NEW c \in Cams, InTime(chain), Acquire(c), page' = [page EXCEPT !.raw = c],
               chain' = [chain EXCEPT !.at = "process", !.cam = c]
        PROVE  OwnInv'
    <2>1. /\ PageIs(page') /\ page'.match = page.match /\ page'.socket = page.socket
          /\ page'.capture = page.capture /\ page'.local = page.local
          /\ page'.pc = page.pc /\ page'.ice = page.ice
      BY <1>1, <1>2 DEF PageIs
    <2>2. ChainIs(chain') /\ chain'.at = "process" /\ chain'.cam = c /\ chain'.fresh = chain.fresh
      BY <1>2 DEF OwnInv, RecordsOK, ChainIs
    <2>3. On' \subseteq On \cup {c} /\ late' = late \ {c} /\ c # page.capture
      BY <1>2, OnAfter DEF Acquire, Capture
    <2>4. OnIsOwned'
      BY <1>1, <2>1, <2>2, <2>3, DiscoveryAssumption DEF OwnInv, OnIsOwned, On
    <2>5. BareOK'
      <3>1. Bare => Bare'
        BY <1>1, <2>1, <2>3 DEF Bare
      <3>2. QED
        BY <1>1, <2>1, <2>2, <3>1 DEF OwnInv, BareOK
    <2>6. WaitsOK' /\ RecordsOK' /\ CandidatesAreAdded'
      BY <1>1, <2>1, <2>2 DEF OwnInv, WaitsOK, RecordsOK, CandidatesAreAdded
    <2>7. QED
      BY <2>4, <2>5, <2>6 DEF OwnInv
  <1>3. CASE Returns /\ UNCHANGED <<cam, page, late>>
    <2>1. On' \subseteq On \ {chain.cam}
      BY <1>1, <1>3, DiscoveryAssumption DEF On
    <2>2. QED
      BY <1>1, <1>3, <2>1, ReturnOwns DEF OwnInv, CandidatesAreAdded
  <1>4. QED
    BY <1>2, <1>3 DEF MediaComes

LEMMA FramesComeOwns ==
  ASSUME CameraInv, CameraInv', OwnInv, FramesCome
  PROVE  OwnInv'
  <1>1. /\ chain.at = "process" /\ chain.cam \in Cams /\ PageIs(page) /\ CameraTypeOK
        /\ UNCHANGED <<swap, late>>
    BY DEF FramesCome, OwnInv, WaitsOK, RecordsOK, CameraInv
  <1>2. On' \subseteq On
    BY <1>1, OnAfterProcess DEF FramesCome
  <1>3. CASE UNCHANGED <<page, chain>>
    BY <1>1, <1>2, <1>3 DEF OwnInv, RecordsOK, WaitsOK, BareOK, Bare, OnIsOwned, CandidatesAreAdded
  <1>4. CASE cam'[chain.cam].at = "none" /\ Returns /\ UNCHANGED page
    <2>1. chain.cam \notin On'
      BY <1>1, <1>4 DEF CameraInv, Tended, On
    <2>2. QED
      BY <1>1, <1>2, <1>4, <2>1, ReturnOwns DEF OwnInv, CandidatesAreAdded
  <1>5. CASE /\ Keeps(chain)
             /\ page' = [page EXCEPT !.capture = chain.cam, !.local = chain.cam]
             /\ chain' = [Idle EXCEPT !.at = "devices"]
    <2>1. /\ PageIs(page') /\ page'.match = page.match /\ page'.socket = page.socket
          /\ page'.capture = chain.cam /\ page'.pc = page.pc /\ page'.ice = page.ice
      BY <1>1, <1>5 DEF PageIs
    <2>2. ChainIs(chain') /\ chain'.at = "devices" /\ chain'.cam = NoCam
      BY <1>5 DEF ChainIs, Idle
    <2>3. page.match # NoMatch /\ page.socket = "open" /\ Bare
      BY <1>1, <1>5 DEF Keeps, InTime, OwnInv, BareOK
    <2>4. OnIsOwned'
      BY <1>1, <1>2, <2>1, <2>2, <2>3, DiscoveryAssumption DEF OwnInv, OnIsOwned, Bare, On
    <2>5. BareOK'
      BY <2>1, <2>2, <2>3 DEF BareOK
    <2>6. WaitsOK' /\ RecordsOK' /\ CandidatesAreAdded'
      BY <1>1, <2>1, <2>2 DEF OwnInv, WaitsOK, RecordsOK, CandidatesAreAdded
    <2>7. QED
      BY <2>4, <2>5, <2>6 DEF OwnInv
  <1>6. QED
    BY <1>3, <1>4, <1>5 DEF FramesCome

LEMMA HandlingOwns ==
  ASSUME CameraInv, CameraInv', OwnInv, Handling
  PROVE  OwnInv'
  <1>1. PageIs(page) /\ CameraTypeOK
    BY DEF OwnInv, RecordsOK, CameraInv
  <1>2. CASE MediaComes
    BY <1>1, <1>2, MediaComesOwns
  <1>3. CASE FramesCome
    BY <1>3, FramesComeOwns
  <1>4. CASE FramesComeLate
    <2>1. chain.cam \in Cams /\ Stop(chain.cam) /\ Returns /\ UNCHANGED <<page, swap, late>>
      BY <1>4 DEF FramesComeLate, OwnInv, WaitsOK
    <2>2. QED
      BY <1>1, <2>1, OnAfterStop, ReturnOwns DEF OwnInv, CandidatesAreAdded
  <1>5. CASE MakePeer
    <2>1. chain.cam = NoCam /\ UNCHANGED <<cam, swap, late>>
      BY <1>5 DEF MakePeer, OwnInv, WaitsOK
    <2>2. On' \subseteq On \ {chain.cam}
      BY <2>1, DiscoveryAssumption DEF On
    <2>3. CASE page' = [page EXCEPT !.pc = "new"] /\ chain' = [Idle EXCEPT !.at = "senders"]
      <3>1. /\ PageIs(page') /\ page'.match = page.match /\ page'.socket = page.socket
            /\ page'.capture = page.capture /\ page'.local = page.local /\ page'.pc = "new"
        BY <1>1, <2>3 DEF PageIs
      <3>2. ChainIs(chain') /\ chain'.at = "senders" /\ chain'.cam = NoCam
        BY <2>3 DEF ChainIs, Idle
      <3>3. OnIsOwned' /\ BareOK'
        BY <2>1, <2>2, <3>1, <3>2 DEF OwnInv, OnIsOwned, BareOK, Bare
      <3>4. QED
        BY <2>1, <3>1, <3>2, <3>3 DEF OwnInv, WaitsOK, RecordsOK, CandidatesAreAdded
    <2>4. CASE Returns /\ UNCHANGED page
      BY <1>1, <2>1, <2>2, <2>4, ReturnOwns DEF OwnInv, CandidatesAreAdded
    <2>5. QED
      BY <1>5, <2>3, <2>4 DEF MakePeer
  <1>6. CASE Offer \/ Negotiate
    <2>1. chain.cam = NoCam /\ UNCHANGED <<cam, swap, late>> /\ Returns
      BY <1>6 DEF Offer, Negotiate, OwnInv, WaitsOK
    <2>2. On' \subseteq On \ {chain.cam}
      BY <2>1, DiscoveryAssumption DEF On
    <2>3. page' = page \/ page' = Remote(page)
      BY <1>6 DEF Offer, Negotiate
    <2>4. /\ PageIs(page') /\ page'.match = page.match /\ page'.socket = page.socket
          /\ page'.capture = page.capture /\ page'.local = page.local
          /\ page'.pc = "remote" => page'.ice = 0
      BY <1>1, <2>3 DEF PageIs, Remote, OwnInv, CandidatesAreAdded
    <2>5. QED
      BY <2>1, <2>2, <2>4, ReturnOwns
  <1>7. QED
    BY <1>2, <1>3, <1>4, <1>5, <1>6 DEF Handling

-----------------------------------------------------------------------------
\* switchCamera.

\* A change waits on with the capture c, or with none.
LEMMA SwapOwns ==
  ASSUME OwnInv, UNCHANGED <<page, chain, late>>, SwapIs(swap'), swap'.at # "replacing",
         IF swap'.at \in {"no", "media"} THEN swap'.cam = NoCam ELSE swap'.cam \in Cams,
         On' \subseteq On, swap.cam \in On' => swap'.cam = swap.cam
  PROVE  OwnInv'
  <1>1. OnIsOwned'
    BY DEF OwnInv, OnIsOwned
  <1>2. BareOK'
    BY DEF OwnInv, BareOK, Bare
  <1>3. QED
    BY <1>1, <1>2 DEF OwnInv, WaitsOK, RecordsOK, CandidatesAreAdded

LEMMA SwapOverIs == SwapIs(SwapOver) /\ SwapOver.at = "no" /\ SwapOver.cam = NoCam
  <1>1. SwapOver = [NoSwap EXCEPT !.left = swap.left]
    BY DEF SwapOver
  <1>2. PICK w : w = NoSwap
    OBVIOUS
  <1>3. SwapIs(w) /\ w.at = "no" /\ w.cam = NoCam
    BY <1>2 DEF NoSwap, SwapIs
  <1>4. PICK r : r = [w EXCEPT !.left = swap.left]
    OBVIOUS
  <1>5. SwapIs(r) /\ r.at = "no" /\ r.cam = NoCam
    BY <1>3, <1>4 DEF SwapIs
  <1>6. QED
    BY <1>1, <1>2, <1>4, <1>5

LEMMA SwapComesOwns ==
  ASSUME CameraTypeOK, OwnInv, SwapComes
  PROVE  OwnInv'
  <1>1. swap.at = "media" /\ swap.cam = NoCam /\ SwapIs(swap) /\ UNCHANGED <<page, chain>>
    BY DEF SwapComes, OwnInv, WaitsOK, RecordsOK
  <1>2. CASE swap' = SwapOver /\ UNCHANGED <<cam, late>>
    BY <1>1, <1>2, SwapOverIs, SwapOwns, DiscoveryAssumption DEF On
  <1>3. ASSUME NEW c \in Cams, Acquire(c), swap' = [swap EXCEPT !.at = "process", !.cam = c]
        PROVE  OwnInv'
    <2>1. SwapIs(swap') /\ swap'.at = "process" /\ swap'.cam = c
      BY <1>1, <1>3 DEF SwapIs
    <2>2. On' \subseteq On \cup {c} /\ late' = late \ {c} /\ c # page.capture
      BY <1>3, OnAfter DEF Acquire, Capture
    <2>3. OnIsOwned'
      BY <1>1, <2>1, <2>2, DiscoveryAssumption DEF OwnInv, OnIsOwned, On
    <2>4. BareOK'
      <3>1. Bare => Bare'
        BY <1>1, <2>1, <2>2 DEF Bare
      <3>2. QED
        BY <1>1, <3>1 DEF OwnInv, BareOK
    <2>5. QED
      BY <1>1, <2>1, <2>3, <2>4 DEF OwnInv, WaitsOK, RecordsOK, CandidatesAreAdded
  <1>4. QED
    BY <1>2, <1>3 DEF SwapComes

LEMMA SwapProcessedOwns ==
  ASSUME CameraInv, CameraInv', OwnInv, SwapProcessed
  PROVE  OwnInv'
  <1>1. /\ swap.at = "process" /\ swap.cam \in Cams /\ SwapIs(swap) /\ CameraTypeOK
        /\ UNCHANGED <<page, chain, late>>
    BY DEF SwapProcessed, OwnInv, WaitsOK, RecordsOK, CameraInv
  <1>2. CASE Stop(swap.cam) /\ swap' = SwapOver
    BY <1>1, <1>2, OnAfterStop, SwapOverIs, SwapOwns
  <1>3. CASE Process(swap.cam) \/ Play(swap.cam)
    <2>1. On' \subseteq On
      BY <1>1, <1>3, OnAfterProcess
    <2>2. CASE UNCHANGED swap
      BY <1>1, <2>1, <2>2, SwapOwns
    <2>3. CASE cam'[swap.cam].at = "none" /\ swap' = SwapOver
      <3>1. swap.cam \notin On'
        BY <1>1, <2>3 DEF CameraInv, Tended, On
      <3>2. QED
        BY <1>1, <2>1, <2>3, <3>1, SwapOverIs, SwapOwns
    <2>4. CASE Replaceable /\ swap' = [swap EXCEPT !.at = "replacing"]
      <3>1. SwapIs(swap') /\ swap'.at = "replacing" /\ swap'.cam = swap.cam
        BY <1>1, <2>4 DEF SwapIs
      <3>2. page.local # NoCam
        BY <2>4 DEF Replaceable
      <3>3. BareOK'
        BY <1>1, <3>2 DEF OwnInv, BareOK, Bare
      <3>4. OnIsOwned'
        BY <1>1, <2>1, <3>1 DEF OwnInv, OnIsOwned
      <3>5. QED
        BY <1>1, <3>1, <3>3, <3>4 DEF OwnInv, WaitsOK, RecordsOK, CandidatesAreAdded
    <2>5. QED
      BY <1>3, <2>2, <2>3, <2>4, <1>2 DEF SwapProcessed
  <1>4. QED
    BY <1>2, <1>3 DEF SwapProcessed

LEMMA SwapDoneOwns ==
  ASSUME CameraTypeOK, OwnInv, SwapDone
  PROVE  OwnInv'
  <1>1. /\ swap.at \in {"replacing", "late"} /\ swap.cam \in Cams /\ PageIs(page)
        /\ swap' = SwapOver /\ chain' = chain
        /\ late' = IF swap.at = "late" THEN late \cup {swap.cam} ELSE late
        /\ page' = [page EXCEPT !.capture = swap.cam,
                                !.local = IF swap.at = "late" THEN @ ELSE swap.cam]
    BY DEF SwapDone, OwnInv, WaitsOK, RecordsOK
  <1>2. /\ PageIs(page') /\ page'.match = page.match /\ page'.socket = page.socket
        /\ page'.capture = swap.cam /\ page'.pc = page.pc /\ page'.ice = page.ice
        /\ swap.at = "late" => page'.local = page.local
    BY <1>1 DEF PageIs
  <1>3. On' \subseteq On \ {page.capture}
    <2>1. ASSUME NEW c \in Cams, cam'[c].input PROVE c # page.capture /\ cam[c].input
      <3>1. cam'[c] = IF c = page.capture THEN Stopped(cam[c]) ELSE cam[c]
        BY DEF SwapDone
      <3>2. ~Stopped(cam[c]).input
        BY StaysOff DEF CameraTypeOK
      <3>3. QED
        BY <2>1, <3>1, <3>2
    <2>2. QED
      BY <2>1 DEF On
  <1>4. SwapIs(swap') /\ swap'.at = "no" /\ swap'.cam = NoCam
    BY <1>1, SwapOverIs
  <1>5. OnIsOwned'
    BY <1>1, <1>2, <1>3, <1>4 DEF OwnInv, OnIsOwned
  <1>6. BareOK'
    <2>1. Bare => Bare'
      BY <1>1, <1>2, <1>4 DEF Bare
    <2>2. QED
      BY <1>1, <1>2, <2>1 DEF OwnInv, BareOK
  <1>7. QED
    BY <1>1, <1>2, <1>4, <1>5, <1>6 DEF OwnInv, WaitsOK, RecordsOK, CandidatesAreAdded

LEMMA CameraOwns ==
  ASSUME CameraInv, CameraInv', OwnInv, Camera
  PROVE  OwnInv'
  <1>1. CameraTypeOK /\ SwapIs(swap)
    BY DEF CameraInv, OwnInv, RecordsOK
  <1>2. CASE Choose
    <2>1. UNCHANGED <<cam, page, chain, late>> /\ swap.at = "no" /\ swap.cam = NoCam
      BY <1>2 DEF Choose, OwnInv, WaitsOK
    <2>2. SwapIs(swap') /\ swap'.at = "media" /\ swap'.cam = NoCam
      BY <1>2 DEF Choose, SwapIs, NoSwap
    <2>3. QED
      BY <2>1, <2>2, SwapOwns DEF On
  <1>3. CASE SwapComes
    BY <1>1, <1>3, SwapComesOwns
  <1>4. CASE SwapProcessed
    BY <1>4, SwapProcessedOwns
  <1>5. CASE SwapDone
    BY <1>1, <1>5, SwapDoneOwns
  <1>6. CASE SwapFails
    <2>1. swap.cam \in Cams /\ Stop(swap.cam) /\ swap' = SwapOver /\ UNCHANGED <<page, chain, late>>
      BY <1>6 DEF SwapFails, OwnInv, WaitsOK
    <2>2. QED
      BY <1>1, <2>1, OnAfterStop, SwapOverIs, SwapOwns
  <1>7. CASE Picture
    <2>1. On' \subseteq On /\ UNCHANGED <<page, chain, swap, late>>
      BY <1>1, <1>7, OnAfterProcess DEF Picture
    <2>2. QED
      BY <2>1 DEF OwnInv, RecordsOK, WaitsOK, BareOK, Bare, OnIsOwned, CandidatesAreAdded
  <1>8. QED
    BY <1>2, <1>3, <1>4, <1>5, <1>6, <1>7 DEF Camera

\* Every step of the page keeps the owners of its captures.
LEMMA OwnStep ==
  ASSUME CameraInv, CameraInv', OwnInv, FoundIsMatch, [DiscoveryNext]_dvars
  PROVE  OwnInv'
  <1>1. CameraTypeOK /\ PageIs(page)
    BY DEF CameraInv, OwnInv, RecordsOK
  <1>2. CASE UNCHANGED dvars
    <2>1. OwnSame
      BY <1>1, <1>2 DEF dvars, OwnSame, OwnInv, CandidatesAreAdded
    <2>2. QED
      BY <2>1, SameOwns
  <1>3. CASE Load \/ Open
    <2>1. page.socket # "open" /\ UNCHANGED <<cam, chain, swap, late>>
      BY <1>3 DEF Load, Open
    <2>2. /\ PageIs(page') /\ page'.match = page.match /\ page'.capture = page.capture
          /\ page'.local = page.local /\ page'.pc = page.pc /\ page'.ice = page.ice
      BY <1>1, <1>3 DEF Load, Open, PageIs
    <2>3. BareOK'
      BY <2>1, <2>2 DEF OwnInv, BareOK, Bare
    <2>4. QED
      BY <2>1, <2>2, <2>3 DEF OwnInv, RecordsOK, WaitsOK, OnIsOwned, On, CandidatesAreAdded
  <1>4. CASE CloseSocket \/ Unmount
    <2>1. PICK p : /\ CleanupCall(p) /\ UNCHANGED late
                   /\ \/ p = [page EXCEPT !.socket = "closed", !.phase = "offline"]
                      \/ p = [page EXCEPT !.stopped = TRUE,
                                !.socket = IF @ \in {"connecting", "open"} THEN "closed" ELSE @]
      BY <1>4, Zenon DEF CloseSocket, Unmount
    <2>2. PageIs(p)
      BY <1>1, <2>1 DEF PageIs
    <2>3. QED
      BY <1>1, <2>1, <2>2, CleanupOwns
  <1>5. CASE Join \/ Cancel \/ Server
    <2>1. UNCHANGED <<cam, page, chain, swap, late>>
      BY <1>5 DEF Join, Cancel, Server, Serve, MatchEnds, Claim, PeerSignals
    <2>2. OwnSame
      BY <1>1, <2>1 DEF OwnSame, OwnInv, CandidatesAreAdded
    <2>3. QED
      BY <2>2, SameOwns
  <1>6. CASE \E type \in {"leave", "skip"} : MatchAction(type)
    <2>1. OwnSame
      BY <1>1, <1>6 DEF MatchAction, OwnSame, PageIs, OwnInv, CandidatesAreAdded
    <2>2. QED
      BY <2>1, SameOwns
  <1>7. CASE Receive
    <2>1. Listening /\ chain.at = "idle" /\ inbox # <<>> /\ Apply(Head(inbox)) /\ UNCHANGED late
      BY <1>7 DEF Receive
    <2>2. Head(inbox).type = "found" => Head(inbox).match # NoMatch
      BY <2>1, DiscoveryAssumption DEF FoundIsMatch
    <2>3. QED
      BY <1>1, <2>1, <2>2, ApplyOwns
  <1>8. CASE Handling
    BY <1>8, HandlingOwns
  <1>9. CASE Camera
    BY <1>9, CameraOwns
  <1>10. QED
    BY <1>2, <1>3, <1>4, <1>5, <1>6, <1>7, <1>8, <1>9 DEF DiscoveryNext

LEMMA OwnBegins == DiscoveryInit => OwnInv
  <1> SUFFICES ASSUME DiscoveryInit PROVE OwnInv
    OBVIOUS
  <1>1. page.capture = NoCam /\ page.local = NoCam /\ page.pc = "none" /\ PageIs(page)
    BY DEF DiscoveryInit, NewPage, PageIs
  <1>2. ChainIs(chain) /\ chain.at = "idle" /\ chain.cam = NoCam
    BY DEF DiscoveryInit, Idle, ChainIs
  <1>3. SwapIs(swap) /\ swap.at = "no" /\ swap.cam = NoCam
    BY DEF DiscoveryInit, NoSwap, SwapIs
  <1>4. On = {}
    BY DEF DiscoveryInit, CameraInit, NoCamera, On
  <1>5. QED
    BY <1>1, <1>2, <1>3, <1>4
       DEF OwnInv, RecordsOK, WaitsOK, BareOK, Bare, OnIsOwned, CandidatesAreAdded

-----------------------------------------------------------------------------
(* What the page will show.                                                 *)

View(p) == [match |-> p.match, phase |-> p.phase]

Phases == {"connecting", "offline", "ready", "queued", "matched"}
Views  == [match : Matches \cup {NoMatch}, phase : Phases]
Servers == Matches \cup {"absent", "idle", "queued"}
Events ==
    {e \in [type : {"ready", "left", "joined", "found", "ended", "over",
                    "offer", "answer", "ice", "reconnected"}, match : Matches \cup {NoMatch}] :
        e.type \in {"found", "ended", "over"} => e.match \in Matches}
Requests ==
    {r \in [type : {"join", "cancel", "leave"}, match : Matches \cup {NoMatch}] :
        r.type = "leave" => r.match \in Matches}

QueueTypeOK ==
    /\ inbox \in Seq(Events) /\ outbox \in Seq(Requests)
    /\ srv \in Servers /\ View(page) \in Views

\* What an event makes of what the page shows.
After(v, e) ==
    [match |-> IF e.type = "found" THEN e.match
               ELSE IF e.type \in {"ended", "over"} THEN NoMatch ELSE v.match,
     phase |-> IF e.type \in {"ready", "left", "ended", "over"} THEN "ready"
               ELSE IF e.type = "joined" THEN "queued"
               ELSE IF e.type = "found" THEN "matched" ELSE v.phase]

\* The event i of q, when it comes to a page with the encounter m in view: an end is
\* of m, or it is from before the socket and takes down nothing that does not return.
EndFits(q, i, m) ==
    /\ q[i].type = "ended" => q[i].match = m
    /\ q[i].type = "over" => \/ m \in {NoMatch, q[i].match}
                             \/ \E j \in (i + 1)..Len(q) : q[j] = Event("found", m)

\* h is what the page that shows v will show after each of the events of q.
Course(q, v, h) ==
    /\ h \in [0..Len(q) -> Views] /\ h[0] = v
    /\ \A i \in 1..Len(q) : h[i] = After(h[i-1], q[i]) /\ EndFits(q, i, h[i-1].match)

\* It is what the server holds.
Agrees(v, s) ==
    IF s \in Matches THEN v.match = s
    ELSE v.match = NoMatch /\ v.phase = IF s = "queued" THEN "queued" ELSE "ready"

Foretold(q, v, s) == \E h : Course(q, v, h) /\ Agrees(h[Len(q)], s)

\* Until the page closes its socket, its events lead it to what the server holds.
ShownInv ==
    /\ Listening => Foretold(inbox, View(page), srv)
    /\ page.socket \in {"loading", "connecting"} => page.match = NoMatch

-----------------------------------------------------------------------------
LEMMA AfterType ==
  ASSUME NEW v \in Views, NEW e \in Events
  PROVE  After(v, e) \in Views
  BY DEF After, Views, Events, Phases

\* What the server says of an encounter since the socket is open.
InOrder(e, m) == e.type # "over" /\ (e.type = "ended" => e.match = m)

\* One more event at the end, ...
LEMMA CourseOnward ==
  ASSUME NEW q \in Seq(Events), NEW v, NEW h, Course(q, v, h), NEW e \in Events,
         InOrder(e, h[Len(q)].match)
  PROVE  \E g : Course(Append(q, e), v, g) /\ g[Len(Append(q, e))] = After(h[Len(q)], e)
  <1> DEFINE n == Len(q)
             p == Append(q, e)
             g == [i \in 0..(n + 1) |-> IF i = n + 1 THEN After(h[n], e) ELSE h[i]]
  <1>1. /\ n \in Nat /\ Len(p) = n + 1 /\ p[n + 1] = e
        /\ \A i \in 1..n : p[i] = q[i]
    OBVIOUS
  <1> HIDE DEF n, p
  <1>2. /\ h \in [0..n -> Views] /\ h[0] = v
        /\ \A i \in 1..n : h[i] = After(h[i-1], q[i]) /\ EndFits(q, i, h[i-1].match)
        /\ InOrder(e, h[n].match)
    BY DEF Course, n
  <1>3. h[n] \in Views /\ After(h[n], e) \in Views
    BY <1>1, <1>2, AfterType
  <1>4. g \in [0..(n + 1) -> Views] /\ g[0] = v /\ g[n + 1] = After(h[n], e)
    BY <1>1, <1>2, <1>3
  <1>5. ASSUME NEW i \in 1..(n + 1)
        PROVE  g[i] = After(g[i-1], p[i]) /\ EndFits(p, i, g[i-1].match)
    <2>1. i - 1 \in 0..n /\ g[i - 1] = h[i - 1]
      BY <1>1
    <2>2. CASE i = n + 1
      BY <1>1, <1>2, <2>1, <2>2 DEF EndFits, InOrder
    <2>3. CASE i \in 1..n
      <3>1. g[i] = h[i] /\ p[i] = q[i]
        BY <1>1, <2>3
      <3>2. EndFits(q, i, h[i-1].match) /\ h[i] = After(h[i-1], q[i])
        BY <1>2, <2>3
      <3>3. EndFits(p, i, h[i-1].match)
        BY <1>1, <2>3, <3>1, <3>2 DEF EndFits, n
      <3>4. QED
        BY <2>1, <3>1, <3>2, <3>3
    <2>4. QED
      BY <1>1, <2>2, <2>3
  <1>6. Course(p, v, g)
    BY <1>1, <1>4, <1>5 DEF Course
  <1>7. QED
    BY <1>1, <1>4, <1>6 DEF n, p

\* ... which brings the page to what the server holds by then.
LEMMA ForetoldOnward ==
  ASSUME NEW q \in Seq(Events), NEW v, NEW s, NEW t, Foretold(q, v, s), NEW e \in Events,
         \A w \in Views : Agrees(w, s) => /\ Agrees(After(w, e), t)
                                          /\ InOrder(e, w.match)
  PROVE  Foretold(Append(q, e), v, t)
  <1>1. PICK h : Course(q, v, h) /\ Agrees(h[Len(q)], s)
    BY DEF Foretold
  <1>2. h[Len(q)] \in Views
    BY <1>1 DEF Course
  <1>3. /\ Agrees(After(h[Len(q)], e), t)
        /\ InOrder(e, h[Len(q)].match)
    BY <1>1, <1>2
  <1>4. PICK g : Course(Append(q, e), v, g) /\ g[Len(Append(q, e))] = After(h[Len(q)], e)
    BY <1>1, <1>3, CourseOnward
  <1>5. QED
    BY <1>3, <1>4 DEF Foretold

LEMMA ForetoldNothing ==
  ASSUME NEW v \in Views, NEW s, Agrees(v, s)
  PROVE  Foretold(<<>>, v, s)
  <1>1. Course(<<>>, v, [i \in 0..0 |-> v])
    BY DEF Course
  <1>2. QED
    BY <1>1 DEF Foretold

\* The first event is handled.
LEMMA ForetoldNext ==
  ASSUME NEW q \in Seq(Events), q # <<>>, NEW v, NEW s, Foretold(q, v, s)
  PROVE  /\ Foretold(Tail(q), After(v, Head(q)), s)
         /\ EndFits(q, 1, v.match)
  <1>1. PICK h : Course(q, v, h) /\ Agrees(h[Len(q)], s)
    BY DEF Foretold
  <1> DEFINE n == Len(q)
             p == Tail(q)
             g == [i \in 0..(n - 1) |-> h[i + 1]]
  <1>2. /\ n \in Nat /\ n > 0 /\ Len(p) = n - 1 /\ Head(q) = q[1]
        /\ \A i \in 1..(n - 1) : p[i] = q[i + 1]
    OBVIOUS
  <1>3. /\ h \in [0..n -> Views] /\ h[0] = v /\ Agrees(h[n], s)
        /\ \A i \in 1..n : h[i] = After(h[i-1], q[i]) /\ EndFits(q, i, h[i-1].match)
    BY <1>1 DEF Course
  <1> HIDE DEF n, p
  <1>4. h[1] = After(v, q[1]) /\ EndFits(q, 1, v.match)
    <2>1. 1 \in 1..n /\ 1 - 1 = 0
      BY <1>2
    <2>2. QED
      BY <1>3, <2>1
  <1>5. g \in [0..(n - 1) -> Views] /\ g[0] = After(v, q[1]) /\ g[n - 1] = h[n]
    BY <1>2, <1>3, <1>4
  <1>6. ASSUME NEW i \in 1..(n - 1)
        PROVE  g[i] = After(g[i-1], p[i]) /\ EndFits(p, i, g[i-1].match)
    <2>1. i + 1 \in 1..n /\ (i + 1) - 1 = i /\ g[i] = h[i + 1] /\ g[i - 1] = h[i] /\ p[i] = q[i + 1]
      BY <1>2
    <2>2. h[i + 1] = After(h[i], q[i + 1]) /\ EndFits(q, i + 1, h[i].match)
      BY <1>3, <2>1
    <2>3. \A j \in (i + 2)..n : j - 1 \in (i + 1)..(n - 1) /\ p[j - 1] = q[j]
      BY <1>2
    <2>4. EndFits(p, i, h[i].match)
      BY <1>2, <2>1, <2>2, <2>3 DEF EndFits, n
    <2>5. QED
      BY <2>1, <2>2, <2>4
  <1>7. Course(p, After(v, q[1]), g)
    BY <1>2, <1>5, <1>6 DEF Course
  <1>8. QED
    BY <1>2, <1>3, <1>4, <1>5, <1>7 DEF Foretold, p

\* An event that takes the place of the last one, which comes after it.
LEMMA OvertakenType ==
  ASSUME NEW q \in Seq(Events), q # <<>>, NEW f \in Events
  PROVE  [q EXCEPT ![Len(q)] = f] \o <<q[Len(q)]>> \in Seq(Events)
  <1> DEFINE n == Len(q)
             p == [q EXCEPT ![n] = f]
             e == q[n]
  <1>1. p \in Seq(Events) /\ e \in Events /\ p \o <<e>> = Append(p, e)
    OBVIOUS
  <1> HIDE DEF n, p, e
  <1>2. Append(p, e) \in Seq(Events)
    BY <1>1
  <1>3. QED
    BY <1>1, <1>2 DEF p, e, n

\* Somebody is found before the answer to the request to join is written.
LEMMA ForetoldOvertaken ==
  ASSUME NEW q \in Seq(Events), q # <<>>, q[Len(q)].type = "joined", NEW v,
         Foretold(q, v, "queued"), NEW m \in Matches, NEW f \in Events, f = Event("found", m)
  PROVE  Foretold([q EXCEPT ![Len(q)] = f] \o <<q[Len(q)]>>, v, m)
  <1>1. PICK h : Course(q, v, h) /\ Agrees(h[Len(q)], "queued")
    BY DEF Foretold
  <1> DEFINE n == Len(q)
             p == [q EXCEPT ![n] = f]
             e == q[n]
             g == [h EXCEPT ![n] = After(h[n-1], f)]
  <1>2. /\ n \in Nat /\ n > 0 /\ p \in Seq(Events) /\ Len(p) = n /\ p[n] = f /\ e \in Events
        /\ \A i \in 1..(n - 1) : p[i] = q[i]
        /\ p \o <<e>> = Append(p, e)
    OBVIOUS
  <1>3. /\ h \in [0..n -> Views] /\ h[0] = v
        /\ \A i \in 1..n : h[i] = After(h[i-1], q[i]) /\ EndFits(q, i, h[i-1].match)
    BY <1>1 DEF Course
  <1>4. e.type = "joined"
    OBVIOUS
  <1> HIDE DEF n, p, e
  <1>5. h[n-1] \in Views /\ After(h[n-1], f) \in Views
    BY <1>2, <1>3, AfterType
  <1>6. /\ g \in [0..n -> Views] /\ g[0] = v /\ g[n] = After(h[n-1], f)
        /\ \A i \in 0..(n - 1) : g[i] = h[i]
    BY <1>2, <1>3, <1>5
  <1>7. ASSUME NEW i \in 1..n
        PROVE  g[i] = After(g[i-1], p[i]) /\ EndFits(p, i, g[i-1].match)
    <2>1. i - 1 \in 0..(n - 1) /\ g[i - 1] = h[i - 1]
      BY <1>2, <1>6
    <2>2. CASE i = n
      BY <1>2, <1>6, <2>1, <2>2 DEF Event, EndFits
    <2>3. CASE i \in 1..(n - 1)
      <3>1. g[i] = h[i] /\ p[i] = q[i] /\ i \in 1..n
        BY <1>2, <1>6, <2>3
      <3>2. EndFits(q, i, h[i-1].match) /\ h[i] = After(h[i-1], q[i])
        BY <1>3, <3>1
      <3>3. \A j \in (i + 1)..n : q[j].type = "found" => p[j] = q[j]
        BY <1>2, <1>4 DEF e
      <3>4. EndFits(p, i, h[i-1].match)
        BY <1>2, <3>1, <3>2, <3>3 DEF EndFits, Event, n
      <3>5. QED
        BY <2>1, <3>1, <3>2, <3>4
    <2>4. QED
      BY <1>2, <2>2, <2>3
  <1>8. Course(p, v, g)
    BY <1>2, <1>6, <1>7 DEF Course
  <1>9. Agrees(g[n], m)
    BY <1>6 DEF Agrees, After, Event
  <1>10. Foretold(p, v, m)
    BY <1>2, <1>8, <1>9 DEF Foretold
  <1>11. \A w \in Views : Agrees(w, m) => /\ Agrees(After(w, e), m)
                                          /\ InOrder(e, w.match)
    BY <1>4 DEF Agrees, After, InOrder
  <1>12. Foretold(Append(p, e), v, m)
    BY <1>2, <1>10, <1>11, ForetoldOnward
  <1>13. QED
    BY <1>2, <1>12 DEF p, e, n

\* What the server does and says agree.
LEMMA ServerAgrees ==
  ASSUME NEW e, NEW s \in Servers, NEW t, NEW w \in Views, Agrees(w, s),
         \/ e.type \in {"ready", "left"} /\ t = IF s = "queued" THEN "idle" ELSE s
         \/ e.type = "joined" /\ s \in {"idle", "queued"} /\ t = "queued"
         \/ e.type = "found" /\ e.match \in Matches /\ t = e.match
         \/ e.type = "ended" /\ s \in Matches /\ e.match = s /\ t = "idle"
         \/ e.type \in {"offer", "answer", "ice", "reconnected"} /\ t = s
  PROVE  Agrees(After(w, e), t) /\ InOrder(e, w.match)
  <1>1. "idle" \notin Matches /\ "queued" \notin Matches
    BY DiscoveryAssumption
  <1>2. CASE e.type \in {"ready", "left"} /\ t = IF s = "queued" THEN "idle" ELSE s
    BY <1>1, <1>2 DEF Agrees, After, InOrder
  <1>3. CASE e.type = "joined" /\ s \in {"idle", "queued"} /\ t = "queued"
    BY <1>1, <1>3 DEF Agrees, After, InOrder
  <1>4. CASE e.type = "found" /\ e.match \in Matches /\ t = e.match
    BY <1>4 DEF Agrees, After, InOrder
  <1>5. CASE e.type = "ended" /\ s \in Matches /\ e.match = s /\ t = "idle"
    BY <1>1, <1>5 DEF Agrees, After, InOrder
  <1>6. CASE e.type \in {"offer", "answer", "ice", "reconnected"} /\ t = s
    BY <1>6 DEF Agrees, After, InOrder
  <1>7. QED
    BY <1>2, <1>3, <1>4, <1>5, <1>6

\* An event of the server that says what it has become, t.
Says(e, t) ==
    /\ e \in Events /\ srv' = t /\ t \in Servers /\ inbox' = Append(inbox, e)
    /\ \/ e.type \in {"ready", "left"} /\ t = IF srv = "queued" THEN "idle" ELSE srv
       \/ e.type = "joined" /\ srv \in {"idle", "queued"} /\ t = "queued"
       \/ e.type = "found" /\ e.match \in Matches /\ t = e.match
       \/ e.type = "ended" /\ srv \in Matches /\ e.match = srv /\ t = "idle"
       \/ e.type \in {"offer", "answer", "ice", "reconnected"} /\ t = srv

QueueInv == QueueTypeOK /\ ShownInv

LEMMA SaysShown ==
  ASSUME QueueInv, NEW e, NEW t, Says(e, t), UNCHANGED page, outbox' \in Seq(Requests)
  PROVE  QueueInv'
  <1>1. QueueTypeOK'
    BY DEF QueueInv, QueueTypeOK, Says, View
  <1>2. Listening => Foretold(inbox', View(page), t)
    <2>1. SUFFICES ASSUME Listening PROVE Foretold(inbox', View(page), t)
      OBVIOUS
    <2>2. inbox \in Seq(Events) /\ srv \in Servers /\ Foretold(inbox, View(page), srv)
      BY <2>1 DEF QueueInv, QueueTypeOK, ShownInv
    <2>3. ASSUME NEW w \in Views, Agrees(w, srv)
          PROVE  Agrees(After(w, e), t) /\ InOrder(e, w.match)
      BY <2>2, <2>3, ServerAgrees DEF Says
    <2>4. Foretold(Append(inbox, e), View(page), t)
      BY <2>2, <2>3, ForetoldOnward DEF Says
    <2>5. QED
      BY <2>4 DEF Says
  <1>3. ShownInv'
    BY <1>2 DEF QueueInv, ShownInv, Says, Listening, View
  <1>4. QED
    BY <1>1, <1>3 DEF QueueInv

\* The server and the events stay, and so does what the page shows of them.
LEMMA QuietShown ==
  ASSUME QueueInv, UNCHANGED <<srv, inbox>>, outbox' \in Seq(Requests),
         page'.match = page.match, page'.phase = page.phase,
         page'.socket = page.socket, page'.stopped = page.stopped
  PROVE  QueueInv'
  BY DEF QueueInv, QueueTypeOK, ShownInv, Listening, View

LEMMA EventTypes ==
  /\ \A type \in {"ready", "left", "joined", "offer", "answer", "ice", "reconnected"} :
        \A m \in Matches \cup {NoMatch} : Event(type, m) \in Events
  /\ \A type \in {"found", "ended", "over"} : \A m \in Matches : Event(type, m) \in Events
  /\ Event("join", NoMatch) \in Requests /\ Event("cancel", NoMatch) \in Requests
  /\ \A m \in Matches : Event("leave", m) \in Requests
  BY DEF Event, Events, Requests

LEMMA SendType ==
  ASSUME outbox \in Seq(Requests), NEW type, NEW m, Event(type, m) \in Requests, Send(type, m)
  PROVE  outbox' \in Seq(Requests)
  BY DEF Send

LEMMA ServerShown ==
  ASSUME QueueInv, Server
  PROVE  QueueInv'
  <1>1. /\ inbox \in Seq(Events) /\ outbox \in Seq(Requests) /\ srv \in Servers
        /\ "idle" \notin Matches /\ "queued" \notin Matches
        /\ {"idle", "queued"} \subseteq Servers /\ Matches \subseteq Servers
    BY DiscoveryAssumption DEF QueueInv, QueueTypeOK, Servers
  <1>2. CASE Serve
    <2>1. outbox # <<>> /\ outbox' = Tail(outbox) /\ page' = page
      BY <1>2 DEF Serve
    <2>2. outbox' \in Seq(Requests) /\ Head(outbox) \in Requests
      BY <1>1, <2>1
    <2>3. CASE UNCHANGED <<srv, inbox>>
      BY <2>1, <2>2, <2>3, QuietShown
    <2>4. CASE srv \in {"idle", "queued"} /\ srv' = "queued" /\ inbox' = Append(inbox, Event("joined", NoMatch))
      <3>1. Says(Event("joined", NoMatch), "queued")
        BY <1>1, <2>4, EventTypes DEF Says, Event
      <3>2. QED
        BY <2>1, <2>2, <3>1, SaysShown
    <2>5. CASE /\ srv' = IF srv = "queued" THEN "idle" ELSE srv
               /\ inbox' = Append(inbox, Event("left", NoMatch))
      <3>1. Says(Event("left", NoMatch), srv')
        BY <1>1, <2>5, EventTypes DEF Says, Event
      <3>2. QED
        BY <2>1, <2>2, <3>1, SaysShown
    <2>6. CASE /\ Head(outbox).type = "leave" /\ Ends(Head(outbox).match)
               /\ srv' = IF srv = Head(outbox).match THEN "idle" ELSE srv
               /\ inbox' = Append(inbox, Event("ended", Head(outbox).match))
      <3>1. srv \in Matches /\ srv = Head(outbox).match /\ srv' = "idle"
        BY <2>2, <2>6 DEF Ends, Requests
      <3>2. Says(Event("ended", srv), "idle")
        BY <1>1, <2>6, <3>1, EventTypes DEF Says, Event
      <3>3. QED
        BY <2>1, <2>2, <3>2, SaysShown
    <2>7. QED
      BY <1>2, <2>3, <2>4, <2>5, <2>6 DEF Serve
  <1>3. CASE MatchEnds
    <2>1. Says(Event("ended", srv), "idle") /\ page' = page /\ outbox' = outbox
      BY <1>1, <1>3, EventTypes DEF MatchEnds, Says, Event
    <2>2. QED
      BY <1>1, <2>1, SaysShown
  <1>4. ASSUME NEW m \in Matches, Claim(m) PROVE QueueInv'
    <2>1. srv = "queued" /\ srv' = m /\ page' = page /\ outbox' = outbox /\ Event("found", m) \in Events
      BY <1>4, EventTypes DEF Claim
    <2>2. CASE inbox' = Append(inbox, Event("found", m))
      <3>1. Says(Event("found", m), m)
        BY <1>1, <2>1, <2>2 DEF Says, Event
      <3>2. QED
        BY <1>1, <2>1, <3>1, SaysShown
    <2>3. CASE /\ Len(inbox) > 0 /\ inbox[Len(inbox)].type = "joined"
               /\ inbox' = [inbox EXCEPT ![Len(inbox)] = Event("found", m)] \o <<inbox[Len(inbox)]>>
      <3>1. inbox # <<>>
        BY <1>1, <2>3
      <3>2. Listening => Foretold(inbox', View(page), m)
        BY <1>1, <2>1, <2>3, <3>1, ForetoldOvertaken DEF QueueInv, ShownInv
      <3>3. QueueTypeOK'
        <4>1. inbox' \in Seq(Events)
          BY <1>1, <2>1, <2>3, <3>1, OvertakenType
        <4>2. QED
          BY <1>1, <2>1, <4>1 DEF QueueInv, QueueTypeOK, View
      <3>4. ShownInv'
        BY <2>1, <3>2 DEF QueueInv, ShownInv, Listening, View
      <3>5. QED
        BY <3>3, <3>4 DEF QueueInv
    <2>4. QED
      BY <1>4, <2>2, <2>3 DEF Claim
  <1>5. ASSUME NEW type \in {"offer", "answer", "ice", "reconnected"}, PeerSignals(type)
        PROVE  QueueInv'
    <2>1. Says(Event(type, srv), srv) /\ page' = page /\ outbox' = outbox
      BY <1>1, <1>5, EventTypes DEF PeerSignals, Says, Event
    <2>2. QED
      BY <1>1, <2>1, SaysShown
  <1>6. QED
    BY <1>2, <1>3, <1>4, <1>5 DEF Server

\* An event before all the others.
InFront(e, q, p) ==
    /\ p \in Seq(Events) /\ q \in Seq(Events) /\ e \in Events
    /\ p # <<>> /\ Head(p) = e /\ Tail(p) = q

LEMMA ForetoldBefore ==
  ASSUME NEW q, NEW v \in Views, NEW s, NEW e, NEW p, InFront(e, q, p),
         Foretold(q, After(v, e), s), e.type # "ended",
         e.type = "over" => \/ v.match \in {NoMatch, e.match}
                            \/ \E j \in 1..Len(q) : q[j] = Event("found", v.match)
  PROVE  Foretold(p, v, s)
  <1>1. PICK h : Course(q, After(v, e), h) /\ Agrees(h[Len(q)], s)
    BY DEF Foretold
  <1> DEFINE n == Len(q)
             g == [i \in 0..(n + 1) |-> IF i = 0 THEN v ELSE h[i - 1]]
  <1>2. /\ n \in Nat /\ Len(p) = n + 1 /\ p[1] = e
        /\ \A i \in 1..n : p[i + 1] = q[i]
    BY DEF InFront
  <1>3. /\ h \in [0..n -> Views] /\ h[0] = After(v, e) /\ Agrees(h[n], s)
        /\ \A i \in 1..n : h[i] = After(h[i-1], q[i]) /\ EndFits(q, i, h[i-1].match)
        /\ e.type # "ended"
        /\ e.type = "over" => \/ v.match \in {NoMatch, e.match}
                              \/ \E j \in 1..n : q[j] = Event("found", v.match)
    BY <1>1 DEF Course, n
  <1> HIDE DEF n
  <1>4. g \in [0..(n + 1) -> Views] /\ g[0] = v /\ g[n + 1] = h[n]
    BY <1>2, <1>3
  <1>5. \A j \in 1..n : j + 1 \in 2..(n + 1) /\ p[j + 1] = q[j]
    BY <1>2
  <1>6. ASSUME NEW i \in 1..(n + 1)
        PROVE  g[i] = After(g[i-1], p[i]) /\ EndFits(p, i, g[i-1].match)
    <2>1. CASE i = 1
      <3>1. g[1] = After(v, e) /\ g[1 - 1] = v
        BY <1>2, <1>3
      <3>2. EndFits(p, 1, v.match)
        BY <1>2, <1>3, <1>5 DEF EndFits
      <3>3. QED
        BY <1>2, <2>1, <3>1, <3>2
    <2>2. CASE i \in 2..(n + 1)
      <3>1. PICK k \in 1..n : i = k + 1
        <4>1. i - 1 \in 1..n /\ i = (i - 1) + 1
          BY <1>2, <2>2
        <4>2. QED
          BY <4>1
      <3>2. g[i] = h[k] /\ g[i - 1] = h[k - 1] /\ p[i] = q[k]
        BY <1>2, <3>1
      <3>3. h[k] = After(h[k-1], q[k]) /\ EndFits(q, k, h[k-1].match)
        BY <1>3
      <3>4. ASSUME NEW j \in (k + 1)..n PROVE j + 1 \in (i + 1)..(n + 1) /\ p[j + 1] = q[j]
        <4>1. j \in 1..n /\ k + 1 <= j /\ k \in Nat
          BY <1>2
        <4>2. j + 1 \in (i + 1)..(n + 1)
          BY <1>2, <3>1, <4>1
        <4>3. QED
          BY <1>2, <4>1, <4>2
      <3>5. EndFits(p, i, h[k-1].match)
        BY <1>2, <3>2, <3>3, <3>4 DEF EndFits, n
      <3>6. QED
        BY <3>2, <3>3, <3>5
    <2>3. QED
      BY <1>2, <2>1, <2>2
  <1>7. Course(p, v, g)
    BY <1>2, <1>4, <1>6 DEF Course
  <1>8. QED
    BY <1>2, <1>3, <1>4, <1>7 DEF Foretold

LEMMA FrontIs ==
  /\ \A a \in Events : InFront(a, <<>>, <<a>>)
  /\ \A a, b \in Events : InFront(a, <<b>>, <<a, b>>)
  /\ \A a, b, c \in Events : InFront(a, <<b, c>>, <<a, b, c>>)
  /\ \A a, b, c, d \in Events : InFront(a, <<b, c, d>>, <<a, b, c, d>>)
  /\ \A a, b, c, d, e \in Events : InFront(a, <<b, c, d, e>>, <<a, b, c, d, e>>)
  BY DEF InFront

\* What a fresh socket may find published of an encounter a that is over.
LEMMA OverShown ==
  ASSUME NEW a \in Matches, NEW was, was = Event("found", a), NEW over, over = Event("over", a)
  PROVE  /\ \A v \in Views : v.match \in {NoMatch, a} => Foretold(<<over>>, v, "idle")
         /\ \A v \in Views : Foretold(<<was, over>>, v, "idle")
  <1>1. /\ was \in Events /\ was.type = "found" /\ was.match = a
        /\ over \in Events /\ over.type = "over" /\ over.match = a
    BY EventTypes DEF Event
  <1>2. ASSUME NEW v \in Views, v.match \in {NoMatch, a} PROVE Foretold(<<over>>, v, "idle")
    <2>1. After(v, over) \in Views /\ Agrees(After(v, over), "idle")
      BY <1>1, AfterType, DiscoveryAssumption DEF Agrees, After
    <2>2. Foretold(<<>>, After(v, over), "idle") /\ <<>> \in Seq(Events)
      BY <2>1, ForetoldNothing
    <2>3. QED
      BY <1>1, <1>2, <2>2, FrontIs, ForetoldBefore
  <1>3. ASSUME NEW v \in Views PROVE Foretold(<<was, over>>, v, "idle")
    <2>1. After(v, was) \in Views /\ After(v, was).match = a
      BY <1>1, AfterType DEF After
    <2>2. Foretold(<<over>>, After(v, was), "idle") /\ <<over>> \in Seq(Events)
      BY <1>1, <1>2, <2>1
    <2>3. QED
      BY <1>1, <2>2, FrontIs, ForetoldBefore
  <1>4. QED
    BY <1>2, <1>3

\* The encounter m is announced, once or twice, ...
LEMMA FoundShown ==
  ASSUME NEW m \in Matches, NEW found, found = Event("found", m), NEW v \in Views
  PROVE  Foretold(<<found>>, v, m) /\ Foretold(<<found, found>>, v, m)
  <1>1. found \in Events /\ found.type = "found" /\ found.match = m
    BY EventTypes DEF Event
  <1>2. ASSUME NEW w \in Views PROVE Foretold(<<found>>, w, m)
    <2>1. After(w, found) \in Views /\ Agrees(After(w, found), m)
      BY <1>1, AfterType DEF Agrees, After
    <2>2. Foretold(<<>>, After(w, found), m) /\ <<>> \in Seq(Events)
      BY <2>1, ForetoldNothing
    <2>3. QED
      BY <1>1, <2>2, FrontIs, ForetoldBefore
  <1>3. Foretold(<<found, found>>, v, m)
    <2>1. After(v, found) \in Views /\ <<found>> \in Seq(Events)
      BY <1>1, AfterType
    <2>2. QED
      BY <1>1, <1>2, <2>1, FrontIs, ForetoldBefore
  <1>4. QED
    BY <1>2, <1>3

\* ... and the end of the one before, a, comes after it, but before the last word of m.
LEMMA ReturnShown ==
  ASSUME NEW m \in Matches, NEW a \in Matches, NEW v \in Views, NEW found, NEW was, NEW over,
         found = Event("found", m), was = Event("found", a), over = Event("over", a)
  PROVE  /\ Foretold(<<found, over, found>>, v, m)
         /\ Foretold(<<found, was, over, found>>, v, m)
  <1>1. /\ found \in Events /\ found.type = "found" /\ found.match = m
        /\ was \in Events /\ was.type = "found" /\ was.match = a
        /\ over \in Events /\ over.type = "over" /\ over.match = a
    BY EventTypes DEF Event
  <1>2. ASSUME NEW w \in Views, w.match \in {m, a} PROVE Foretold(<<over, found>>, w, m)
    <2>1. After(w, over) \in Views /\ <<found>> \in Seq(Events)
      BY <1>1, AfterType
    <2>2. Foretold(<<found>>, After(w, over), m)
      BY <2>1, FoundShown
    <2>3. w.match \in {NoMatch, a} \/ \E j \in 1..Len(<<found>>) : <<found>>[j] = Event("found", w.match)
      BY <1>2
    <2>4. QED
      BY <1>1, <2>1, <2>2, <2>3, FrontIs, ForetoldBefore
  <1>3. ASSUME NEW w \in Views
        PROVE  Foretold(<<found, over, found>>, w, m) /\ Foretold(<<was, over, found>>, w, m)
    <2>1. <<over, found>> \in Seq(Events)
      BY <1>1
    <2>2. ASSUME NEW e \in {found, was} PROVE Foretold(<<e, over, found>>, w, m)
      <3>1. e \in Events /\ e.type = "found" /\ e.match \in {m, a}
        BY <1>1
      <3>2. After(w, e) \in Views /\ After(w, e).match \in {m, a}
        BY <3>1, AfterType DEF After
      <3>3. QED
        BY <1>2, <2>1, <3>1, <3>2, FrontIs, ForetoldBefore
    <2>3. QED
      BY <2>2
  <1>4. Foretold(<<found, was, over, found>>, v, m)
    <2>1. After(v, found) \in Views /\ <<was, over, found>> \in Seq(Events)
      BY <1>1, AfterType
    <2>2. QED
      BY <1>1, <1>3, <2>1, FrontIs, ForetoldBefore
  <1>5. QED
    BY <1>3, <1>4

\* The greeting of a fresh socket, with the encounter that is going on if there is one,
\* and what was published meanwhile.
LEMMA OpenShown ==
  ASSUME QueueInv, PageIs(page), Open
  PROVE  QueueInv'
  <1> DEFINE e == Event("ready", NoMatch)
             v == View(page)
             w == After(v, e)
  <1>1. /\ page.match = NoMatch /\ page' = [page EXCEPT !.socket = "open"] /\ outbox' = outbox
        /\ v \in Views /\ v.match = NoMatch /\ outbox \in Seq(Requests) /\ e \in Events
    BY EventTypes DEF Open, QueueInv, QueueTypeOK, ShownInv, View
  <1>2. page'.match = page.match /\ page'.phase = page.phase /\ page'.socket = "open"
    BY <1>1 DEF PageIs
  <1>3. /\ w \in Views /\ w.match = NoMatch /\ Agrees(w, "idle") /\ e.type = "ready"
        /\ "idle" \in Servers /\ Matches \subseteq Servers
    BY <1>1, AfterType, DiscoveryAssumption DEF After, Agrees, Event, Servers
  <1> HIDE DEF e, w
  <1>4. ASSUME NEW q, NEW s, NEW p, InFront(e, q, p), Foretold(q, w, s)
        PROVE  Foretold(p, v, s)
    BY <1>1, <1>3, <1>4, ForetoldBefore DEF w
  <1>5. Foretold(inbox', v, srv') /\ inbox' \in Seq(Events) /\ srv' \in Servers
    <2>1. CASE srv' = "idle" /\ inbox' = <<e>>
      <3>1. Foretold(<<>>, w, "idle") /\ <<>> \in Seq(Events) /\ <<e>> \in Seq(Events)
        BY <1>1, <1>3, ForetoldNothing
      <3>2. Foretold(<<e>>, v, "idle")
        BY <1>1, <1>4, <3>1, FrontIs
      <3>3. QED
        BY <1>3, <2>1, <3>1, <3>2
    <2>2. ASSUME NEW a \in Matches, NEW was, NEW over, was = Event("found", a), over = Event("over", a),
                 srv' = "idle", inbox' \in {<<e, over>>, <<e, was, over>>}
          PROVE  Foretold(inbox', v, srv') /\ inbox' \in Seq(Events) /\ srv' \in Servers
      <3>1. was \in Events /\ over \in Events
        BY <2>2, EventTypes
      <3>2. <<e, over>> \in Seq(Events) /\ <<e, was, over>> \in Seq(Events)
        BY <1>1, <3>1
      <3>3. Foretold(<<over>>, w, "idle") /\ Foretold(<<was, over>>, w, "idle")
        BY <1>3, <2>2, OverShown
      <3>4. Foretold(<<e, over>>, v, "idle") /\ Foretold(<<e, was, over>>, v, "idle")
        BY <1>1, <1>4, <3>1, <3>3, FrontIs
      <3>5. QED
        <4>1. inbox' \in Seq(Events) /\ srv' \in Servers
          BY <1>3, <2>2, <3>2
        <4>2. Foretold(inbox', v, srv')
          BY <2>2, <3>4
        <4>3. QED
          BY <4>1, <4>2
    <2>3. ASSUME NEW m \in Matches, NEW found, found = Event("found", m),
                 srv' = m, inbox' \in {<<e, found>>, <<e, found, found>>}
          PROVE  Foretold(inbox', v, srv') /\ inbox' \in Seq(Events) /\ srv' \in Servers
      <3>1. found \in Events
        BY <2>3, EventTypes
      <3>2. <<e, found>> \in Seq(Events) /\ <<e, found, found>> \in Seq(Events)
        BY <1>1, <3>1
      <3>3. Foretold(<<found>>, w, m) /\ Foretold(<<found, found>>, w, m)
        BY <1>3, <2>3, FoundShown
      <3>4. Foretold(<<e, found>>, v, m) /\ Foretold(<<e, found, found>>, v, m)
        BY <1>1, <1>4, <3>1, <3>3, FrontIs
      <3>5. QED
        <4>1. inbox' \in Seq(Events) /\ srv' \in Servers
          BY <1>3, <2>3, <3>2
        <4>2. Foretold(inbox', v, srv')
          BY <2>3, <3>4
        <4>3. QED
          BY <4>1, <4>2
    <2>4. ASSUME NEW m \in Matches, NEW a \in Matches, NEW found, NEW was, NEW over,
                 found = Event("found", m), was = Event("found", a), over = Event("over", a),
                 srv' = m, inbox' \in {<<e, found, over, found>>, <<e, found, was, over, found>>}
          PROVE  Foretold(inbox', v, srv') /\ inbox' \in Seq(Events) /\ srv' \in Servers
      <3>1. found \in Events /\ was \in Events /\ over \in Events
        BY <2>4, EventTypes
      <3>2. <<e, found, over, found>> \in Seq(Events) /\ <<e, found, was, over, found>> \in Seq(Events)
        BY <1>1, <3>1
      <3>3. Foretold(<<found, over, found>>, w, m) /\ Foretold(<<found, was, over, found>>, w, m)
        BY <1>3, <2>4, ReturnShown
      <3>4. /\ Foretold(<<e, found, over, found>>, v, m)
            /\ Foretold(<<e, found, was, over, found>>, v, m)
        BY <1>1, <1>4, <3>1, <3>3, FrontIs
      <3>5. QED
        <4>1. inbox' \in Seq(Events) /\ srv' \in Servers
          BY <1>3, <2>4, <3>2
        <4>2. Foretold(inbox', v, srv')
          BY <2>4, <3>4
        <4>3. QED
          BY <4>1, <4>2
    <2>5. QED
      BY <2>1, <2>2, <2>3, <2>4 DEF Open, e
  <1>6. QueueTypeOK'
    BY <1>1, <1>2, <1>5 DEF QueueTypeOK, View
  <1>7. ShownInv'
    BY <1>2, <1>5 DEF ShownInv, View
  <1>8. QED
    BY <1>6, <1>7 DEF QueueInv

\* What Apply makes of the view is what the event says.
LEMMA ApplyView ==
  ASSUME PageIs(page), NEW event \in Events, Apply(event)
  PROVE  /\ View(page') = After(View(page), event)
         /\ page'.socket = page.socket /\ page'.stopped = page.stopped
         /\ outbox' = outbox \/ Send("join", NoMatch)
  <1>1. ASSUME NEW p, PageIs(p), StartCall(p)
        PROVE  /\ View(page') = View(p) /\ page'.socket = p.socket /\ page'.stopped = p.stopped
               /\ outbox' = outbox
    <2>1. CASE HasMedia(p)
      <3>1. page' = [WithoutPeer(p) EXCEPT !.pc = "new"] /\ outbox' = outbox
        BY <1>1, <2>1 DEF StartCall, Await
      <3>2. QED
        BY <1>1, <3>1 DEF PageIs, WithoutPeer, View
    <2>2. CASE ~HasMedia(p)
      <3>1. page' = WithoutMedia(WithoutPeer(p)) /\ outbox' = outbox
        BY <1>1, <2>2 DEF StartCall
      <3>2. QED
        BY <1>1, <3>1, WithoutAll DEF View
    <2>3. QED
      BY <2>1, <2>2
  <1>2. CASE event.type \in {"ready", "left"} /\ Shows([page EXCEPT !.phase = "ready"])
    BY <1>2 DEF Shows, PageIs, View, After
  <1>3. CASE event.type = "joined" /\ Shows([page EXCEPT !.phase = "queued"])
    BY <1>3 DEF Shows, PageIs, View, After
  <1>4. CASE event.type = "found" /\ StartCall([page EXCEPT !.match = event.match, !.phase = "matched"])
    <2>1. PICK p : p = [page EXCEPT !.match = event.match, !.phase = "matched"]
      OBVIOUS
    <2>2. PageIs(p) /\ p.match = event.match /\ p.phase = "matched"
          /\ p.socket = page.socket /\ p.stopped = page.stopped
      BY <2>1 DEF PageIs
    <2>3. View(p) = After(View(page), event)
      BY <1>4, <2>2 DEF View, After
    <2>4. QED
      BY <1>1, <1>4, <2>1, <2>2, <2>3
  <1>5. CASE event.type \in {"offer", "answer", "ice", "reconnected"}
    <2>1. After(View(page), event) = View(page)
      BY <1>5 DEF After, View
    <2>2. CASE Await(page, "answering") \/ Await(page, "applying") \/ Shows(page)
      BY <2>1, <2>2 DEF Await, Shows, View
    <2>3. CASE Shows([page EXCEPT !.ice = IF event.match = page.match /\ page.pc # "remote"
                                          THEN @ + 1 ELSE @])
      BY <2>1, <2>3 DEF Shows, PageIs, View
    <2>4. CASE StartCall(page)
      BY <1>1, <2>1, <2>4
    <2>5. QED
      BY <1>5, <2>2, <2>3, <2>4 DEF Apply
  <1>6. CASE /\ event.type \in {"ended", "over"} /\ CleanupCall(Ended(page))
             /\ IF page.requeue THEN Send("join", NoMatch) ELSE UNCHANGED outbox
    <2>1. PICK p : p = Ended(page)
      OBVIOUS
    <2>2. PageIs(p) /\ p.match = NoMatch /\ p.phase = "ready"
          /\ p.socket = page.socket /\ p.stopped = page.stopped
      BY <2>1 DEF PageIs, Ended
    <2>3. page' = WithoutMedia(WithoutPeer(p))
      BY <1>6, <2>1 DEF CleanupCall
    <2>4. page'.match = NoMatch /\ page'.phase = "ready"
          /\ page'.socket = page.socket /\ page'.stopped = page.stopped
      BY <2>2, <2>3, WithoutAll
    <2>5. View(page') = After(View(page), event)
      BY <1>6, <2>4 DEF View, After
    <2>6. QED
      BY <1>6, <2>4, <2>5
  <1>7. QED
    BY <1>2, <1>3, <1>4, <1>5, <1>6 DEF Apply

LEMMA ReceiveShown ==
  ASSUME QueueInv, PageIs(page), Receive
  PROVE  QueueInv'
  <1>1. /\ inbox \in Seq(Events) /\ inbox # <<>> /\ outbox \in Seq(Requests)
        /\ inbox' = Tail(inbox) /\ Apply(Head(inbox)) /\ srv' = srv /\ srv \in Servers /\ Listening
        /\ View(page) \in Views
    BY DEF QueueInv, QueueTypeOK, Receive
  <1>2. Head(inbox) \in Events /\ inbox' \in Seq(Events)
    BY <1>1
  <1>3. /\ View(page') = After(View(page), Head(inbox))
        /\ page'.socket = page.socket /\ page'.stopped = page.stopped
        /\ outbox' = outbox \/ Send("join", NoMatch)
    BY <1>1, <1>2, ApplyView
  <1>4. outbox' \in Seq(Requests)
    BY <1>1, <1>3, EventTypes, SendType
  <1>5. Foretold(inbox', View(page'), srv')
    BY <1>1, <1>3, ForetoldNext DEF QueueInv, ShownInv
  <1>6. QueueTypeOK'
    BY <1>1, <1>2, <1>3, <1>4, AfterType DEF QueueTypeOK, View
  <1>7. ShownInv'
    BY <1>1, <1>3, <1>5 DEF ShownInv, Listening, View
  <1>8. QED
    BY <1>6, <1>7 DEF QueueInv

LEMMA QueueStep ==
  ASSUME QueueInv, PageIs(page), [DiscoveryNext]_dvars
  PROVE  QueueInv'
  <1>1. /\ outbox \in Seq(Requests) /\ srv \in Servers
        /\ page.match \in Matches \cup {NoMatch}
    BY DEF QueueInv, QueueTypeOK, View, Views
  <1>2. CASE UNCHANGED dvars
    BY <1>1, <1>2, QuietShown DEF dvars
  <1>3. CASE Load
    <2>1. /\ page.socket = "loading" /\ page'.match = page.match /\ ~Listening'
          /\ View(page') \in Views /\ UNCHANGED <<srv, inbox, outbox>>
      BY <1>3 DEF Load, PageIs, Listening, QueueInv, QueueTypeOK, View, Views, Phases
    <2>2. QueueTypeOK' /\ ShownInv'
      BY <2>1 DEF QueueInv, QueueTypeOK, ShownInv, View
    <2>3. QED
      BY <2>2 DEF QueueInv
  <1>4. CASE Open
    BY <1>4, OpenShown
  <1>5. CASE CloseSocket \/ Unmount
    <2>1. PICK p : /\ CleanupCall(p) /\ srv' = "absent" /\ inbox' = <<>> /\ outbox' = <<>>
                   /\ \/ p = [page EXCEPT !.socket = "closed", !.phase = "offline"]
                      \/ p = [page EXCEPT !.stopped = TRUE,
                                !.socket = IF @ \in {"connecting", "open"} THEN "closed" ELSE @]
      BY <1>5, Zenon DEF CloseSocket, Unmount
    <2>2. PageIs(p) /\ p.match = page.match /\ p.phase \in {page.phase, "offline"}
          /\ (p.socket = "closed" \/ (p.socket = page.socket /\ p.stopped))
          /\ ~(p.socket = "open" /\ ~p.stopped)
      BY <2>1 DEF PageIs
    <2>3. page'.match = page.match /\ page'.phase \in {page.phase, "offline"}
          /\ page'.socket = p.socket /\ page'.stopped = p.stopped
      BY <2>1, <2>2, WithoutAll DEF CleanupCall
    <2>4. View(page') \in Views
      BY <2>3 DEF QueueInv, QueueTypeOK, View, Views, Phases
    <2>5. QueueTypeOK'
      BY <2>1, <2>4 DEF QueueTypeOK, Servers, View
    <2>6. ShownInv'
      BY <2>2, <2>3 DEF QueueInv, ShownInv, Listening
    <2>7. QED
      BY <2>5, <2>6 DEF QueueInv
  <1>6. CASE Join \/ Cancel
    <2>1. UNCHANGED <<srv, inbox, page>> /\ (Send("join", NoMatch) \/ Send("cancel", NoMatch))
      BY <1>6 DEF Join, Cancel
    <2>2. outbox' \in Seq(Requests)
      BY <1>1, <2>1, EventTypes, SendType
    <2>3. QED
      BY <2>1, <2>2, QuietShown
  <1>7. CASE \E type \in {"leave", "skip"} : MatchAction(type)
    <2>1. /\ page.match # NoMatch /\ Send("leave", page.match) /\ UNCHANGED <<srv, inbox>>
          /\ page'.match = page.match /\ page'.phase = page.phase
          /\ page'.socket = page.socket /\ page'.stopped = page.stopped
      BY <1>7 DEF MatchAction, PageIs
    <2>2. outbox' \in Seq(Requests)
      BY <1>1, <2>1, EventTypes, SendType
    <2>3. QED
      BY <2>1, <2>2, QuietShown
  <1>8. CASE Receive
    BY <1>8, ReceiveShown
  <1>9. CASE Server
    BY <1>9, ServerShown
  <1>10. CASE Handling \/ Camera
    <2>1. UNCHANGED <<srv, inbox, outbox>>
      BY <1>10 DEF Handling, MediaComes, FramesCome, FramesComeLate, MakePeer, Offer, Negotiate,
                   Camera, Choose, SwapComes, SwapProcessed, SwapDone, SwapFails, Picture
    <2>2. \/ page' = page
          \/ \E c : page' = [page EXCEPT !.raw = c]
          \/ \E c, d : page' = [page EXCEPT !.capture = c, !.local = d]
          \/ page' = [page EXCEPT !.pc = "new"]
          \/ page' = Remote(page)
      <3>1. CASE Handling
        BY <3>1 DEF Handling, MediaComes, FramesCome, FramesComeLate, MakePeer, Offer, Negotiate
      <3>2. CASE Camera
        BY <3>2 DEF Camera, Choose, SwapComes, SwapProcessed, SwapDone, SwapFails, Picture
      <3>3. QED
        BY <1>10, <3>1, <3>2
    <2>3. /\ page'.match = page.match /\ page'.phase = page.phase
          /\ page'.socket = page.socket /\ page'.stopped = page.stopped
      BY <2>2 DEF PageIs, Remote
    <2>4. QED
      BY <1>1, <2>1, <2>3, QuietShown
  <1>11. QED
    BY <1>2, <1>3, <1>4, <1>5, <1>6, <1>7, <1>8, <1>9, <1>10 DEF DiscoveryNext

-----------------------------------------------------------------------------
PageInv == CameraInv /\ OwnInv /\ QueueInv

LEMMA PageStep == ASSUME PageInv, CameraInv', [DiscoveryNext]_dvars PROVE PageInv'
  <1>1. CameraInv /\ OwnInv /\ QueueInv /\ PageIs(page)
    BY DEF PageInv, OwnInv, RecordsOK
  <1>2. FoundIsMatch
    BY <1>1 DEF FoundIsMatch, QueueInv, QueueTypeOK, Events
  <1>3. QED
    BY <1>1, <1>2, OwnStep, QueueStep DEF PageInv

LEMMA PageAlways == DiscoverySpec => []PageInv
  <1>1. DiscoveryInit => OwnInv /\ QueueInv
    <2>1. DiscoveryInit => QueueInv
      <3> SUFFICES ASSUME DiscoveryInit PROVE QueueInv
        OBVIOUS
      <3>1. page.match = NoMatch /\ page.phase = "connecting" /\ ~Listening
        BY DEF DiscoveryInit, NewPage, Listening
      <3>2. QED
        BY <3>1 DEF DiscoveryInit, QueueInv, QueueTypeOK, ShownInv, View, Views, Phases, Servers
    <2>2. QED
      BY <2>1, OwnBegins
  <1>2. PageInv /\ CameraInv' /\ [DiscoveryNext]_dvars => PageInv'
    BY PageStep
  <1>3. CameraInv /\ OwnInv /\ QueueInv => PageInv
    BY DEF PageInv
  <1>4. QED
    BY <1>1, <1>2, <1>3, CamerasKept, PTL DEF DiscoverySpec

\* A camera that is on belongs to the handler or the change that waits for it, or to
\* the encounter in view, however permission prompts, ends and changes overlap; only
\* a change that is completing when its encounter ends leaves one on (startCall and
\* switchCamera with mediaGeneration, cleanupMedia).
THEOREM DiscoveryOwnsCameras == DiscoverySpec => []CamerasAreOwned
  <1>1. PageInv => CamerasAreOwned
    <2> SUFFICES ASSUME PageInv, NEW c \in On
                 PROVE  c \in {chain.cam, swap.cam} \cup late
                                \cup (IF Needless THEN {} ELSE {page.capture})
      BY DEF CamerasAreOwned
    <2>1. c \in {chain.cam, swap.cam, page.capture} \cup late /\ c # NoCam
      BY DiscoveryAssumption DEF PageInv, OwnInv, OnIsOwned, On
    <2>2. Needless => page.capture \in late \cup {NoCam}
      BY DEF PageInv, OwnInv, BareOK, Bare, Needless
    <2>3. QED
      BY <2>1, <2>2
  <1>2. QED
    BY <1>1, PageAlways, PTL

\* A candidate that comes before the description is added with it, none is left
\* aside (applyPendingIce, and the candidates that cleanupPeer forgets).
THEOREM DiscoveryAddsCandidates == DiscoverySpec => []CandidatesAreAdded
  <1>1. PageInv => CandidatesAreAdded
    BY DEF PageInv, OwnInv
  <1>2. QED
    BY <1>1, PageAlways, PTL

\* The end that the page comes to is of the encounter it shows, although it does not
\* look which one is named: the chain of events keeps the server's order.  One that
\* was published while the socket was opening may take another encounter down, but
\* only one that is announced again behind it.
THEOREM DiscoveryEndsItsOwn == DiscoverySpec => []EndIsOfThisEncounter
  <1>1. PageInv => EndIsOfThisEncounter
    <2> SUFFICES ASSUME PageInv, Listening, inbox # <<>>
                 PROVE  LET end == Head(inbox) IN
                        /\ end.type = "ended" => end.match = page.match
                        /\ end.type = "over" =>
                              \/ page.match \in {NoMatch, end.match}
                              \/ \E i \in 2..Len(inbox) : inbox[i] = Event("found", page.match)
      BY DEF EndIsOfThisEncounter
    <2>1. inbox \in Seq(Events) /\ Foretold(inbox, View(page), srv)
      BY DEF PageInv, QueueInv, QueueTypeOK, ShownInv
    <2>2. EndFits(inbox, 1, View(page).match) /\ Head(inbox) = inbox[1]
      BY <2>1, ForetoldNext
    <2>3. View(page).match = page.match
      BY DEF View
    <2>4. QED
      BY <2>2, <2>3 DEF EndFits
  <1>2. QED
    BY <1>1, PageAlways, PTL

\* When nothing is under way the page shows the encounter, the search or the rest
\* that the server holds for the user, whatever was lost in waiting meanwhile.
THEOREM DiscoveryShowsServer == DiscoverySpec => []PageShowsTheServer
  <1>1. PageInv => PageShowsTheServer
    <2> SUFFICES ASSUME PageInv, Listening, inbox = <<>>
                 PROVE  /\ (page.match # NoMatch \/ srv \in Matches) => page.match = srv
                        /\ page.match = NoMatch =>
                              page.phase = IF srv = "queued" THEN "queued" ELSE "ready"
      BY DEF PageShowsTheServer
    <2>1. PICK h : Course(inbox, View(page), h) /\ Agrees(h[Len(inbox)], srv)
      BY DEF PageInv, QueueInv, ShownInv, Foretold
    <2>2. h[Len(inbox)] = View(page)
      BY <2>1 DEF Course
    <2>3. Agrees(View(page), srv) /\ NoMatch \notin Matches
      BY <2>1, <2>2, DiscoveryAssumption
    <2>4. QED
      BY <2>3 DEF Agrees, View
  <1>2. QED
    BY <1>1, PageAlways, PTL
=============================================================================
