--------------------------- MODULE ProcessedCamera ---------------------------
(***************************************************************************)
(* The mirrored cameras of a page (lib/webrtc/processed-camera.ts).  A      *)
(* camera is captured, then drawn frame by frame onto the track that is     *)
(* sent: by a loop over its stream of frames where the browser has one, or  *)
(* by a canvas.  Frames are a scarce resource that has to be closed, and    *)
(* the camera's light is on for as long as its input is.                    *)
(***************************************************************************)
EXTENDS Naturals

CONSTANTS Cams,            \* the captures there may be at a time
          Framed           \* those whose frames the browser hands out

ASSUME CameraAssumption == Framed \subseteq Cams

VARIABLE cam               \* each capture

\* at: "raw" captured, "play" while the canvas waits for its first picture,
\* "frames" or "canvas" once it is sent; loop: where the
\* frame loop waits; open: the frames it has not closed.  At "over" the capture is
\* stopped and its loop has not noticed.
NoCamera == [at |-> "none", input |-> FALSE, loop |-> "off", open |-> {}]
Captured == [NoCamera EXCEPT !.at = "raw", !.input = TRUE]

Sending(c) == cam[c].at \in {"frames", "canvas"}

\* stop(), more than once if need be: it ends the output and the input, and the
\* loop when that next looks.
Stopped(r) == IF r.loop = "off" THEN NoCamera ELSE [r EXCEPT !.at = "over", !.input = FALSE]

Is(c, r) == cam' = [cam EXCEPT ![c] = r]

-----------------------------------------------------------------------------
(* Faulty variants, for the properties to detect: none is part of CameraNext. *)

\* leaves the loop without stopping the capture
LoopLeaves(r) == [r EXCEPT !.loop = "off", !.open = {}]

-----------------------------------------------------------------------------
\* The frames of the round are closed whatever happens, and the loop stops the
\* capture when it ends.
LoopEnds(r) == Stopped([r EXCEPT !.loop = "off", !.open = {}])

CameraInit == cam = [c \in Cams |-> NoCamera]

Capture(c) == cam[c].at = "none" /\ Is(c, Captured)

\* processCamera: the frame loop starts, or, without the interfaces it needs,
\* the canvas waits for the camera to play, ...
Process(c) ==
    /\ cam[c].at = "raw"
    /\ \/ c \in Framed /\ Is(c, [cam[c] EXCEPT !.at = "frames", !.loop = "reading"])
       \/ Is(c, [cam[c] EXCEPT !.at = "play"])

\* ... which it may refuse.
Play(c) ==
    /\ cam[c].at = "play"
    /\ \/ Is(c, [cam[c] EXCEPT !.at = "canvas"])
       \/ Is(c, Stopped(cam[c]))

\* The loop reads a frame and writes its mirrored copy; a stop, the end of the
\* input or an error ends it.
ReadFrame(c) ==
    /\ cam[c].loop = "reading"
    /\ \/ /\ cam[c].at = "frames" /\ cam[c].input
          /\ Is(c, [cam[c] EXCEPT !.loop = "writing", !.open = {"frame", "transformed"}])
       \/ Is(c, LoopEnds(cam[c]))

WriteFrame(c) ==
    /\ cam[c].loop = "writing"
    /\ \/ /\ cam[c].at = "frames"
          /\ Is(c, [cam[c] EXCEPT !.loop = "reading", !.open = {}])
       \/ Is(c, LoopEnds(cam[c]))

\* The device is unplugged, or taken away.  A canvas goes on with its last picture.
Unplug(c) == cam[c].input /\ c \in Framed /\ Is(c, [cam[c] EXCEPT !.input = FALSE])

Stop(c) == Is(c, Stopped(cam[c]))

Frames(c) == ReadFrame(c) \/ WriteFrame(c) \/ Unplug(c)

CameraNext == \E c \in Cams : Capture(c) \/ Process(c) \/ Play(c) \/ Stop(c) \/ Frames(c)

CameraSpec == CameraInit /\ [][CameraNext]_cam

-----------------------------------------------------------------------------
CameraStates == [at : {"none", "raw", "play", "frames", "canvas", "over"}, input : BOOLEAN,
                 loop : {"off", "reading", "writing"}, open : SUBSET {"frame", "transformed"}]

CameraTypeOK == cam \in [Cams -> CameraStates]

\* A capture is on for as long as somebody looks after it: one that is over has
\* no input, one that is sent by frames has its loop, which will see the end, and
\* frames are open in the middle of a round of that loop only.
CaptureIsTended ==
    \A c \in Cams : /\ cam[c].at \in {"none", "over"} => ~cam[c].input
                    /\ cam[c].at = "frames" => cam[c].loop # "off"
                    /\ cam[c].open # {} => cam[c].loop = "writing"
=============================================================================
