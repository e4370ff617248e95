------------------------------- MODULE Camera -------------------------------
(***************************************************************************)
(* camera_node2: one thread reads frames from the pipe of rpicam-vid, the  *)
(* other publishes the newest.  They share latest_frame_, a reference to   *)
(* counted storage, and a flag, under frame_mutex_; the publisher copies   *)
(* the pixels into the message after it has unlocked.  One critical        *)
(* section is one action, the copy is two, so that a write to the storage  *)
(* in between would show.                                                  *)
(***************************************************************************)
EXTENDS Naturals

CONSTANTS
  Buffers,      \* storage for frames; three are in use at most
  NoBuffer,     \* an empty cv::Mat
  MaxFrames     \* bound: the frames rpicam-vid delivers before it ends

ASSUME CameraAssumption ==
  NoBuffer \notin Buffers /\ Buffers # {} /\ MaxFrames \in Nat

VARIABLES
  ok,                   \* rclcpp::ok()
  running,              \* running_
  rpicam,               \* rpicam-vid: "absent" if popen failed, "on", "ended"
  main_at,              \* where main and the destructor are
  capture_at,           \* where capture_loop is
  buffer,               \* the number of the frame in its buffer
  pixels,               \* the number of the frame in each storage
  latest_frame,         \* latest_frame_
  new_frame_available,  \* new_frame_available_
  publish_at,           \* where publish_loop is
  frame_to_publish,     \* its reference to a frame
  upper,                \* the frame its message has the first rows from
  published,            \* history: the number of the last frame published,
                        \* or Torn
  captured              \* history: the number of frames read

processVars == <<ok, running, rpicam, main_at>>
captureVars == <<capture_at, buffer, captured>>
sharedVars == <<pixels, latest_frame, new_frame_available>>
publishVars == <<publish_at, frame_to_publish, upper, published>>
vars == <<processVars, captureVars, sharedVars, publishVars>>

Torn == MaxFrames + 1
Frames == 0..MaxFrames

\* The publisher holds a frame exactly while it copies and publishes it.
TypeOK ==
  /\ ok \in BOOLEAN
  /\ running \in BOOLEAN
  /\ rpicam \in {"absent", "on", "ended"}
  /\ main_at \in {"spin", "join_capture", "join_publish", "gone"}
  /\ capture_at \in {"loop", "fread", "store", "returned"}
  /\ buffer \in Frames
  /\ pixels \in [Buffers -> Frames]
  /\ latest_frame \in Buffers \cup {NoBuffer}
  /\ new_frame_available \in BOOLEAN
  /\ publish_at \in {"loop", "take", "copy", "publish", "returned"}
  /\ frame_to_publish \in Buffers \cup {NoBuffer}
  /\ publish_at \in {"copy", "publish"} <=> frame_to_publish # NoBuffer
  /\ upper \in Frames
  /\ captured \in Frames
  /\ published \in Frames \cup {Torn}

Init ==
  /\ ok = TRUE
  /\ running = TRUE
  /\ rpicam \in {"absent", "on"}
  /\ main_at = "spin"
  /\ capture_at = (IF rpicam = "on" THEN "loop" ELSE "returned")
  /\ buffer = 0
  /\ pixels = [b \in Buffers |-> 0]
  /\ latest_frame = NoBuffer
  /\ new_frame_available = FALSE
  /\ publish_at = "loop"
  /\ frame_to_publish = NoBuffer
  /\ upper = 0
  /\ published = 0
  /\ captured = 0

Goes == ok /\ running

-----------------------------------------------------------------------------
(* capture_loop.  A definition under "Mistake" is no part of the            *)
(* specification: it is the definition after it with a bug one could make.  *)

CaptureLoops ==
  /\ capture_at = "loop"
  /\ capture_at' = IF Goes THEN "fread" ELSE "returned"
  /\ UNCHANGED <<processVars, buffer, captured, sharedVars, publishVars>>

ReadFrame ==
  /\ capture_at = "fread"
  /\ rpicam = "on"
  /\ captured < MaxFrames
  /\ captured' = captured + 1
  /\ buffer' = captured + 1
  /\ capture_at' = "store"
  /\ UNCHANGED <<processVars, sharedVars, publishVars>>

\* Mistake: a short read is tried again at once.
ReadsAgain == "fread"

AfterShortRead == "loop"

\* The pipe is at its end.
ReadShort ==
  /\ capture_at = "fread"
  /\ rpicam = "ended"
  /\ capture_at' = AfterShortRead
  /\ UNCHANGED <<processVars, buffer, captured, sharedVars, publishVars>>

\* Mistake: copyTo, which writes into storage that is there already.
CopyInto(b) == b = latest_frame \/ latest_frame = NoBuffer

\* clone allocates storage that nobody refers to.
CloneInto(b) == b \notin {latest_frame, frame_to_publish}

StoreFrame ==
  /\ capture_at = "store"
  /\ \E b \in Buffers :
       /\ CloneInto(b)
       /\ pixels' = [pixels EXCEPT ![b] = buffer]
       /\ latest_frame' = b
  /\ new_frame_available' = TRUE
  /\ capture_at' = "loop"
  /\ UNCHANGED <<processVars, buffer, captured, publishVars>>

-----------------------------------------------------------------------------
(* publish_loop *)

PublishLoops ==
  /\ publish_at = "loop"
  /\ publish_at' = IF Goes THEN "take" ELSE "returned"
  /\ UNCHANGED <<processVars, captureVars, sharedVars, frame_to_publish,
                 upper, published>>

\* Mistake: whatever latest_frame_ refers to is published.
HasFrame == TRUE

HasNew == new_frame_available

TakeFrame ==
  /\ publish_at = "take"
  /\ HasNew
  /\ frame_to_publish' = latest_frame
  /\ new_frame_available' = FALSE
  /\ publish_at' = "copy"
  /\ UNCHANGED <<processVars, captureVars, pixels, latest_frame, upper,
                 published>>

\* Sleeps for a moment.
NothingNew ==
  /\ publish_at = "take"
  /\ ~HasNew
  /\ publish_at' = "loop"
  /\ UNCHANGED <<processVars, captureVars, sharedVars, frame_to_publish,
                 upper, published>>

CopyUpper ==
  /\ publish_at = "copy"
  /\ upper' = pixels[frame_to_publish]
  /\ publish_at' = "publish"
  /\ UNCHANGED <<processVars, captureVars, sharedVars, frame_to_publish,
                 published>>

\* Mistake: cleared once more, when the frame is out.
ClearsAgain == new_frame_available' = FALSE

KeepsFlag == UNCHANGED new_frame_available

\* The rest of the rows, and out.
Publish ==
  /\ publish_at = "publish"
  /\ published' = IF upper = pixels[frame_to_publish] THEN upper ELSE Torn
  /\ frame_to_publish' = NoBuffer
  /\ publish_at' = "loop"
  /\ KeepsFlag
  /\ UNCHANGED <<processVars, captureVars, pixels, latest_frame, upper>>

-----------------------------------------------------------------------------
(* The camera process, main and the destructor *)

RpicamEnds ==
  /\ rpicam = "on"
  /\ rpicam' = "ended"
  /\ UNCHANGED <<ok, running, main_at, captureVars, sharedVars, publishVars>>

\* A signal ends spin, and with it rclcpp::ok().
Interrupted ==
  /\ main_at = "spin"
  /\ ok' = FALSE
  /\ running' = FALSE
  /\ main_at' = "join_capture"
  /\ UNCHANGED <<rpicam, captureVars, sharedVars, publishVars>>

Joins ==
  /\ \/ /\ main_at = "join_capture" /\ capture_at = "returned"
        /\ main_at' = "join_publish"
     \/ /\ main_at = "join_publish" /\ publish_at = "returned"
        /\ main_at' = "gone"
  /\ UNCHANGED <<ok, running, rpicam, captureVars, sharedVars, publishVars>>

Gone == main_at = "gone" /\ UNCHANGED vars

CaptureStep == CaptureLoops \/ ReadFrame \/ ReadShort \/ StoreFrame
PublishStep ==
  PublishLoops \/ TakeFrame \/ NothingNew \/ CopyUpper \/ Publish

Next == CaptureStep \/ PublishStep \/ RpicamEnds \/ Interrupted \/ Joins \/ Gone

Spec == Init /\ [][Next]_vars

\* The threads run, and a read returns: rpicam-vid delivers frames, or ends.
Fairness ==
  /\ WF_vars(CaptureStep)
  /\ WF_vars(PublishStep)
  /\ WF_vars(Joins)
  /\ WF_vars(captured = MaxFrames /\ RpicamEnds)

FairSpec == Spec /\ Fairness

-----------------------------------------------------------------------------
(* Properties *)

\* Every image published is one whole frame, newer than the one before,
\* however the threads interleave: the publisher may hold the storage of an
\* old frame while the capture thread stores the next ones.
Feed == INSTANCE FrameFeed
ImplementsFrameFeed == Feed!Spec

\* A frame that was stored is published, or a newer one: no frame is lost
\* because it came while the one before was being published.
StoredFrameShown ==
  \A n \in 1..MaxFrames :
    (latest_frame # NoBuffer /\ pixels[latest_frame] = n)
      ~> (published >= n \/ ~ok)

\* The destructor gets both threads back, also from a camera that has ended
\* and makes every read return at once.
TeardownCompletes == ~running ~> main_at = "gone"
=============================================================================
