----------------------------- MODULE CameraProofs -----------------------------
(***************************************************************************)
(* Theorems about Camera, for any storage and any number of frames: the    *)
(* two threads publish what FrameFeed promises.                            *)
(***************************************************************************)
EXTENDS Camera, TLAPS

-----------------------------------------------------------------------------
(* The invariant *)

\* No frame is newer than the newest read, in the capture thread's buffer, in
\* storage, or out.
NumberedByCapture ==
  /\ published <= captured
  /\ \A b \in Buffers : pixels[b] <= captured

\* A frame on its way into storage is newer than everything behind it.
NewestInBuffer ==
  capture_at = "store" =>
    /\ buffer = captured
    /\ published < captured
    /\ \A b \in Buffers : pixels[b] < captured

\* What the publisher holds is newer than what it published last, and the
\* storage it copies from has not been written since it began.
HeldIsNewer ==
  /\ publish_at \in {"copy", "publish"} =>
       published < pixels[frame_to_publish]
  /\ publish_at = "publish" => upper = pixels[frame_to_publish]

\* The flag is up only over a frame newer than the last one published and the
\* one being published.
FlagMeansNewer ==
  new_frame_available =>
    /\ latest_frame # NoBuffer
    /\ published < pixels[latest_frame]
    /\ frame_to_publish # NoBuffer =>
         pixels[frame_to_publish] < pixels[latest_frame]

FeedInv ==
  /\ TypeOK
  /\ NumberedByCapture
  /\ NewestInBuffer
  /\ HeldIsNewer
  /\ FlagMeansNewer

LEMMA FeedInvPrimed ==
  FeedInv' <=> TypeOK' /\ NumberedByCapture' /\ NewestInBuffer'
                 /\ HeldIsNewer' /\ FlagMeansNewer'
BY DEF FeedInv

-----------------------------------------------------------------------------
(* The steps that touch frames, one lemma each *)

LEMMA ReadFrameKeeps == FeedInv /\ ReadFrame => FeedInv'
<1> SUFFICES ASSUME FeedInv, ReadFrame PROVE FeedInv'
  OBVIOUS
<1> USE DEF FeedInv, ReadFrame, processVars, sharedVars, publishVars
<1>1. captured' \in Frames /\ captured' = captured + 1
  BY CameraAssumption DEF TypeOK, Frames
<1>2. TypeOK'
  BY <1>1 DEF TypeOK
<1>3. /\ \A b \in Buffers : pixels[b] < captured'
      /\ published < captured'
  <2>1. captured \in Nat /\ published \in Nat
    BY CameraAssumption DEF TypeOK, Frames, Torn
  <2>2. \A b \in Buffers : pixels[b] \in Nat
    BY CameraAssumption DEF TypeOK, Frames
  <2>3. QED
    BY <1>1, <2>1, <2>2 DEF NumberedByCapture
<1>4. NumberedByCapture' /\ NewestInBuffer'
  <2>1. captured' \in Nat /\ published \in Nat
    BY <1>1, CameraAssumption DEF TypeOK, Frames, Torn
  <2>2. \A b \in Buffers : pixels[b] \in Nat
    BY CameraAssumption DEF TypeOK, Frames
  <2>3. QED
    BY <1>1, <1>3, <2>1, <2>2 DEF NumberedByCapture, NewestInBuffer
<1>5. HeldIsNewer' /\ FlagMeansNewer'
  BY DEF HeldIsNewer, FlagMeansNewer
<1>6. QED
  BY <1>2, <1>4, <1>5, FeedInvPrimed

\* The new frame goes into storage the publisher does not hold.
LEMMA StoreFrameKeeps == FeedInv /\ StoreFrame => FeedInv'
<1> SUFFICES ASSUME FeedInv, StoreFrame PROVE FeedInv'
  OBVIOUS
<1> USE DEF FeedInv
<1>1. PICK b \in Buffers : /\ b # frame_to_publish
                          /\ pixels' = [pixels EXCEPT ![b] = buffer]
                          /\ latest_frame' = b
  BY DEF StoreFrame, CloneInto
<1>2. /\ capture_at' = "loop" /\ new_frame_available' = TRUE
      /\ UNCHANGED <<processVars, buffer, captured, publishVars>>
  BY DEF StoreFrame
<1> USE DEF processVars, publishVars
<1>3. buffer = captured /\ captured \in Frames
  BY DEF StoreFrame, NewestInBuffer, TypeOK
<1>4. TypeOK'
  BY <1>1, <1>2, <1>3 DEF TypeOK
<1>5. /\ pixels'[b] = captured
      /\ \A c \in Buffers : c # b => pixels'[c] = pixels[c]
  BY <1>1, <1>3 DEF TypeOK
<1>6. frame_to_publish # NoBuffer =>
        frame_to_publish \in Buffers /\ frame_to_publish # b
  BY <1>1 DEF TypeOK
<1>7. NumberedByCapture' /\ NewestInBuffer'
  BY <1>2, <1>3, <1>5, CameraAssumption
  DEF NumberedByCapture, NewestInBuffer, Frames
<1>8. HeldIsNewer'
  BY <1>2, <1>5, <1>6 DEF HeldIsNewer, TypeOK
<1>9. FlagMeansNewer'
  BY <1>1, <1>2, <1>5, <1>6, CameraAssumption
  DEF FlagMeansNewer, NewestInBuffer, StoreFrame
<1>10. QED
  BY <1>4, <1>7, <1>8, <1>9, FeedInvPrimed

LEMMA TakeFrameKeeps == FeedInv /\ TakeFrame => FeedInv'
<1> SUFFICES ASSUME FeedInv, TakeFrame PROVE FeedInv'
  OBVIOUS
<1> USE DEF FeedInv, TakeFrame, HasNew, processVars, captureVars
<1>1. latest_frame \in Buffers /\ published < pixels[latest_frame]
  BY DEF TypeOK, FlagMeansNewer
<1>2. TypeOK'
  BY <1>1, CameraAssumption DEF TypeOK
<1>3. NumberedByCapture' /\ NewestInBuffer'
  BY DEF NumberedByCapture, NewestInBuffer
<1>4. HeldIsNewer' /\ FlagMeansNewer'
  BY <1>1 DEF HeldIsNewer, FlagMeansNewer
<1>5. QED
  BY <1>2, <1>3, <1>4, FeedInvPrimed

LEMMA CopyUpperKeeps == FeedInv /\ CopyUpper => FeedInv'
<1> SUFFICES ASSUME FeedInv, CopyUpper PROVE FeedInv'
  OBVIOUS
<1> USE DEF FeedInv, CopyUpper, processVars, captureVars, sharedVars
<1>1. frame_to_publish \in Buffers
  BY DEF TypeOK
<1>2. TypeOK'
  BY <1>1 DEF TypeOK
<1>3. NumberedByCapture' /\ NewestInBuffer' /\ HeldIsNewer' /\ FlagMeansNewer'
  BY DEF NumberedByCapture, NewestInBuffer, HeldIsNewer, FlagMeansNewer
<1>4. QED
  BY <1>2, <1>3, FeedInvPrimed

\* The frame that goes out is whole, and newer than the one before.
LEMMA PublishedIsNewer ==
  ASSUME FeedInv, Publish
  PROVE  /\ frame_to_publish \in Buffers
         /\ published' = pixels[frame_to_publish]
         /\ published' \in Frames
         /\ published < published'
<1>1. frame_to_publish \in Buffers /\ upper = pixels[frame_to_publish]
  BY DEF FeedInv, TypeOK, HeldIsNewer, Publish
<1>2. QED
  BY <1>1 DEF FeedInv, TypeOK, HeldIsNewer, Publish

LEMMA PublishKeeps == FeedInv /\ Publish => FeedInv'
<1> SUFFICES ASSUME FeedInv, Publish PROVE FeedInv'
  OBVIOUS
<1> USE DEF FeedInv, Publish, KeepsFlag, processVars, captureVars
<1>1. /\ frame_to_publish \in Buffers
      /\ published' = pixels[frame_to_publish]
      /\ published' \in Frames
  BY PublishedIsNewer
<1>2. TypeOK'
  BY <1>1 DEF TypeOK
<1>3. NumberedByCapture' /\ NewestInBuffer'
  BY <1>1 DEF NumberedByCapture, NewestInBuffer
<1>4. HeldIsNewer'
  BY DEF HeldIsNewer
<1>5. FlagMeansNewer'
  BY <1>1, CameraAssumption DEF FlagMeansNewer, TypeOK
<1>6. QED
  BY <1>2, <1>3, <1>4, <1>5, FeedInvPrimed

-----------------------------------------------------------------------------
(* The other steps only move control *)

frameVars == <<buffer, captured, sharedVars, frame_to_publish, upper, published>>

LEMMA ControlKeeps ==
  ASSUME FeedInv, TypeOK', UNCHANGED frameVars,
         capture_at' = capture_at \/ capture_at' # "store",
         publish_at' = publish_at \/ publish_at' \notin {"copy", "publish"}
  PROVE  FeedInv'
BY FeedInvPrimed
DEF FeedInv, frameVars, sharedVars, NumberedByCapture, NewestInBuffer,
    HeldIsNewer, FlagMeansNewer

LEMMA InitFeed == Init => FeedInv
<1> SUFFICES ASSUME Init PROVE FeedInv
  OBVIOUS
<1>1. 0 \in Frames
  BY CameraAssumption DEF Frames
<1>2. TypeOK
  BY <1>1, CameraAssumption DEF Init, TypeOK
<1>3. NumberedByCapture /\ NewestInBuffer /\ HeldIsNewer /\ FlagMeansNewer
  BY DEF Init, NumberedByCapture, NewestInBuffer, HeldIsNewer, FlagMeansNewer
<1>4. QED
  BY <1>2, <1>3 DEF FeedInv

LEMMA NextKeepsFeed == FeedInv /\ [Next]_vars => FeedInv'
<1> SUFFICES ASSUME FeedInv, [Next]_vars PROVE FeedInv'
  OBVIOUS
<1> USE DEF processVars, captureVars, sharedVars, publishVars, frameVars
<1>1. CASE CaptureLoops
  BY <1>1, ControlKeeps DEF CaptureLoops, FeedInv, TypeOK
<1>2. CASE ReadFrame
  BY <1>2, ReadFrameKeeps
<1>3. CASE ReadShort
  BY <1>3, ControlKeeps DEF ReadShort, AfterShortRead, FeedInv, TypeOK
<1>4. CASE StoreFrame
  BY <1>4, StoreFrameKeeps
<1>5. CASE PublishLoops
  BY <1>5, ControlKeeps DEF PublishLoops, FeedInv, TypeOK
<1>6. CASE TakeFrame
  BY <1>6, TakeFrameKeeps
<1>7. CASE NothingNew
  BY <1>7, ControlKeeps DEF NothingNew, FeedInv, TypeOK
<1>8. CASE CopyUpper
  BY <1>8, CopyUpperKeeps
<1>9. CASE Publish
  BY <1>9, PublishKeeps
<1>10. CASE RpicamEnds
  BY <1>10, ControlKeeps DEF RpicamEnds, FeedInv, TypeOK
<1>11. CASE Interrupted
  BY <1>11, ControlKeeps DEF Interrupted, FeedInv, TypeOK
<1>12. CASE Joins
  BY <1>12, ControlKeeps DEF Joins, FeedInv, TypeOK
<1>13. CASE Gone \/ UNCHANGED vars
  BY <1>13, ControlKeeps DEF Gone, vars, FeedInv, TypeOK
<1>14. QED
  BY <1>1, <1>2, <1>3, <1>4, <1>5, <1>6, <1>7, <1>8, <1>9, <1>10, <1>11,
     <1>12, <1>13
  DEF Next, CaptureStep, PublishStep

LEMMA FeedHolds == Spec => []FeedInv
BY InitFeed, NextKeepsFeed, PTL DEF Spec

-----------------------------------------------------------------------------
(* The theorems *)

\* However capture_loop, publish_loop and the destructor interleave, every
\* variable keeps its type, and the publisher holds a frame exactly while it
\* copies and publishes it.
THEOREM TypeCorrect == Spec => []TypeOK
BY FeedHolds, PTL DEF FeedInv

\* camera_node2 publishes whole frames, each newer than the one before,
\* whatever the capture thread stores while a frame is on its way out.
THEOREM Refinement == Spec => ImplementsFrameFeed
<1>1. Init => Feed!Init
  BY DEF Init, Feed!Init
<1>2. FeedInv /\ [Next]_vars
        => [Feed!Capture \/ Feed!Publish]_<<captured, published>>
  <2> SUFFICES ASSUME FeedInv, [Next]_vars
               PROVE  \/ Feed!Capture \/ Feed!Publish
                      \/ UNCHANGED <<captured, published>>
    OBVIOUS
  <2>1. CASE ReadFrame
    BY <2>1 DEF ReadFrame, publishVars, Feed!Capture
  <2>2. CASE Publish
    <3>1. published < published' /\ published' <= captured
      BY <2>2, PublishedIsNewer DEF FeedInv, NumberedByCapture
    <3>2. published \in Nat /\ published' \in Nat /\ captured \in Nat
      BY <2>2, PublishedIsNewer, CameraAssumption
      DEF FeedInv, TypeOK, Frames, Torn
    <3>3. UNCHANGED captured
      BY <2>2 DEF Publish, captureVars
    <3>4. QED
      BY <3>1, <3>2, <3>3 DEF Feed!Publish
  <2>3. CASE \/ CaptureLoops \/ ReadShort \/ StoreFrame \/ PublishLoops
             \/ TakeFrame \/ NothingNew \/ CopyUpper \/ RpicamEnds
             \/ Interrupted \/ Joins \/ Gone \/ UNCHANGED vars
    BY <2>3
    DEF CaptureLoops, ReadShort, StoreFrame, PublishLoops, TakeFrame,
        NothingNew, CopyUpper, RpicamEnds, Interrupted, Joins, Gone,
        processVars, captureVars, publishVars, vars
  <2>4. QED
    BY <2>1, <2>2, <2>3 DEF Next, CaptureStep, PublishStep
<1>3. QED
  BY <1>1, <1>2, FeedHolds, PTL DEF Spec, ImplementsFrameFeed, Feed!Spec
=============================================================================
