------------------------------ MODULE FrameFeed ------------------------------
(***************************************************************************)
(* What a camera node promises about the images it publishes, with no      *)
(* thread, lock or buffer in sight: each is one whole frame, newer than    *)
(* the one before.  Frames may be skipped.                                 *)
(***************************************************************************)
EXTENDS Naturals

VARIABLES
  captured,   \* the number of frames read so far: the newest one's number
  published   \* the number of the frame published last

Init == captured = 0 /\ published = 0

Capture == captured' = captured + 1 /\ UNCHANGED published
Publish == published' \in published + 1..captured /\ UNCHANGED captured

Spec == Init /\ [][Capture \/ Publish]_<<captured, published>>
=============================================================================
