------------------------------ MODULE DriveHold ------------------------------
(***************************************************************************)
(* What the driver promises about stopping for a correction, with no       *)
(* clock, parameter or motor in sight: the robot moves only in "drive",    *)
(* every hold ends in a correction or a fault, and a fault is left only    *)
(* while the robot stands still.                                           *)
(***************************************************************************)
VARIABLES
  mode,     \* "drive", "held", "corrected", "fault" or "off"
  moving    \* a motion is commanded or under way

holdVars == <<mode, moving>>

Modes == {"drive", "held", "corrected", "fault", "off"}

Init == mode = "drive" /\ moving = FALSE

Drive == mode = "drive" /\ moving' \in BOOLEAN /\ UNCHANGED mode
Hold == mode = "drive" /\ mode' = "held" /\ ~moving'
Correct == mode = "held" /\ mode' = "corrected" /\ ~moving'
GiveUp == mode = "held" /\ mode' = "fault" /\ ~moving'
Resume == mode = "corrected" /\ mode' = "drive" /\ moving' \in BOOLEAN
Rearm == mode = "fault" /\ mode' = "drive" /\ ~moving'
SwitchOff == mode # "off" /\ mode' = "off" /\ ~moving'

Next == Drive \/ Hold \/ Correct \/ GiveUp \/ Resume \/ Rearm \/ SwitchOff

Spec == Init /\ [][Next]_holdVars

\* No hold lasts for ever: it is corrected, given up, or ends with the process.
EveryHoldEnds == mode = "held" ~> mode \in {"corrected", "fault", "off"}
=============================================================================
