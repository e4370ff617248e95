-------------------------- MODULE PauseController --------------------------
(***************************************************************************)
(* LocalizationPauseController: decides when the robot must stand still    *)
(* until the camera has read a fresh floor code ("L-code") pose, and when  *)
(* velocity commands may pass again.                                       *)
(*                                                                         *)
(* Time.  The code keeps absolute times and only ever compares             *)
(* differences with now, so the model keeps the AGE of each time stamp, in *)
(* clock units: now - state_started_sec_ is state_age, and so on.  Ages    *)
(* stop growing at Horizon, above every duration they are compared with,   *)
(* so each comparison is exact and the state space is finite without a     *)
(* bound on the length of a run.                                           *)
(***************************************************************************)
EXTENDS Integers

CONSTANTS
  Horizon,        \* the age at which a time stamp is "long ago"
  Configs,        \* the parameter sets the node runs with
  Requests        \* the parameter sets a user asks for, valid or not

Unset == -1       \* NaN: the time stamp has not been taken

States == {"PASS_THROUGH", "SETTLING", "WAITING_LCODE",
           "POST_CORRECTION_HOLD", "FAULT_HOLD"}

ConfigFields == {"enabled", "distance_interval", "angle_interval", "settle",
                 "wait_timeout", "correction_hold", "rearm_zero",
                 "cmd_timeout", "settle_after_rotation"}

DurationFields == {"settle", "wait_timeout", "correction_hold", "rearm_zero",
                   "cmd_timeout", "settle_after_rotation"}

\* The check the parameter callback makes before it accepts anything.
ValidRequest(c) ==
  /\ c.distance_interval > 0
  /\ c.angle_interval > 0
  /\ c.settle >= 0
  /\ c.wait_timeout > 0
  /\ c.correction_hold >= 0
  /\ c.rearm_zero >= 0

Config == [enabled : BOOLEAN,
           distance_interval : Int, angle_interval : Int,
           settle : Int, wait_timeout : Int,
           correction_hold : Int, rearm_zero : Int,
           cmd_timeout : Int, settle_after_rotation : Int]

ASSUME HorizonAssumption == Horizon \in Nat \ {0}

ASSUME ConfigAssumption ==
  /\ Configs \subseteq Config
  /\ Requests \subseteq Config
  /\ \A c \in Configs : ValidRequest(c)
  /\ \A c \in Configs \cup Requests :
       \A f \in DurationFields : c[f] < Horizon

Ages == 0..Horizon
Older(age) == IF age < Horizon THEN age + 1 ELSE age
OlderIfSet(age) == IF age = Unset THEN Unset ELSE Older(age)

VARIABLES
  config,                \* config_, with the node's own two durations
  state,                 \* state_
  accumulated_distance,  \* accumulated_distance_m_
  accumulated_angle,     \* accumulated_angle_rad_
  state_age,             \* now - state_started_sec_
  active_settle,         \* active_settle_sec_
  waiting_age,           \* now - waiting_since_sec_, or Unset
  zero_command_age,      \* now - zero_command_since_sec_, or Unset
  pose_age               \* now - last_pose_stamp_sec_; Horizon for -infinity

accumulators == <<accumulated_distance, accumulated_angle>>
controllerVars == <<config, state, accumulated_distance, accumulated_angle,
                    state_age, active_settle, waiting_age, zero_command_age,
                    pose_age>>

ControllerTypeOK ==
  /\ config \in Configs \cup Requests
  /\ state \in States
  /\ accumulated_distance \in Nat
  /\ accumulated_angle \in Nat
  /\ state_age \in Ages
  /\ active_settle \in 0..Horizon
  /\ waiting_age \in Ages \cup {Unset}
  /\ zero_command_age \in Ages \cup {Unset}
  /\ pose_age \in Ages

ControllerInit ==
  /\ config \in Configs
  /\ state = "PASS_THROUGH"
  /\ accumulated_distance = 0
  /\ accumulated_angle = 0
  /\ state_age = Horizon          \* state_started_sec_ = 0: long ago
  /\ active_settle = 0
  /\ waiting_age = Unset
  /\ zero_command_age = Unset
  /\ pose_age = Horizon

ControllerTick ==
  /\ state_age' = Older(state_age)
  /\ waiting_age' = OlderIfSet(waiting_age)
  /\ zero_command_age' = OlderIfSet(zero_command_age)
  /\ pose_age' = Older(pose_age)
  /\ UNCHANGED <<config, state, accumulators, active_settle>>

(***************************************************************************)
(* The controller's methods.  A definition under "Mistake" is no part of   *)
(* the specification: it is the definition after it with a bug one could   *)
(* make in the code, kept to show that a property would notice.            *)
(***************************************************************************)
reset_accumulators ==
  /\ accumulated_distance' = 0
  /\ accumulated_angle' = 0

\* Leaves state for s now.
Enter(s) ==
  /\ state' = s
  /\ state_age' = 0

start_pause(settle_override) ==
  /\ state = "PASS_THROUGH"
  /\ Enter("SETTLING")
  /\ active_settle' = IF settle_override >= 0 THEN settle_override
                                              ELSE config.settle
  /\ zero_command_age' = Unset

CountsMotion(dt) == config.enabled /\ state = "PASS_THROUGH" /\ dt > 0

\* Mistake: only the distance is compared.
MotionIgnoresAngle(v, dt) ==
  /\ CountsMotion(dt)
  /\ accumulated_distance + v.lin * dt >= config.distance_interval

\* update_motion returns TRUE exactly when this holds.
MotionReachesInterval(v, dt) ==
  /\ CountsMotion(dt)
  /\ \/ accumulated_distance + v.lin * dt >= config.distance_interval
     \/ accumulated_angle + v.ang * dt >= config.angle_interval

AccumulateMotion(v, dt) ==
  /\ accumulated_distance' = accumulated_distance + v.lin * dt
  /\ accumulated_angle' = accumulated_angle + v.ang * dt

update_motion(v, dt) ==
  \/ /\ MotionReachesInterval(v, dt)
     /\ AccumulateMotion(v, dt)
     /\ start_pause(config.settle)
     /\ UNCHANGED <<config, waiting_age, pose_age>>
  \/ /\ CountsMotion(dt)
     /\ ~MotionReachesInterval(v, dt)
     /\ AccumulateMotion(v, dt)
     /\ UNCHANGED <<config, state, state_age, active_settle, waiting_age,
                    zero_command_age, pose_age>>
  \/ /\ ~CountsMotion(dt)
     /\ UNCHANGED controllerVars

\* on_pose, by what it returns.  age is the age of the pose's stamp.
NewerPose(age) == age < pose_age

RunningCorrection(age) ==
  /\ NewerPose(age)
  /\ state = "PASS_THROUGH"
  /\ pose_age' = age
  /\ reset_accumulators
  /\ UNCHANGED <<config, state, state_age, active_settle, waiting_age,
                 zero_command_age>>

\* Mistake: any new pose will do, however old.
PauseCorrectionByAnyPose(age) ==
  /\ NewerPose(age)
  /\ state = "WAITING_LCODE"
  /\ pose_age' = age
  /\ reset_accumulators
  /\ Enter("POST_CORRECTION_HOLD")
  /\ UNCHANGED <<config, active_settle, waiting_age, zero_command_age>>

PauseCorrection(age) ==
  /\ NewerPose(age)
  /\ state = "WAITING_LCODE" /\ age <= waiting_age
  /\ pose_age' = age
  /\ reset_accumulators
  /\ Enter("POST_CORRECTION_HOLD")
  /\ UNCHANGED <<config, active_settle, waiting_age, zero_command_age>>

AcceptsPose(age) ==
  /\ NewerPose(age)
  /\ \/ state = "PASS_THROUGH"
     \/ state = "WAITING_LCODE" /\ age <= waiting_age

\* Mistake: a stale pose clears the motion counted so far.
IgnoredPoseResets(age) ==
  /\ ~AcceptsPose(age)
  /\ reset_accumulators
  /\ UNCHANGED <<config, state, state_age, active_settle, waiting_age,
                 zero_command_age, pose_age>>

\* Mistake: a stale pose starts the wait again.
IgnoredPoseRestartsWait(age) ==
  /\ ~AcceptsPose(age)
  /\ state_age' = IF state = "WAITING_LCODE" THEN 0 ELSE state_age
  /\ pose_age' = IF NewerPose(age) THEN age ELSE pose_age
  /\ UNCHANGED <<config, state, accumulators, active_settle, waiting_age,
                 zero_command_age>>

IgnoredPose(age) ==
  /\ ~AcceptsPose(age)
  /\ pose_age' = IF NewerPose(age) THEN age ELSE pose_age
  /\ UNCHANGED <<config, state, accumulators, state_age, active_settle,
                 waiting_age, zero_command_age>>

\* on_timer, by the event it returns.
SettleElapsed == state = "SETTLING" /\ state_age >= active_settle
WaitElapsed == state = "WAITING_LCODE" /\ state_age >= config.wait_timeout

RearmElapsed == /\ state = "FAULT_HOLD"
                /\ zero_command_age # Unset
                /\ zero_command_age >= config.rearm_zero

WaitingStarted ==
  /\ SettleElapsed
  /\ Enter("WAITING_LCODE")
  /\ waiting_age' = 0
  /\ UNCHANGED <<config, accumulators, active_settle, zero_command_age,
                 pose_age>>

LocalizationAbort ==
  /\ WaitElapsed
  /\ Enter("FAULT_HOLD")
  /\ zero_command_age' = Unset
  /\ UNCHANGED <<config, accumulators, active_settle, waiting_age, pose_age>>

FaultRearmed ==
  /\ RearmElapsed
  /\ Enter("PASS_THROUGH")
  /\ zero_command_age' = Unset
  /\ reset_accumulators
  /\ UNCHANGED <<config, active_settle, waiting_age, pose_age>>

NoTimerEvent == ~SettleElapsed /\ ~WaitElapsed /\ ~RearmElapsed

\* Mistake: the time is compared, whatever the state.
HoldElapsedInAnyState == state_age >= config.correction_hold

HoldElapsed == /\ state = "POST_CORRECTION_HOLD"
               /\ state_age >= config.correction_hold

\* should_forward_command returns TRUE exactly when ForwardsCommand holds.
ForwardsCommand == state = "PASS_THROUGH" \/ HoldElapsed

\* Mistake: a non-zero command does not restart the quiet period.
DiscardForgivesMotion(is_zero) ==
  /\ ~ForwardsCommand
  /\ zero_command_age' =
       IF state = "FAULT_HOLD" /\ is_zero /\ zero_command_age = Unset
         THEN 0 ELSE zero_command_age
  /\ UNCHANGED <<config, state, accumulators, state_age, active_settle,
                 waiting_age, pose_age>>

\* Mistake: every zero command restarts the quiet period.
DiscardRestartsQuiet(is_zero) ==
  /\ ~ForwardsCommand
  /\ zero_command_age' = IF state # "FAULT_HOLD" THEN zero_command_age
                         ELSE IF is_zero THEN 0 ELSE Unset
  /\ UNCHANGED <<config, state, accumulators, state_age, active_settle,
                 waiting_age, pose_age>>

\* Mistake: a command that arrives in a pause prolongs it.
DiscardProlongsPause(is_zero) ==
  /\ ~ForwardsCommand
  /\ state_age' = 0
  /\ UNCHANGED <<config, state, accumulators, active_settle, waiting_age,
                 zero_command_age, pose_age>>

\* In FAULT_HOLD the quiet period starts at the first zero command after a
\* non-zero one.
DiscardCommand(is_zero) ==
  /\ ~ForwardsCommand
  /\ \/ state # "FAULT_HOLD" /\ UNCHANGED zero_command_age
     \/ /\ state = "FAULT_HOLD" /\ is_zero
        /\ zero_command_age' =
             IF zero_command_age = Unset THEN 0 ELSE zero_command_age
     \/ state = "FAULT_HOLD" /\ ~is_zero /\ zero_command_age' = Unset
  /\ UNCHANGED <<config, state, accumulators, state_age, active_settle,
                 waiting_age, pose_age>>

\* The command goes on to the node.
ForwardCommand ==
  /\ ForwardsCommand
  /\ state' = "PASS_THROUGH"
  /\ state_age' = IF state = "PASS_THROUGH" THEN state_age ELSE 0
  /\ UNCHANGED <<config, accumulators, active_settle, waiting_age,
                 zero_command_age, pose_age>>
=============================================================================
