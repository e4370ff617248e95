----------------------------- MODULE DriverNode -----------------------------
(***************************************************************************)
(* DriverNode: one single-threaded executor runs every callback to its     *)
(* end, so each callback is one atomic action.  The node composes the      *)
(* pause controller with the motor interface (KinematicsInterface): a      *)
(* command sets the intended wheel speeds, the 100 ms motor timer writes   *)
(* them over I2C, and odometry integrates what the last write claims to    *)
(* have applied.                                                           *)
(*                                                                         *)
(* The three wall timers fire when their period has elapsed and at most    *)
(* Slack units later: time does not pass a timer that is overdue by more.  *)
(***************************************************************************)
EXTENDS PauseController, FiniteSets

CONSTANTS
  Twists,           \* velocity commands: magnitudes [lin, ang]
  Output,           \* Output[t]: velocities the wheels may run at for t
  LinThreshold,     \* linear_speed_threshold_
  RotThreshold,     \* rotation_speed_threshold_
  Motors,           \* the wheels
  Period,           \* Period[t] for the timers below
  Slack,            \* how late a timer may fire
  MaxPoseDelay      \* age of the oldest pose still under way

Timers == {"odom", "timeout", "motor"}
Velocity == [lin : Nat, ang : Nat]
Zero == [lin |-> 0, ang |-> 0]
Velocities == UNION {Output[t] : t \in Twists}

ASSUME TwistAssumption ==
  /\ Twists \subseteq Velocity
  /\ Zero \in Twists
  /\ Output \in [Twists -> SUBSET Velocity]
  /\ Output[Zero] = {Zero}
  /\ \A t \in Twists : Output[t] # {}

ASSUME TimerAssumption ==
  /\ Period \in [Timers -> Nat \ {0}]
  /\ Slack \in Nat
  /\ MaxPoseDelay \in Nat /\ MaxPoseDelay < Horizon

\* The PWM is clamped, so no wheel turns faster than at its maximum.
ASSUME SpeedAssumption ==
  \A axis \in {"lin", "ang"} :
    \E v \in Velocities : \A w \in Velocities : w[axis] <= v[axis]

\* Long ago is before the oldest pose under way by the longest settle time.
ASSUME SettleAssumption ==
  \A c \in Configs \cup Requests :
    /\ c.settle + MaxPoseDelay <= Horizon
    /\ c.settle_after_rotation + MaxPoseDelay <= Horizon

VARIABLES
  alive,              \* the process runs
  connected,          \* fd_ >= 0 after the constructor
  intended,           \* intended_pwm_, as the velocity it was set from
  effective,          \* effective_vx_, effective_vy_, effective_wz_
  running,            \* the wheels whose last I2C write was not zero
  last_was_rotation,  \* last_was_rotation_
  command_age,        \* now - last_command_time_
  timed_out,          \* timed_out_
  odom_age,           \* now - last_odom_time_
  timer_age           \* time since each timer was last due

\* History, read by the properties only.
VARIABLES
  rest_age,           \* how long the robot has been held with its effective
                      \* velocity at zero
  nonzero_age,        \* in FAULT_HOLD, time since a non-zero command arrived
  budget_valid,       \* no fault and no new parameters since the last fix
  drift               \* motion since the last fix, while budget_valid

motorVars == <<intended, effective, running>>
watchdogVars == <<command_age, timed_out>>
clockVars == <<odom_age, timer_age>>
historyVars == <<rest_age, nonzero_age, budget_valid, drift>>
vars == <<controllerVars, alive, connected, motorVars, last_was_rotation,
          watchdogVars, clockVars, historyVars>>

Held == state # "PASS_THROUGH"

TypeOK ==
  /\ ControllerTypeOK
  /\ alive \in BOOLEAN
  /\ connected \in BOOLEAN
  /\ intended \in Twists
  /\ effective \in Velocities
  /\ running \subseteq Motors
  /\ last_was_rotation \in BOOLEAN
  /\ command_age \in Ages
  /\ timed_out \in BOOLEAN
  /\ odom_age \in Ages
  /\ timer_age \in [Timers -> Nat]
  /\ rest_age \in Ages
  /\ nonzero_age \in Ages
  /\ budget_valid \in BOOLEAN
  /\ drift \in Velocity

\* The motor board keeps its last PWM over a restart of this process, and
\* the constructor writes nothing, so any wheel may already be turning.
Init ==
  /\ ControllerInit
  /\ alive = TRUE
  /\ connected \in BOOLEAN
  /\ intended = Zero
  /\ effective = Zero
  /\ running \in SUBSET Motors
  /\ last_was_rotation = FALSE
  /\ command_age = 0
  /\ timed_out = FALSE
  /\ odom_age = 0
  /\ timer_age = [t \in Timers |-> 0]
  /\ rest_age = 0
  /\ nonzero_age = Horizon
  /\ budget_valid = config.enabled
  /\ drift = Zero

-----------------------------------------------------------------------------
(* Time *)

Due(t) == alive /\ timer_age[t] >= Period[t]
Fire(t) == timer_age' = [timer_age EXCEPT ![t] = @ - Period[t]]

Tick ==
  /\ alive
  /\ \A t \in Timers : timer_age[t] < Period[t] + Slack
  /\ ControllerTick
  /\ timer_age' = [t \in Timers |-> timer_age[t] + 1]
  /\ odom_age' = Older(odom_age)
  /\ command_age' = Older(command_age)
  /\ rest_age' = IF Held /\ effective = Zero THEN Older(rest_age) ELSE 0
  /\ nonzero_age' = Older(nonzero_age)
  /\ UNCHANGED <<alive, connected, motorVars, last_was_rotation, timed_out,
                 budget_valid, drift>>

-----------------------------------------------------------------------------
(* The motor interface *)

\* The wheels in failed miss their I2C write and keep what they had: the
\* code notices and goes on.
Write(on, failed) == running' = (on \ failed) \cup (running \cap failed)

\* Mistake: the velocity odometry reads keeps its last value.
StopKeepsEffective(failed) ==
  /\ intended' = Zero
  /\ UNCHANGED effective
  /\ IF connected THEN Write({}, failed) ELSE UNCHANGED running

stop(failed) ==
  /\ intended' = Zero
  /\ effective' = Zero
  /\ IF connected THEN Write({}, failed) ELSE UNCHANGED running

\* drive stores the intention; the next motor tick applies it.
drive(t) ==
  /\ intended' = t
  /\ UNCHANGED <<effective, running>>

\* Mistake: a tick with nothing intended writes nothing.
SkipsZeroTicks == connected /\ intended # Zero

TickWrites == connected

\* Mistake: odometry is fed the intention, not what the wheels were given.
ReportIntention(v) == effective' = intended

Report(v) == effective' = v

\* v is what the pulse modulation makes of the intention at this tick, and
\* on the wheels it switches on: which of them pulse is WheelPulse's matter.
MotorTick(v, on, failed) ==
  /\ Due("motor")
  /\ Fire("motor")
  /\ \/ /\ TickWrites
        /\ v \in Output[intended]
        /\ on = {} <=> v = Zero
        /\ Report(v)
        /\ Write(on, failed)
     \/ ~TickWrites /\ UNCHANGED <<effective, running>>
  /\ rest_age' = IF effective' = Zero THEN rest_age ELSE 0
  /\ UNCHANGED <<controllerVars, alive, connected, intended,
                 last_was_rotation, watchdogVars, odom_age, nonzero_age,
                 budget_valid, drift>>

-----------------------------------------------------------------------------
(* cmd_vel_callback *)

is_rotation_cmd(t) == t.ang >= RotThreshold /\ t.lin < LinThreshold
is_linear_cmd(t) == t.lin >= LinThreshold /\ t.ang < RotThreshold
is_zero_cmd(t) == t.lin < LinThreshold /\ t.ang < RotThreshold

\* Mistake: a command after a timeout leaves the node timed out.
CommandStaysTimedOut(t) ==
  /\ alive /\ connected
  /\ command_age' = 0
  /\ nonzero_age' = IF state = "FAULT_HOLD" /\ ~is_zero_cmd(t)
                      THEN 0 ELSE nonzero_age
  /\ UNCHANGED <<alive, connected, clockVars, timed_out, rest_age,
                 budget_valid, drift>>

CommandArrives(t) ==
  /\ alive /\ connected
  /\ command_age' = 0
  /\ timed_out' = FALSE
  /\ nonzero_age' = IF state = "FAULT_HOLD" /\ ~is_zero_cmd(t)
                      THEN 0 ELSE nonzero_age
  /\ UNCHANGED <<alive, connected, clockVars, rest_age, budget_valid, drift>>

SettlesFirst(t) == /\ config.settle_after_rotation > 0
                   /\ last_was_rotation
                   /\ is_linear_cmd(t)

CommandDiscarded(t, failed) ==
  /\ CommandArrives(t)
  /\ DiscardCommand(is_zero_cmd(t))
  /\ stop(failed)
  /\ UNCHANGED last_was_rotation

\* A pause between a rotation and the linear motion that follows it.  The
\* controller was in PASS_THROUGH, or enters it and leaves it at once.
CommandStartsSettle(t, failed) ==
  /\ CommandArrives(t)
  /\ ForwardsCommand
  /\ SettlesFirst(t)
  /\ Enter("SETTLING")
  /\ active_settle' = config.settle_after_rotation
  /\ zero_command_age' = Unset
  /\ stop(failed)
  /\ last_was_rotation' = FALSE
  /\ UNCHANGED <<config, accumulators, waiting_age, pose_age>>

CommandApplied(t) ==
  /\ CommandArrives(t)
  /\ ~SettlesFirst(t)
  /\ ForwardCommand
  /\ drive(t)
  /\ last_was_rotation' = is_rotation_cmd(t)

cmd_vel_callback(t, failed) ==
  \/ CommandDiscarded(t, failed)
  \/ CommandStartsSettle(t, failed)
  \/ CommandApplied(t)

-----------------------------------------------------------------------------
(* update_odometry *)

Moved == [lin |-> drift.lin + effective.lin * odom_age,
          ang |-> drift.ang + effective.ang * odom_age]

update_odometry(failed) ==
  /\ Due("odom")
  /\ Fire("odom")
  /\ odom_age' = 0
  /\ update_motion(effective, odom_age)
  /\ IF MotionReachesInterval(effective, odom_age)
       THEN stop(failed) /\ last_was_rotation' = FALSE
       ELSE UNCHANGED <<motorVars, last_was_rotation>>
  /\ drift' = IF budget_valid THEN Moved ELSE drift
  /\ UNCHANGED <<alive, connected, watchdogVars, rest_age, nonzero_age,
                 budget_valid>>

-----------------------------------------------------------------------------
(* check_timeout, by what it finds *)

\* While the robot is held, the command watchdog is kept from expiring.
CheckSettled ==
  /\ WaitingStarted
  /\ command_age' = 0
  /\ UNCHANGED <<motorVars, timed_out, last_was_rotation, nonzero_age,
                 budget_valid, drift>>

CheckAborts(failed) ==
  /\ LocalizationAbort
  /\ stop(failed)
  /\ command_age' = 0
  /\ budget_valid' = FALSE
  /\ drift' = Zero
  /\ UNCHANGED <<timed_out, last_was_rotation, nonzero_age>>

CheckRearms ==
  /\ FaultRearmed
  /\ command_age' = 0
  /\ timed_out' = FALSE
  /\ nonzero_age' = Horizon
  /\ UNCHANGED <<motorVars, last_was_rotation, budget_valid, drift>>

CheckHeld ==
  /\ NoTimerEvent
  /\ state # "PASS_THROUGH"
  /\ command_age' = 0
  /\ UNCHANGED <<controllerVars, motorVars, timed_out, last_was_rotation,
                 nonzero_age, budget_valid, drift>>

CommandLate == ~timed_out /\ command_age > config.cmd_timeout

CheckStops(failed) ==
  /\ state = "PASS_THROUGH"
  /\ CommandLate
  /\ stop(failed)
  /\ timed_out' = TRUE
  /\ last_was_rotation' = FALSE
  /\ UNCHANGED <<controllerVars, command_age, nonzero_age, budget_valid,
                 drift>>

CheckQuiet ==
  /\ state = "PASS_THROUGH"
  /\ ~CommandLate
  /\ UNCHANGED <<controllerVars, motorVars, watchdogVars, last_was_rotation,
                 nonzero_age, budget_valid, drift>>

check_timeout(failed) ==
  /\ Due("timeout")
  /\ Fire("timeout")
  /\ UNCHANGED <<alive, connected, odom_age, rest_age>>
  /\ \/ CheckSettled
     \/ CheckAborts(failed)
     \/ CheckRearms
     \/ CheckHeld
     \/ CheckStops(failed)
     \/ CheckQuiet

-----------------------------------------------------------------------------
(* lcode_pose_callback; a pose in another frame than "map" changes nothing *)

lcode_pose_callback(age, failed) ==
  /\ alive
  /\ \/ RunningCorrection(age) /\ UNCHANGED motorVars
     \/ PauseCorrection(age) /\ stop(failed)
     \/ IgnoredPose(age) /\ UNCHANGED motorVars
  /\ IF AcceptsPose(age)
       THEN budget_valid' = config.enabled /\ drift' = Zero
       ELSE UNCHANGED <<budget_valid, drift>>
  /\ UNCHANGED <<alive, connected, last_was_rotation, watchdogVars,
                 clockVars, rest_age, nonzero_age>>

-----------------------------------------------------------------------------
(* Parameters and the end of the process *)

SetParameters(request) ==
  /\ alive
  /\ ValidRequest(request)
  /\ config' = request
  /\ budget_valid' = FALSE
  /\ drift' = Zero
  /\ UNCHANGED <<state, accumulators, state_age, active_settle, waiting_age,
                 zero_command_age, pose_age, alive, connected, motorVars,
                 last_was_rotation, watchdogVars, clockVars, rest_age,
                 nonzero_age>>

\* ~KinematicsInterface: one last stop, and no tick after it to repeat it.
Shutdown(failed) ==
  /\ alive
  /\ alive' = FALSE
  /\ stop(failed)
  /\ UNCHANGED <<controllerVars, connected, last_was_rotation, watchdogVars,
                 clockVars, historyVars>>

Exited == ~alive /\ UNCHANGED vars

-----------------------------------------------------------------------------
Next ==
  \/ Tick
  \/ Exited
  \/ \E age \in 0..MaxPoseDelay, failed \in SUBSET Motors :
       lcode_pose_callback(age, failed)
  \/ \E request \in Requests : SetParameters(request)
  \/ \E failed \in SUBSET Motors :
       \/ \E t \in Twists : cmd_vel_callback(t, failed)
       \/ update_odometry(failed)
       \/ check_timeout(failed)
       \/ Shutdown(failed)
       \/ \E v \in Velocities, on \in SUBSET Motors :
            MotorTick(v, on, failed)

Spec == Init /\ [][Next]_vars

\* The executor keeps running the timers, time passes, and a wheel whose
\* write keeps being retried is written in the end.
Timely ==
  /\ WF_vars(Tick)
  /\ WF_vars(\E failed \in SUBSET Motors : update_odometry(failed))
  /\ WF_vars(\E failed \in SUBSET Motors : check_timeout(failed))
  /\ WF_vars(\E v \in Velocities, on, failed \in SUBSET Motors :
               MotorTick(v, on, failed))
WritesSucceed ==
  SF_vars(\E v \in Velocities, on \in SUBSET Motors : MotorTick(v, on, {}))

FairSpec == Spec /\ Timely /\ WritesSucceed

-----------------------------------------------------------------------------
(* Properties *)

\* While the controller holds the robot, no velocity is intended, none is
\* reported to odometry, and no rotation is remembered that would turn the
\* first command after the hold into a second hold (should_forward_command
\* and every stop_for_localization, abort and correction path).
HeldMeansStopped ==
  Held => intended = Zero /\ effective = Zero /\ ~last_was_rotation

\* A command is not acted on for longer than cmd_timeout after it arrived,
\* give or take one firing of the 50 ms timer: a publisher that dies cannot
\* leave the robot driving, whatever holds and rearms came in between.
NoStaleMotion ==
  intended # Zero =>
    command_age <= config.cmd_timeout + Period["timeout"] + Slack

MaxSpeed(axis) == CHOOSE n \in {v[axis] : v \in Velocities} :
                    \A v \in Velocities : v[axis] <= n

\* Between two corrections the robot drives no farther by its odometry, and
\* turns no more, than the interval plus one odometry step, unless a fault
\* was rearmed or the parameters were changed in between.
DriftBounded ==
  budget_valid =>
    LET step == Period["odom"] + Slack
    IN  /\ drift.lin < config.distance_interval + MaxSpeed("lin") * step
        /\ drift.ang < config.angle_interval + MaxSpeed("ang") * step

\* No phase of a pause outlives its duration by more than one firing of the
\* timer that ends it, so a pause is over after settle + wait_timeout: no
\* pose, command or other pause prolongs the wait once it has begun.
PauseBounded ==
  LET late == Period["timeout"] + Slack
  IN  /\ state = "SETTLING" => state_age <= active_settle + late
      /\ state = "WAITING_LCODE" =>
           waiting_age <= config.wait_timeout + late

\* A pause ends in a correction only with a pose stamped after the robot had
\* stood still for the settle time of that pause: a pose from before the
\* stop, or from while the chassis still swings, is never taken for it.
CorrectionTakenAtRest ==
  [][state = "WAITING_LCODE" /\ state' = "POST_CORRECTION_HOLD" =>
       rest_age - pose_age' >= active_settle]_vars

\* A fault is rearmed only after rearm_zero with no command but zero ones,
\* in a robot that is not commanded to move.
RearmOnlyAfterQuiet ==
  [][state = "FAULT_HOLD" /\ state' = "PASS_THROUGH" =>
       /\ nonzero_age >= config.rearm_zero
       /\ state_age >= config.rearm_zero
       /\ intended' = Zero]_vars

\* Once the publisher has gone quiet with a zero command, a fault is rearmed
\* (on_timer), unless a non-zero command comes again or the process exits.
QuietFaultRearms ==
  (alive /\ state = "FAULT_HOLD" /\ zero_command_age # Unset)
    ~> (~alive \/ state # "FAULT_HOLD" \/ zero_command_age = Unset)

\* Wheels left turning by a failed write, or by the process before this one,
\* come to a stop when nothing is commanded: each motor tick writes again.
WheelsStop ==
  (alive /\ connected /\ intended = Zero)
    ~> (~alive \/ intended # Zero \/ running = {})

\* The comment in KinematicsInterface::stop: a correction or fault stop must
\* bring the physical output to zero at once.
StopIsImmediate == Held /\ connected => running = {}

Mode == CASE ~alive -> "off"
          [] alive /\ state = "PASS_THROUGH" -> "drive"
          [] alive /\ state \in {"SETTLING", "WAITING_LCODE"} -> "held"
          [] alive /\ state = "POST_CORRECTION_HOLD" -> "corrected"
          [] alive /\ state = "FAULT_HOLD" -> "fault"

Abstract == INSTANCE DriveHold WITH
              mode <- Mode,
              moving <- intended # Zero \/ effective # Zero

\* Every step of the driver is a step DriveHold allows: the robot moves only
\* in PASS_THROUGH, a pause leads to a correction or a fault and to nothing
\* else, and neither a fault nor a correction starts the wheels by itself.
ImplementsDriveHold == Abstract!Spec

\* Under the timers' fairness every pause comes to its correction or fault.
EveryPauseEnds == Abstract!EveryHoldEnds
=============================================================================
