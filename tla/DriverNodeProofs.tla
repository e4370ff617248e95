--------------------------- MODULE DriverNodeProofs ---------------------------
(***************************************************************************)
(* Theorems about DriverNode, for every set of twists, wheels, periods and *)
(* parameters its assumptions allow: its modes, its refinement, and how    *)
(* long and how far the firing of its timers lets it go.                   *)
(***************************************************************************)
EXTENDS DriverNode, TLAPS

-----------------------------------------------------------------------------
(* Types *)

\* TypeOK is not inductive by itself: a settle time is stored as an age, so
\* the parameters in force must have passed the check of the callback.
ControllerInv == ControllerTypeOK /\ ValidRequest(config)
TypeInv == TypeOK /\ ValidRequest(config)

\* Every velocity the wheels may run at has magnitudes for components, and
\* standing still is one of them.
LEMMA VelocityFacts ==
  /\ Zero \in Velocities
  /\ Velocities \subseteq Velocity
  /\ \A t \in Twists : Output[t] \subseteq Velocities
<1>1. Zero \in Output[Zero] /\ Zero \in Twists
  BY TwistAssumption
<1>2. QED
  BY <1>1, TwistAssumption DEF Velocities

\* The parameter sets that can be in force have durations below Horizon.
LEMMA ConfigFacts ==
  ASSUME ControllerInv
  PROVE  /\ config.settle \in 0..Horizon
         /\ config.settle_after_rotation \in Int
         /\ config.settle_after_rotation < Horizon
         /\ config.distance_interval \in Int
         /\ config.angle_interval \in Int
<1>1. config \in Config /\ config.settle \in Int /\ config.settle >= 0
  BY ConfigAssumption DEF ControllerInv, ControllerTypeOK, ValidRequest, Config
<1>2. config.settle < Horizon /\ config.settle_after_rotation < Horizon
  BY ConfigAssumption
  DEF ControllerInv, ControllerTypeOK, DurationFields
<1>3. QED
  BY <1>1, <1>2, HorizonAssumption DEF Config

\* An age stays an age when time passes.
LEMMA OlderType ==
  /\ \A age \in Ages : Older(age) \in Ages
  /\ \A age \in Ages \cup {Unset} : OlderIfSet(age) \in Ages \cup {Unset}
BY HorizonAssumption DEF Older, OlderIfSet, Ages, Unset

\* Motion only adds up.
LEMMA AccumulateType ==
  ASSUME NEW n \in Nat, NEW v \in Nat, NEW dt \in Nat
  PROVE  n + v * dt \in Nat
<1>1. v * dt \in Nat
  OBVIOUS
<1>2. QED
  BY <1>1

\* What each method of the controller leaves behind.
LEMMA ControllerTickType ==
  ControllerInv /\ ControllerTick => ControllerInv'
BY OlderType
DEF ControllerInv, ControllerTypeOK, ControllerTick, ValidRequest, accumulators

LEMMA UpdateMotionType ==
  ASSUME ControllerInv, NEW v \in Velocity, NEW dt \in Ages, update_motion(v, dt)
  PROVE  ControllerInv'
<1>1. v.lin \in Nat /\ v.ang \in Nat /\ dt \in Nat
  BY HorizonAssumption DEF Velocity, Ages
<1>2. ASSUME AccumulateMotion(v, dt)
      PROVE  accumulated_distance' \in Nat /\ accumulated_angle' \in Nat
  BY <1>1, <1>2, AccumulateType
  DEF AccumulateMotion, ControllerInv, ControllerTypeOK
<1>3. CASE /\ MotionReachesInterval(v, dt)
           /\ AccumulateMotion(v, dt)
           /\ start_pause(config.settle)
           /\ UNCHANGED <<config, waiting_age, pose_age>>
  BY <1>2, <1>3, ConfigFacts, HorizonAssumption
  DEF start_pause, Enter, ControllerInv, ControllerTypeOK, ValidRequest,
      States, Ages, Unset
<1>4. CASE /\ AccumulateMotion(v, dt)
           /\ UNCHANGED <<config, state, state_age, active_settle,
                          waiting_age, zero_command_age, pose_age>>
  BY <1>2, <1>4 DEF ControllerInv, ControllerTypeOK, ValidRequest
<1>5. CASE UNCHANGED controllerVars
  BY <1>5 DEF ControllerInv, ControllerTypeOK, ValidRequest, controllerVars
<1>6. QED
  BY <1>3, <1>4, <1>5 DEF update_motion

LEMMA OnPoseType ==
  ASSUME ControllerInv, NEW age \in 0..MaxPoseDelay,
         RunningCorrection(age) \/ PauseCorrection(age) \/ IgnoredPose(age)
  PROVE  ControllerInv'
<1>1. age \in Ages /\ 0 \in Ages
  BY TimerAssumption, HorizonAssumption DEF Ages
<1>2. QED
  BY <1>1
  DEF RunningCorrection, PauseCorrection, IgnoredPose, Enter,
      reset_accumulators, accumulators, ControllerInv, ControllerTypeOK,
      ValidRequest, States

LEMMA OnTimerType ==
  ASSUME ControllerInv, WaitingStarted \/ LocalizationAbort \/ FaultRearmed
  PROVE  ControllerInv'
<1>1. 0 \in Ages
  BY HorizonAssumption DEF Ages
<1>2. QED
  BY <1>1
  DEF WaitingStarted, LocalizationAbort, FaultRearmed, Enter,
      reset_accumulators, accumulators, ControllerInv, ControllerTypeOK,
      ValidRequest, States

LEMMA OnCommandType ==
  ASSUME ControllerInv, NEW z, DiscardCommand(z) \/ ForwardCommand
  PROVE  ControllerInv'
<1>1. 0 \in Ages
  BY HorizonAssumption DEF Ages
<1>2. QED
  BY <1>1
  DEF DiscardCommand, ForwardCommand, accumulators, ControllerInv,
      ControllerTypeOK, ValidRequest, States

-----------------------------------------------------------------------------
(* What the parts of a node step leave behind *)

MotorTypeOK ==
  intended \in Twists /\ effective \in Velocities /\ running \subseteq Motors

NodeTypeOK ==
  /\ alive \in BOOLEAN
  /\ connected \in BOOLEAN
  /\ last_was_rotation \in BOOLEAN
  /\ command_age \in Ages
  /\ timed_out \in BOOLEAN
  /\ odom_age \in Ages
  /\ timer_age \in [Timers -> Nat]
  /\ rest_age \in Ages
  /\ nonzero_age \in Ages
  /\ budget_valid \in BOOLEAN
  /\ drift \in Velocity

LEMMA TypeParts == TypeInv <=> ControllerInv /\ MotorTypeOK /\ NodeTypeOK
BY DEF TypeInv, TypeOK, ControllerInv, MotorTypeOK, NodeTypeOK

LEMMA TypePartsPrimed ==
  TypeInv' <=> ControllerInv' /\ MotorTypeOK' /\ NodeTypeOK'
BY DEF TypeInv, TypeOK, ControllerInv, MotorTypeOK, NodeTypeOK

LEMMA StopType ==
  ASSUME MotorTypeOK, NEW failed \in SUBSET Motors, stop(failed)
  PROVE  MotorTypeOK'
BY VelocityFacts, TwistAssumption DEF stop, Write, MotorTypeOK

LEMMA FireType ==
  ASSUME NodeTypeOK, NEW t \in Timers, Due(t), Fire(t)
  PROVE  timer_age' \in [Timers -> Nat]
<1>1. timer_age[t] - Period[t] \in Nat
  BY TimerAssumption DEF NodeTypeOK, Due
<1>2. QED
  BY <1>1 DEF Fire, NodeTypeOK

LEMMA CommandArrivesType ==
  ASSUME NodeTypeOK, NEW t, CommandArrives(t), last_was_rotation' \in BOOLEAN
  PROVE  NodeTypeOK'
<1>1. 0 \in Ages
  BY HorizonAssumption DEF Ages
<1>2. QED
  BY <1>1 DEF CommandArrives, NodeTypeOK, clockVars

LEMMA ConstantAges == 0 \in Ages /\ Horizon \in Ages /\ Zero \in Velocity
BY HorizonAssumption DEF Ages, Zero, Velocity

-----------------------------------------------------------------------------
(* Every action keeps the types *)

LEMMA TickKeepsTypes == TypeInv /\ Tick => TypeInv'
<1> SUFFICES ASSUME TypeInv, Tick PROVE TypeInv'
  OBVIOUS
<1>1. ControllerInv'
  BY TypeParts, ControllerTickType DEF Tick
<1>2. MotorTypeOK'
  BY TypeParts DEF Tick, MotorTypeOK, motorVars
<1>3. NodeTypeOK'
  <2>1. timer_age' \in [Timers -> Nat]
    BY TypeParts DEF Tick, NodeTypeOK
  <2>2. QED
    BY <2>1, TypeParts, OlderType, ConstantAges DEF Tick, NodeTypeOK
<1>4. QED
  BY <1>1, <1>2, <1>3, TypePartsPrimed

LEMMA MotorTickKeepsTypes ==
  ASSUME TypeInv, NEW v \in Velocities, NEW on \in SUBSET Motors,
         NEW failed \in SUBSET Motors, MotorTick(v, on, failed)
  PROVE  TypeInv'
<1>1. ControllerInv'
  BY TypeParts
  DEF MotorTick, controllerVars, ControllerInv, ControllerTypeOK, ValidRequest
<1>2. MotorTypeOK'
  BY TypeParts DEF MotorTick, Report, Write, MotorTypeOK
<1>3. NodeTypeOK'
  <2>1. timer_age' \in [Timers -> Nat]
    BY TypeParts, FireType DEF MotorTick, Timers
  <2>2. QED
    BY <2>1, TypeParts, ConstantAges DEF MotorTick, NodeTypeOK, watchdogVars
<1>4. QED
  BY <1>1, <1>2, <1>3, TypePartsPrimed

LEMMA CmdVelKeepsTypes ==
  ASSUME TypeInv, NEW t \in Twists, NEW failed \in SUBSET Motors,
         cmd_vel_callback(t, failed)
  PROVE  TypeInv'
<1>1. CASE CommandDiscarded(t, failed)
  <2>1. ControllerInv' /\ MotorTypeOK'
    BY <1>1, TypeParts, OnCommandType, StopType DEF CommandDiscarded
  <2>2. NodeTypeOK'
    BY <1>1, TypeParts, CommandArrivesType DEF CommandDiscarded, NodeTypeOK
  <2>3. QED
    BY <2>1, <2>2, TypePartsPrimed
<1>2. CASE CommandStartsSettle(t, failed)
  <2>1. ControllerInv'
    <3>1. active_settle' \in 0..Horizon
      BY <1>2, TypeParts, ConfigFacts, HorizonAssumption
      DEF CommandStartsSettle, SettlesFirst
    <3>2. QED
      BY <1>2, <3>1, TypeParts, ConstantAges
      DEF CommandStartsSettle, Enter, accumulators, ControllerInv,
          ControllerTypeOK, ValidRequest, States
  <2>2. MotorTypeOK'
    BY <1>2, TypeParts, StopType DEF CommandStartsSettle
  <2>3. NodeTypeOK'
    BY <1>2, TypeParts, CommandArrivesType DEF CommandStartsSettle
  <2>4. QED
    BY <2>1, <2>2, <2>3, TypePartsPrimed
<1>3. CASE CommandApplied(t)
  <2>1. ControllerInv'
    BY <1>3, TypeParts, OnCommandType DEF CommandApplied
  <2>2. MotorTypeOK'
    BY <1>3, TypeParts DEF CommandApplied, drive, MotorTypeOK
  <2>3. NodeTypeOK'
    <3>1. last_was_rotation' \in BOOLEAN
      BY <1>3 DEF CommandApplied, is_rotation_cmd
    <3>2. QED
      BY <1>3, <3>1, TypeParts, CommandArrivesType DEF CommandApplied
  <2>4. QED
    BY <2>1, <2>2, <2>3, TypePartsPrimed
<1>4. QED
  BY <1>1, <1>2, <1>3 DEF cmd_vel_callback

LEMMA OdometryKeepsTypes ==
  ASSUME TypeInv, NEW failed \in SUBSET Motors, update_odometry(failed)
  PROVE  TypeInv'
<1>1. effective \in Velocity /\ odom_age \in Ages
  BY TypeParts, VelocityFacts DEF MotorTypeOK, NodeTypeOK
<1>2. ControllerInv'
  BY <1>1, TypeParts, UpdateMotionType DEF update_odometry
<1>3. MotorTypeOK' /\ last_was_rotation' \in BOOLEAN
  <2>1. CASE stop(failed) /\ last_was_rotation' = FALSE
    BY <2>1, TypeParts, StopType
  <2>2. CASE UNCHANGED <<motorVars, last_was_rotation>>
    BY <2>2, TypeParts DEF motorVars, MotorTypeOK, NodeTypeOK
  <2>3. QED
    BY <2>1, <2>2 DEF update_odometry
<1>4. drift' \in Velocity
  <2>1. /\ drift.lin + effective.lin * odom_age \in Nat
        /\ drift.ang + effective.ang * odom_age \in Nat
    BY <1>1, TypeParts, AccumulateType, HorizonAssumption
    DEF NodeTypeOK, Velocity, Ages
  <2>2. QED
    BY <2>1, TypeParts DEF update_odometry, Moved, NodeTypeOK, Velocity
<1>5. timer_age' \in [Timers -> Nat]
  BY TypeParts, FireType DEF update_odometry, Timers
<1>6. NodeTypeOK'
  BY <1>3, <1>4, <1>5, TypeParts, ConstantAges
  DEF update_odometry, NodeTypeOK, watchdogVars
<1>7. QED
  BY <1>2, <1>3, <1>6, TypePartsPrimed

LEMMA CheckTimeoutKeepsTypes ==
  ASSUME TypeInv, NEW failed \in SUBSET Motors, check_timeout(failed)
  PROVE  TypeInv'
<1> USE DEF motorVars, watchdogVars
<1>1. timer_age' \in [Timers -> Nat]
  BY TypeParts, FireType DEF check_timeout, Timers
<1>2. /\ alive' \in BOOLEAN /\ connected' \in BOOLEAN
      /\ odom_age' \in Ages /\ rest_age' \in Ages
  BY TypeParts DEF check_timeout, NodeTypeOK
<1>3. CASE CheckSettled
  <2>1. ControllerInv'
    BY <1>3, TypeParts, OnTimerType DEF CheckSettled
  <2>2. MotorTypeOK' /\ NodeTypeOK'
    BY <1>1, <1>2, <1>3, TypeParts, ConstantAges
    DEF CheckSettled, MotorTypeOK, NodeTypeOK
  <2>3. QED
    BY <2>1, <2>2, TypePartsPrimed
<1>4. CASE CheckAborts(failed)
  <2>1. ControllerInv' /\ MotorTypeOK'
    BY <1>4, TypeParts, OnTimerType, StopType DEF CheckAborts
  <2>2. NodeTypeOK'
    BY <1>1, <1>2, <1>4, TypeParts, ConstantAges DEF CheckAborts, NodeTypeOK
  <2>3. QED
    BY <2>1, <2>2, TypePartsPrimed
<1>5. CASE CheckRearms
  <2>1. ControllerInv'
    BY <1>5, TypeParts, OnTimerType DEF CheckRearms
  <2>2. MotorTypeOK' /\ NodeTypeOK'
    BY <1>1, <1>2, <1>5, TypeParts, ConstantAges
    DEF CheckRearms, MotorTypeOK, NodeTypeOK
  <2>3. QED
    BY <2>1, <2>2, TypePartsPrimed
<1>6. CASE CheckHeld \/ CheckQuiet
  <2>1. ControllerInv'
    BY <1>6, TypeParts
    DEF CheckHeld, CheckQuiet, controllerVars, ControllerInv,
        ControllerTypeOK, ValidRequest
  <2>2. MotorTypeOK' /\ NodeTypeOK'
    BY <1>1, <1>2, <1>6, TypeParts, ConstantAges
    DEF CheckHeld, CheckQuiet, MotorTypeOK, NodeTypeOK
  <2>3. QED
    BY <2>1, <2>2, TypePartsPrimed
<1>7. CASE CheckStops(failed)
  <2>1. ControllerInv' /\ MotorTypeOK'
    BY <1>7, TypeParts, StopType
    DEF CheckStops, controllerVars, ControllerInv, ControllerTypeOK,
        ValidRequest
  <2>2. NodeTypeOK'
    BY <1>1, <1>2, <1>7, TypeParts DEF CheckStops, NodeTypeOK
  <2>3. QED
    BY <2>1, <2>2, TypePartsPrimed
<1>8. QED
  BY <1>3, <1>4, <1>5, <1>6, <1>7 DEF check_timeout

LEMMA LcodePoseKeepsTypes ==
  ASSUME TypeInv, NEW age \in 0..MaxPoseDelay, NEW failed \in SUBSET Motors,
         lcode_pose_callback(age, failed)
  PROVE  TypeInv'
<1>1. ControllerInv'
  BY TypeParts, OnPoseType DEF lcode_pose_callback
<1>2. MotorTypeOK'
  BY TypeParts, StopType DEF lcode_pose_callback, motorVars, MotorTypeOK
<1>3. NodeTypeOK'
  <2>1. config.enabled \in BOOLEAN
    BY TypeParts, ConfigAssumption
    DEF ControllerInv, ControllerTypeOK, Config
  <2>2. QED
    BY <2>1, TypeParts, ConstantAges
    DEF lcode_pose_callback, NodeTypeOK, watchdogVars, clockVars
<1>4. QED
  BY <1>1, <1>2, <1>3, TypePartsPrimed

LEMMA SetParametersKeepsTypes ==
  ASSUME TypeInv, NEW request \in Requests, SetParameters(request)
  PROVE  TypeInv'
<1>1. ControllerInv'
  BY TypeParts
  DEF SetParameters, ControllerInv, ControllerTypeOK, ValidRequest,
      accumulators
<1>2. MotorTypeOK' /\ NodeTypeOK'
  BY TypeParts, ConstantAges
  DEF SetParameters, MotorTypeOK, NodeTypeOK, motorVars, watchdogVars,
      clockVars
<1>3. QED
  BY <1>1, <1>2, TypePartsPrimed

LEMMA ShutdownKeepsTypes ==
  ASSUME TypeInv, NEW failed \in SUBSET Motors, Shutdown(failed)
  PROVE  TypeInv'
<1>1. ControllerInv' /\ MotorTypeOK'
  BY TypeParts, StopType
  DEF Shutdown, controllerVars, ControllerInv, ControllerTypeOK, ValidRequest
<1>2. NodeTypeOK'
  BY TypeParts
  DEF Shutdown, NodeTypeOK, watchdogVars, clockVars, historyVars
<1>3. QED
  BY <1>1, <1>2, TypePartsPrimed

LEMMA StutterKeepsTypes == TypeInv /\ UNCHANGED vars => TypeInv'
BY DEF vars, controllerVars, motorVars, watchdogVars, clockVars, historyVars,
       TypeInv, TypeOK, ControllerTypeOK, ValidRequest

LEMMA InitTypes == Init => TypeInv
<1> SUFFICES ASSUME Init PROVE TypeInv
  OBVIOUS
<1>1. config \in Configs /\ config.enabled \in BOOLEAN /\ ValidRequest(config)
  BY ConfigAssumption DEF Init, ControllerInit, Config
<1>2. ControllerInv
  BY <1>1, ConstantAges
  DEF Init, ControllerInit, ControllerInv, ControllerTypeOK, States, Ages,
      Unset
<1>3. MotorTypeOK
  BY TwistAssumption, VelocityFacts DEF Init, MotorTypeOK
<1>4. NodeTypeOK
  BY <1>1, ConstantAges DEF Init, NodeTypeOK
<1>5. QED
  BY <1>2, <1>3, <1>4, TypeParts

LEMMA NextKeepsTypes == TypeInv /\ [Next]_vars => TypeInv'
<1> SUFFICES ASSUME TypeInv, [Next]_vars PROVE TypeInv'
  OBVIOUS
<1>1. CASE Tick
  BY <1>1, TickKeepsTypes
<1>2. CASE Exited
  BY <1>2, StutterKeepsTypes DEF Exited
<1>3. ASSUME NEW age \in 0..MaxPoseDelay, NEW failed \in SUBSET Motors,
             lcode_pose_callback(age, failed)
      PROVE  TypeInv'
  BY <1>3, LcodePoseKeepsTypes
<1>4. ASSUME NEW request \in Requests, SetParameters(request)
      PROVE  TypeInv'
  BY <1>4, SetParametersKeepsTypes
<1>5. ASSUME NEW failed \in SUBSET Motors, NEW t \in Twists,
             cmd_vel_callback(t, failed)
      PROVE  TypeInv'
  BY <1>5, CmdVelKeepsTypes
<1>6. ASSUME NEW failed \in SUBSET Motors, update_odometry(failed)
      PROVE  TypeInv'
  BY <1>6, OdometryKeepsTypes
<1>7. ASSUME NEW failed \in SUBSET Motors, check_timeout(failed)
      PROVE  TypeInv'
  BY <1>7, CheckTimeoutKeepsTypes
<1>8. ASSUME NEW failed \in SUBSET Motors, Shutdown(failed)
      PROVE  TypeInv'
  BY <1>8, ShutdownKeepsTypes
<1>9. ASSUME NEW failed \in SUBSET Motors, NEW v \in Velocities,
             NEW on \in SUBSET Motors, MotorTick(v, on, failed)
      PROVE  TypeInv'
  BY <1>9, MotorTickKeepsTypes
<1>10. CASE UNCHANGED vars
  BY <1>10, StutterKeepsTypes
<1>11. QED
  BY <1>1, <1>2, <1>3, <1>4, <1>5, <1>6, <1>7, <1>8, <1>9, <1>10 DEF Next

\* Whatever commands, poses, timer firings, failed writes and parameter
\* changes come, every variable of the driver keeps its type, and the
\* parameters in force are ones the callback accepts.
THEOREM TypesHold == Spec => []TypeInv
<1>1. QED
  BY InitTypes, NextKeepsTypes, PTL DEF Spec

\* In particular the type invariant the runs check.
THEOREM TypeCorrect == Spec => []TypeOK
<1>1. TypeInv => TypeOK
  BY DEF TypeInv
<1>2. QED
  BY <1>1, TypesHold, PTL

-----------------------------------------------------------------------------
(* A held robot is a stopped robot *)

\* The process leaves with a stop.
OffMeansStopped == ~alive => intended = Zero /\ effective = Zero

StopInv == HeldMeansStopped /\ OffMeansStopped

\* stop leaves nothing intended and nothing reported.
LEMMA StopStops ==
  ASSUME NEW failed, stop(failed)
  PROVE  intended' = Zero /\ effective' = Zero
BY DEF stop

\* Every step keeps the stop: the motor timer has only Zero to write, and a
\* command that starts the wheels has left the hold first.
LEMMA NextKeepsStop == TypeInv /\ StopInv /\ [Next]_vars => StopInv'
<1> SUFFICES ASSUME TypeInv, StopInv, [Next]_vars PROVE StopInv'
  OBVIOUS
<1> USE DEF StopInv, HeldMeansStopped, OffMeansStopped, Held
<1>1. CASE Tick
  BY <1>1 DEF Tick, ControllerTick, motorVars
<1>2. CASE Exited \/ UNCHANGED vars
  BY <1>2 DEF Exited, vars, controllerVars, motorVars
<1>3. ASSUME NEW age \in 0..MaxPoseDelay, NEW failed \in SUBSET Motors,
             lcode_pose_callback(age, failed)
      PROVE  StopInv'
  <2>1. CASE RunningCorrection(age) /\ UNCHANGED motorVars
    BY <1>3, <2>1 DEF lcode_pose_callback, RunningCorrection, motorVars
  <2>2. CASE PauseCorrection(age) /\ stop(failed)
    BY <1>3, <2>2, StopStops DEF lcode_pose_callback, PauseCorrection
  <2>3. CASE IgnoredPose(age) /\ UNCHANGED motorVars
    BY <1>3, <2>3 DEF lcode_pose_callback, IgnoredPose, motorVars
  <2>4. QED
    BY <1>3, <2>1, <2>2, <2>3 DEF lcode_pose_callback
<1>4. ASSUME NEW request \in Requests, SetParameters(request)
      PROVE  StopInv'
  BY <1>4 DEF SetParameters, motorVars
<1>5. ASSUME NEW failed \in SUBSET Motors, NEW t \in Twists,
             cmd_vel_callback(t, failed)
      PROVE  StopInv'
  <2>1. CASE CommandDiscarded(t, failed)
    BY <2>1, StopStops
    DEF CommandDiscarded, CommandArrives, DiscardCommand, ForwardsCommand
  <2>2. CASE CommandStartsSettle(t, failed)
    BY <2>2, StopStops DEF CommandStartsSettle
  <2>3. CASE CommandApplied(t)
    BY <2>3 DEF CommandApplied, CommandArrives, ForwardCommand
  <2>4. QED
    BY <1>5, <2>1, <2>2, <2>3 DEF cmd_vel_callback
<1>6. ASSUME NEW failed \in SUBSET Motors, update_odometry(failed)
      PROVE  StopInv'
  <2>1. CASE MotionReachesInterval(effective, odom_age)
    BY <1>6, <2>1, StopStops DEF update_odometry
  <2>2. CASE ~MotionReachesInterval(effective, odom_age)
    BY <1>6, <2>2
    DEF update_odometry, update_motion, controllerVars, motorVars
  <2>3. QED
    BY <2>1, <2>2
<1>7. ASSUME NEW failed \in SUBSET Motors, check_timeout(failed)
      PROVE  StopInv'
  <2>1. CASE CheckSettled
    BY <1>7, <2>1
    DEF check_timeout, CheckSettled, WaitingStarted, SettleElapsed, motorVars
  <2>2. CASE CheckAborts(failed)
    BY <1>7, <2>2, StopStops
    DEF check_timeout, CheckAborts, LocalizationAbort, WaitElapsed
  <2>3. CASE CheckRearms
    BY <1>7, <2>3
    DEF check_timeout, CheckRearms, FaultRearmed, Enter, motorVars
  <2>4. CASE CheckHeld \/ CheckQuiet
    BY <1>7, <2>4
    DEF check_timeout, CheckHeld, CheckQuiet, controllerVars, motorVars
  <2>5. CASE CheckStops(failed)
    BY <1>7, <2>5, StopStops DEF check_timeout, CheckStops, controllerVars
  <2>6. QED
    BY <1>7, <2>1, <2>2, <2>3, <2>4, <2>5 DEF check_timeout
<1>8. ASSUME NEW failed \in SUBSET Motors, Shutdown(failed)
      PROVE  StopInv'
  BY <1>8, StopStops DEF Shutdown, controllerVars
<1>9. ASSUME NEW failed \in SUBSET Motors, NEW v \in Velocities,
             NEW on \in SUBSET Motors, MotorTick(v, on, failed)
      PROVE  StopInv'
  <2>1. intended = Zero /\ effective = Zero => effective' = Zero
    BY <1>9, TwistAssumption DEF MotorTick, Report
  <2>2. QED
    BY <1>9, <2>1 DEF MotorTick, controllerVars
<1>10. QED
  BY <1>1, <1>2, <1>3, <1>4, <1>5, <1>6, <1>7, <1>8, <1>9 DEF Next

LEMMA InitStop == Init => StopInv
BY DEF Init, ControllerInit, StopInv, HeldMeansStopped, OffMeansStopped, Held

\* While the controller holds the robot, no command is intended and odometry
\* is told of no motion (cmd_vel_callback, update_odometry, check_timeout and
\* lcode_pose_callback in any order, with any write failing).
THEOREM HeldStopped == Spec => []HeldMeansStopped
<1>1. StopInv => HeldMeansStopped
  BY DEF StopInv
<1>2. Spec => []StopInv
  BY TypesHold, InitStop, NextKeepsStop, PTL DEF Spec
<1>3. QED
  BY <1>1, <1>2, PTL

-----------------------------------------------------------------------------
(* A fault is left only after a quiet period *)

\* The quiet period the controller measures began after the fault and after
\* the last command that was not zero.
QuietInv ==
  state = "FAULT_HOLD" /\ zero_command_age # Unset =>
    nonzero_age >= zero_command_age /\ state_age >= zero_command_age

LEMMA OlderMonotone ==
  ASSUME NEW m \in Ages, NEW n \in Ages, m >= n
  PROVE  Older(m) >= Older(n)
BY HorizonAssumption DEF Older, Ages

LEMMA TickKeepsQuiet == TypeInv /\ QuietInv /\ Tick => QuietInv'
<1> SUFFICES ASSUME TypeInv, QuietInv, Tick,
                    state' = "FAULT_HOLD", zero_command_age' # Unset
             PROVE  /\ nonzero_age' >= zero_command_age'
                    /\ state_age' >= zero_command_age'
  BY DEF QuietInv
<1>1. /\ state = "FAULT_HOLD"
      /\ zero_command_age # Unset
      /\ zero_command_age' = Older(zero_command_age)
  BY DEF Tick, ControllerTick, OlderIfSet
<1>2. /\ zero_command_age \in Ages /\ nonzero_age \in Ages
      /\ state_age \in Ages
  BY <1>1 DEF TypeInv, TypeOK, ControllerTypeOK
<1>3. QED
  BY <1>1, <1>2, OlderMonotone DEF QuietInv, Tick, ControllerTick

LEMMA NextKeepsQuiet == TypeInv /\ QuietInv /\ [Next]_vars => QuietInv'
<1> SUFFICES ASSUME TypeInv, QuietInv, [Next]_vars PROVE QuietInv'
  OBVIOUS
<1>1. CASE Tick
  BY <1>1, TickKeepsQuiet
<1>2. CASE Exited \/ UNCHANGED vars
  BY <1>2 DEF Exited, vars, controllerVars, historyVars, QuietInv
<1>3. ASSUME NEW age \in 0..MaxPoseDelay, NEW failed \in SUBSET Motors,
             lcode_pose_callback(age, failed)
      PROVE  QuietInv'
  <2>1. CASE RunningCorrection(age)
    BY <1>3, <2>1 DEF lcode_pose_callback, RunningCorrection, QuietInv
  <2>2. CASE PauseCorrection(age)
    BY <2>2 DEF PauseCorrection, Enter, QuietInv
  <2>3. CASE IgnoredPose(age)
    BY <1>3, <2>3 DEF lcode_pose_callback, IgnoredPose, QuietInv
  <2>4. QED
    BY <1>3, <2>1, <2>2, <2>3 DEF lcode_pose_callback
<1>4. ASSUME NEW request \in Requests, SetParameters(request)
      PROVE  QuietInv'
  BY <1>4 DEF SetParameters, QuietInv
<1>5. ASSUME NEW failed \in SUBSET Motors, NEW t \in Twists,
             cmd_vel_callback(t, failed)
      PROVE  QuietInv'
  <2>1. CASE CommandDiscarded(t, failed)
    <3>1. state' = state /\ state_age' = state_age
      BY <2>1 DEF CommandDiscarded, DiscardCommand
    <3>2. CASE state # "FAULT_HOLD"
      BY <3>1, <3>2 DEF QuietInv
    <3>3. CASE state = "FAULT_HOLD" /\ is_zero_cmd(t)
      <4>1. nonzero_age' = nonzero_age
        BY <2>1, <3>3 DEF CommandDiscarded, CommandArrives
      <4>2. zero_command_age' = IF zero_command_age = Unset
                                  THEN 0 ELSE zero_command_age
        BY <2>1, <3>3 DEF CommandDiscarded, DiscardCommand
      <4>3. nonzero_age >= 0 /\ state_age >= 0
        BY HorizonAssumption DEF TypeInv, TypeOK, ControllerTypeOK, Ages
      <4>4. QED
        BY <3>1, <4>1, <4>2, <4>3 DEF QuietInv
    <3>4. CASE state = "FAULT_HOLD" /\ ~is_zero_cmd(t)
      BY <2>1, <3>4 DEF CommandDiscarded, DiscardCommand, QuietInv
    <3>5. QED
      BY <3>2, <3>3, <3>4
  <2>2. CASE CommandStartsSettle(t, failed)
    BY <2>2 DEF CommandStartsSettle, Enter, QuietInv
  <2>3. CASE CommandApplied(t)
    BY <2>3 DEF CommandApplied, ForwardCommand, QuietInv
  <2>4. QED
    BY <1>5, <2>1, <2>2, <2>3 DEF cmd_vel_callback
<1>6. ASSUME NEW failed \in SUBSET Motors, update_odometry(failed)
      PROVE  QuietInv'
  BY <1>6
  DEF update_odometry, update_motion, start_pause, Enter, controllerVars,
      QuietInv
<1>7. ASSUME NEW failed \in SUBSET Motors, check_timeout(failed)
      PROVE  QuietInv'
  <2>1. CASE CheckSettled
    BY <2>1 DEF CheckSettled, WaitingStarted, Enter, QuietInv
  <2>2. CASE CheckAborts(failed)
    BY <2>2 DEF CheckAborts, LocalizationAbort, QuietInv
  <2>3. CASE CheckRearms
    BY <2>3 DEF CheckRearms, FaultRearmed, QuietInv
  <2>4. CASE CheckHeld \/ CheckQuiet \/ CheckStops(failed)
    BY <2>4 DEF CheckHeld, CheckQuiet, CheckStops, controllerVars, QuietInv
  <2>5. QED
    BY <1>7, <2>1, <2>2, <2>3, <2>4 DEF check_timeout
<1>8. ASSUME NEW failed \in SUBSET Motors, Shutdown(failed)
      PROVE  QuietInv'
  BY <1>8 DEF Shutdown, controllerVars, historyVars, QuietInv
<1>9. ASSUME NEW failed \in SUBSET Motors, NEW v \in Velocities,
             NEW on \in SUBSET Motors, MotorTick(v, on, failed)
      PROVE  QuietInv'
  BY <1>9 DEF MotorTick, controllerVars, QuietInv
<1>10. QED
  BY <1>1, <1>2, <1>3, <1>4, <1>5, <1>6, <1>7, <1>8, <1>9 DEF Next

LEMMA InitQuiet == Init => QuietInv
BY DEF Init, ControllerInit, QuietInv

\* Only the timer takes the robot from a fault to PASS_THROUGH.
LEMMA FaultLeftByTimer ==
  ASSUME TypeInv, StopInv, [Next]_vars,
         state = "FAULT_HOLD", state' = "PASS_THROUGH"
  PROVE  RearmElapsed /\ intended' = Zero
<1>1. intended = Zero
  BY DEF StopInv, HeldMeansStopped, Held
<1>2. ~(Tick \/ Exited \/ UNCHANGED vars)
  BY DEF Tick, ControllerTick, Exited, vars, controllerVars
<1>3. ASSUME NEW age, NEW failed PROVE ~lcode_pose_callback(age, failed)
  BY DEF lcode_pose_callback, RunningCorrection, PauseCorrection, IgnoredPose
<1>4. ASSUME NEW request PROVE ~SetParameters(request)
  BY DEF SetParameters
<1>5. ASSUME NEW t, NEW failed PROVE ~cmd_vel_callback(t, failed)
  BY DEF cmd_vel_callback, CommandDiscarded, DiscardCommand,
         CommandStartsSettle, Enter, CommandApplied, ForwardCommand,
         ForwardsCommand, HoldElapsed
<1>6. ASSUME NEW failed PROVE ~update_odometry(failed)
  BY DEF update_odometry, update_motion, MotionReachesInterval, CountsMotion,
         controllerVars
<1>7. ASSUME NEW failed PROVE ~Shutdown(failed)
  BY DEF Shutdown, controllerVars
<1>8. ASSUME NEW v, NEW on, NEW failed PROVE ~MotorTick(v, on, failed)
  BY DEF MotorTick, controllerVars
<1>9. PICK failed \in SUBSET Motors : check_timeout(failed)
  BY <1>2, <1>3, <1>4, <1>5, <1>6, <1>7, <1>8 DEF Next
<1>10. CheckRearms
  BY <1>9
  DEF check_timeout, CheckSettled, WaitingStarted, Enter, CheckAborts,
      LocalizationAbort, CheckHeld, CheckStops, CheckQuiet, controllerVars
<1>11. QED
  BY <1>1, <1>10 DEF CheckRearms, FaultRearmed, motorVars

\* A fault is rearmed only after rearm_zero with no command but zero ones,
\* and the wheels do not start with it (should_forward_command, on_timer).
THEOREM FaultNeedsQuiet == Spec => RearmOnlyAfterQuiet
<1>1. TypeInv /\ StopInv /\ QuietInv /\ [Next]_vars
        => (state = "FAULT_HOLD" /\ state' = "PASS_THROUGH" =>
              /\ nonzero_age >= config.rearm_zero
              /\ state_age >= config.rearm_zero
              /\ intended' = Zero)
  <2> SUFFICES ASSUME TypeInv, StopInv, QuietInv, [Next]_vars,
                      state = "FAULT_HOLD", state' = "PASS_THROUGH"
               PROVE  /\ nonzero_age >= config.rearm_zero
                      /\ state_age >= config.rearm_zero
                      /\ intended' = Zero
    OBVIOUS
  <2>1. RearmElapsed /\ intended' = Zero
    BY FaultLeftByTimer
  <2>2. nonzero_age >= zero_command_age /\ state_age >= zero_command_age
    BY <2>1 DEF RearmElapsed, QuietInv
  <2>3. /\ nonzero_age \in Int /\ state_age \in Int
        /\ zero_command_age \in Int /\ config.rearm_zero \in Int
    BY ConfigAssumption, HorizonAssumption
    DEF TypeInv, TypeOK, ControllerTypeOK, Ages, Unset, Config
  <2>4. QED
    BY <2>1, <2>2, <2>3 DEF RearmElapsed
<1>2. Spec => []QuietInv
  BY TypesHold, InitQuiet, NextKeepsQuiet, PTL DEF Spec
<1>3. Spec => []StopInv
  BY TypesHold, InitStop, NextKeepsStop, PTL DEF Spec
<1>4. QED
  BY <1>1, <1>2, <1>3, TypesHold, PTL DEF Spec, RearmOnlyAfterQuiet

-----------------------------------------------------------------------------
(* The driver implements DriveHold *)

Moving == intended # Zero \/ effective # Zero

\* What an action that leaves the controller's state alone maps to.
LEMMA SameStateMaps ==
  ASSUME TypeInv, StopInv, StopInv', alive' = alive, state' = state
  PROVE  Abstract!Next \/ UNCHANGED Abstract!holdVars
<1>1. Mode' = Mode
  BY DEF Mode
<1>2. CASE alive /\ state = "PASS_THROUGH"
  BY <1>1, <1>2 DEF Abstract!Next, Abstract!Drive, Mode
<1>3. CASE ~(alive /\ state = "PASS_THROUGH")
  <2>1. ~Moving /\ ~Moving'
    BY <1>3
    DEF Moving, StopInv, HeldMeansStopped, OffMeansStopped, Held
  <2>2. QED
    BY <1>1, <2>1 DEF Moving, Abstract!holdVars
<1>4. QED
  BY <1>2, <1>3

\* Each change of the controller's state is one DriveHold names.
LEMMA ChangeMaps ==
  ASSUME TypeInv, StopInv, StopInv', alive, alive',
         \/ state = "PASS_THROUGH" /\ state' = "SETTLING"
         \/ state = "SETTLING" /\ state' = "WAITING_LCODE"
         \/ state = "WAITING_LCODE" /\ state' = "POST_CORRECTION_HOLD"
         \/ state = "WAITING_LCODE" /\ state' = "FAULT_HOLD"
         \/ state = "POST_CORRECTION_HOLD" /\ state' = "PASS_THROUGH"
         \/ state = "FAULT_HOLD" /\ state' = "PASS_THROUGH" /\ ~Moving'
  PROVE  Abstract!Next \/ UNCHANGED Abstract!holdVars
<1> USE DEF Abstract!Next, Moving, Mode, StopInv, HeldMeansStopped, Held
<1>1. CASE state = "PASS_THROUGH" /\ state' = "SETTLING"
  BY <1>1 DEF Abstract!Hold
<1>2. CASE state = "SETTLING" /\ state' = "WAITING_LCODE"
  BY <1>2 DEF Abstract!holdVars
<1>3. CASE state = "WAITING_LCODE" /\ state' = "POST_CORRECTION_HOLD"
  BY <1>3 DEF Abstract!Correct
<1>4. CASE state = "WAITING_LCODE" /\ state' = "FAULT_HOLD"
  BY <1>4 DEF Abstract!GiveUp
<1>5. CASE state = "POST_CORRECTION_HOLD" /\ state' = "PASS_THROUGH"
  BY <1>5 DEF Abstract!Resume
<1>6. CASE state = "FAULT_HOLD" /\ state' = "PASS_THROUGH" /\ ~Moving'
  BY <1>6 DEF Abstract!Rearm
<1>7. QED
  BY <1>1, <1>2, <1>3, <1>4, <1>5, <1>6

LEMMA CmdVelMaps ==
  ASSUME TypeInv, StopInv, StopInv', NEW t \in Twists,
         NEW failed \in SUBSET Motors, cmd_vel_callback(t, failed)
  PROVE  Abstract!Next \/ UNCHANGED Abstract!holdVars
<1>1. CASE CommandDiscarded(t, failed)
  BY <1>1, SameStateMaps DEF CommandDiscarded, CommandArrives, DiscardCommand
<1>2. CASE CommandStartsSettle(t, failed)
  <2>1. state = "PASS_THROUGH"
    BY <1>2
    DEF CommandStartsSettle, SettlesFirst, StopInv, HeldMeansStopped, Held
  <2>2. QED
    BY <1>2, <2>1, ChangeMaps DEF CommandStartsSettle, CommandArrives, Enter
<1>3. CASE CommandApplied(t)
  <2>1. alive /\ alive' /\ state' = "PASS_THROUGH"
    BY <1>3 DEF CommandApplied, CommandArrives, ForwardCommand
  <2>2. state = "PASS_THROUGH" \/ state = "POST_CORRECTION_HOLD"
    BY <1>3 DEF CommandApplied, ForwardCommand, ForwardsCommand, HoldElapsed
  <2>3. QED
    BY <2>1, <2>2, SameStateMaps, ChangeMaps
<1>4. QED
  BY <1>1, <1>2, <1>3 DEF cmd_vel_callback

LEMMA CheckTimeoutMaps ==
  ASSUME TypeInv, StopInv, StopInv', NEW failed \in SUBSET Motors,
         check_timeout(failed)
  PROVE  Abstract!Next \/ UNCHANGED Abstract!holdVars
<1>1. alive /\ alive'
  BY DEF check_timeout, Due
<1>2. CASE CheckSettled
  BY <1>1, <1>2, ChangeMaps
  DEF CheckSettled, WaitingStarted, SettleElapsed, Enter
<1>3. CASE CheckAborts(failed)
  BY <1>1, <1>3, ChangeMaps
  DEF CheckAborts, LocalizationAbort, WaitElapsed, Enter
<1>4. CASE CheckRearms
  <2>1. state = "FAULT_HOLD" /\ state' = "PASS_THROUGH"
    BY <1>4 DEF CheckRearms, FaultRearmed, RearmElapsed, Enter
  <2>2. ~Moving'
    BY <1>4, <2>1
    DEF CheckRearms, motorVars, Moving, StopInv, HeldMeansStopped, Held
  <2>3. QED
    BY <1>1, <2>1, <2>2, ChangeMaps
<1>5. CASE CheckHeld \/ CheckStops(failed) \/ CheckQuiet
  BY <1>1, <1>5, SameStateMaps
  DEF CheckHeld, CheckStops, CheckQuiet, controllerVars
<1>6. QED
  BY <1>2, <1>3, <1>4, <1>5 DEF check_timeout

LEMMA NextMaps ==
  TypeInv /\ StopInv /\ StopInv' /\ [Next]_vars
    => Abstract!Next \/ UNCHANGED Abstract!holdVars
<1> SUFFICES ASSUME TypeInv, StopInv, StopInv', [Next]_vars
             PROVE  Abstract!Next \/ UNCHANGED Abstract!holdVars
  OBVIOUS
<1>1. CASE Tick
  BY <1>1, SameStateMaps DEF Tick, ControllerTick
<1>2. CASE Exited \/ UNCHANGED vars
  BY <1>2, SameStateMaps DEF Exited, vars, controllerVars
<1>3. ASSUME NEW age \in 0..MaxPoseDelay, NEW failed \in SUBSET Motors,
             lcode_pose_callback(age, failed)
      PROVE  Abstract!Next \/ UNCHANGED Abstract!holdVars
  <2>1. CASE PauseCorrection(age)
    BY <1>3, <2>1, ChangeMaps DEF lcode_pose_callback, PauseCorrection, Enter
  <2>2. CASE RunningCorrection(age) \/ IgnoredPose(age)
    BY <1>3, <2>2, SameStateMaps
    DEF lcode_pose_callback, RunningCorrection, IgnoredPose
  <2>3. QED
    BY <1>3, <2>1, <2>2 DEF lcode_pose_callback
<1>4. ASSUME NEW request \in Requests, SetParameters(request)
      PROVE  Abstract!Next \/ UNCHANGED Abstract!holdVars
  BY <1>4, SameStateMaps DEF SetParameters
<1>5. ASSUME NEW failed \in SUBSET Motors, NEW t \in Twists,
             cmd_vel_callback(t, failed)
      PROVE  Abstract!Next \/ UNCHANGED Abstract!holdVars
  BY <1>5, CmdVelMaps
<1>6. ASSUME NEW failed \in SUBSET Motors, update_odometry(failed)
      PROVE  Abstract!Next \/ UNCHANGED Abstract!holdVars
  <2>1. alive /\ alive'
    BY <1>6 DEF update_odometry, Due
  <2>2. \/ state' = state
        \/ state = "PASS_THROUGH" /\ state' = "SETTLING"
    BY <1>6
    DEF update_odometry, update_motion, start_pause, Enter, controllerVars
  <2>3. QED
    BY <2>1, <2>2, SameStateMaps, ChangeMaps
<1>7. ASSUME NEW failed \in SUBSET Motors, check_timeout(failed)
      PROVE  Abstract!Next \/ UNCHANGED Abstract!holdVars
  BY <1>7, CheckTimeoutMaps
<1>8. ASSUME NEW failed \in SUBSET Motors, Shutdown(failed)
      PROVE  Abstract!Next \/ UNCHANGED Abstract!holdVars
  <2>1. alive /\ ~alive' /\ ~Moving'
    BY <1>8, StopStops DEF Shutdown, Moving
  <2>2. Mode # "off" /\ Mode' = "off"
    BY <2>1 DEF Mode, TypeInv, TypeOK, ControllerTypeOK, States
  <2>3. QED
    BY <2>1, <2>2 DEF Moving, Abstract!Next, Abstract!SwitchOff
<1>9. ASSUME NEW failed \in SUBSET Motors, NEW v \in Velocities,
             NEW on \in SUBSET Motors, MotorTick(v, on, failed)
      PROVE  Abstract!Next \/ UNCHANGED Abstract!holdVars
  BY <1>9, SameStateMaps DEF MotorTick, controllerVars
<1>10. QED
  BY <1>1, <1>2, <1>3, <1>4, <1>5, <1>6, <1>7, <1>8, <1>9 DEF Next

\* Whatever the parameters, the wheels and the order of the callbacks, what
\* the driver does is what DriveHold allows.
THEOREM Refinement == Spec => ImplementsDriveHold
<1>1. Init => Abstract!Init
  BY DEF Init, ControllerInit, Abstract!Init, Mode
<1>2. TypeInv /\ StopInv /\ StopInv' /\ [Next]_vars
        => [Abstract!Next]_(Abstract!holdVars)
  BY NextMaps
<1>3. Spec => []StopInv
  BY TypesHold, InitStop, NextKeepsStop, PTL DEF Spec
<1>4. QED
  BY <1>1, <1>2, <1>3, TypesHold, PTL
  DEF Spec, ImplementsDriveHold, Abstract!Spec

-----------------------------------------------------------------------------
(* The timers *)

\* No timer is overdue by more than Slack, and an odometry step is no longer
\* than the time since its timer was last due.
TimerInv ==
  /\ \A t \in Timers : timer_age[t] <= Period[t] + Slack
  /\ odom_age <= timer_age["odom"]

\* Time passes by one unit at most: an age stops growing at Horizon.
LEMMA OlderBounds ==
  ASSUME NEW age \in Ages
  PROVE  Older(age) <= age + 1 /\ Older(age) >= age /\ Older(age) \in Ages
BY HorizonAssumption DEF Older, Ages

LEMMA TimerTypes ==
  ASSUME TypeInv, NEW t \in Timers
  PROVE  timer_age[t] \in Nat /\ Period[t] \in Nat /\ Period[t] > 0
BY TimerAssumption DEF TypeInv, TypeOK

\* A timer that has fired is as much less overdue as its period.
LEMMA FireLowers ==
  ASSUME TypeInv, NEW s \in Timers, NEW t \in Timers, Due(s), Fire(s)
  PROVE  /\ timer_age'[t] = IF t = s THEN timer_age[t] - Period[t]
                                     ELSE timer_age[t]
         /\ timer_age'[t] <= timer_age[t]
         /\ timer_age'[t] \in Nat
<1>1. timer_age \in [Timers -> Nat]
  BY DEF TypeInv, TypeOK
<1>2. timer_age'[t] = IF t = s THEN timer_age[t] - Period[t]
                               ELSE timer_age[t]
  BY <1>1 DEF Fire
<1>3. timer_age[s] >= Period[s]
  BY DEF Due
<1>4. QED
  BY <1>2, <1>3, TimerTypes

\* Who sets a timer, and who sets the time of the last odometry step.
LEMMA NextKeepsTimer == TypeInv /\ TimerInv /\ [Next]_vars => TimerInv'
<1> SUFFICES ASSUME TypeInv, TimerInv, [Next]_vars PROVE TimerInv'
  OBVIOUS
<1>1. "odom" \in Timers /\ "timeout" \in Timers /\ "motor" \in Timers
  BY DEF Timers
<1>2. \A t \in Timers : timer_age[t] <= Period[t] + Slack
  BY DEF TimerInv
<1>3. odom_age \in Ages /\ odom_age <= timer_age["odom"] /\ Slack \in Nat
  BY TimerAssumption DEF TypeInv, TypeOK, TimerInv
<1>4. CASE UNCHANGED clockVars
  BY <1>4 DEF clockVars, TimerInv
<1>5. CASE Tick
  <2>1. ASSUME NEW t \in Timers PROVE timer_age'[t] = timer_age[t] + 1
    BY <1>5 DEF Tick
  <2>2. ASSUME NEW t \in Timers PROVE timer_age'[t] <= Period[t] + Slack
    BY <1>3, <1>5, <2>1, TimerTypes DEF Tick
  <2>3. odom_age' <= timer_age'["odom"]
    BY <1>1, <1>3, <1>5, <2>1, OlderBounds, TimerTypes, HorizonAssumption
    DEF Tick, Ages
  <2>4. QED
    BY <2>2, <2>3 DEF TimerInv
<1>6. ASSUME NEW s \in Timers, Due(s), Fire(s),
             IF s = "odom" THEN odom_age' = 0 ELSE odom_age' = odom_age
      PROVE  TimerInv'
  <2>1. ASSUME NEW t \in Timers PROVE timer_age'[t] <= Period[t] + Slack
    BY <1>2, <1>3, <1>6, FireLowers, TimerTypes
  <2>2. odom_age' <= timer_age'["odom"]
    BY <1>1, <1>3, <1>6, FireLowers
  <2>3. QED
    BY <2>1, <2>2 DEF TimerInv
<1>7. ASSUME NEW failed \in SUBSET Motors, update_odometry(failed)
      PROVE  TimerInv'
  BY <1>1, <1>6, <1>7 DEF update_odometry
<1>8. ASSUME NEW failed \in SUBSET Motors, check_timeout(failed)
      PROVE  TimerInv'
  BY <1>1, <1>6, <1>8 DEF check_timeout
<1>9. ASSUME NEW failed \in SUBSET Motors, NEW v \in Velocities,
             NEW on \in SUBSET Motors, MotorTick(v, on, failed)
      PROVE  TimerInv'
  BY <1>1, <1>6, <1>9 DEF MotorTick
<1>10. ASSUME NEW failed \in SUBSET Motors, NEW t \in Twists,
              cmd_vel_callback(t, failed)
       PROVE  TimerInv'
  BY <1>4, <1>10
  DEF cmd_vel_callback, CommandDiscarded, CommandStartsSettle,
      CommandApplied, CommandArrives
<1>11. QED
  BY <1>4, <1>5, <1>7, <1>8, <1>9, <1>10
  DEF Next, Exited, vars, lcode_pose_callback, SetParameters, Shutdown

LEMMA InitTimer == Init => TimerInv
<1> SUFFICES ASSUME Init PROVE TimerInv
  OBVIOUS
<1>1. \A t \in Timers : timer_age[t] = 0 /\ Period[t] \in Nat
  BY TimerAssumption DEF Init
<1>2. QED
  BY <1>1, TimerAssumption DEF Init, TimerInv, Timers

\* No timer is late by more than Slack, whatever the callbacks do.
LEMMA TimersHold == Spec => []TimerInv
BY TypesHold, InitTimer, NextKeepsTimer, PTL DEF Spec

-----------------------------------------------------------------------------
(* The watchdog *)

\* A robot may move only while its last command is not late, and it was not
\* when check_timeout last looked.
Watched(limit) ==
  intended # Zero =>
    /\ ~timed_out
    /\ command_age <= limit + timer_age["timeout"]

WatchInv == config.cmd_timeout >= 0 /\ Watched(config.cmd_timeout)

LEMMA TimeoutTypes ==
  ASSUME TypeInv
  PROVE  /\ config.cmd_timeout \in Int /\ config.wait_timeout \in Int
         /\ command_age \in Ages /\ state_age \in Ages
         /\ timer_age["timeout"] \in Nat
         /\ \A age \in Ages : age \in Nat
BY ConfigAssumption, HorizonAssumption
DEF TypeInv, TypeOK, ControllerTypeOK, Config, Ages, Timers

\* A step that starts no motion and leaves the watchdog alone: time has not
\* passed, and check_timeout has not fired.
LEMMA SameWatch ==
  ASSUME NEW limit, Watched(limit), intended' = intended \/ intended' = Zero,
         timed_out' = timed_out, command_age' = command_age,
         timer_age'["timeout"] = timer_age["timeout"]
  PROVE  Watched(limit)'
BY DEF Watched

\* As long as cmd_timeout is at most limit, every step keeps the watch: only
\* a command starts the wheels, and the timer either stops them or has found
\* their command in time.
LEMMA NextKeepsWatched ==
  ASSUME NEW limit \in Nat, TypeInv, StopInv, config.cmd_timeout <= limit,
         Watched(limit), [Next]_vars
  PROVE  Watched(limit)'
<1>1. "odom" \in Timers /\ "timeout" \in Timers /\ "motor" \in Timers
  BY DEF Timers
<1>2. CASE Tick
  <2>1. timer_age'["timeout"] = timer_age["timeout"] + 1
    BY <1>1, <1>2 DEF Tick
  <2>2. command_age' <= command_age + 1 /\ command_age' \in Ages
    BY <1>2, TimeoutTypes, OlderBounds DEF Tick
  <2>3. QED
    BY <1>2, <2>1, <2>2, TimeoutTypes DEF Tick, motorVars, Watched
<1>3. CASE Exited \/ UNCHANGED vars
  BY <1>3, SameWatch
  DEF Exited, vars, motorVars, watchdogVars, clockVars
<1>4. ASSUME NEW age \in 0..MaxPoseDelay, NEW failed \in SUBSET Motors,
             lcode_pose_callback(age, failed)
      PROVE  Watched(limit)'
  BY <1>4, SameWatch, StopStops
  DEF lcode_pose_callback, motorVars, watchdogVars, clockVars
<1>5. ASSUME NEW request \in Requests, SetParameters(request)
      PROVE  Watched(limit)'
  BY <1>5, SameWatch DEF SetParameters, motorVars, watchdogVars, clockVars
<1>6. ASSUME NEW failed \in SUBSET Motors, NEW t \in Twists,
             cmd_vel_callback(t, failed)
      PROVE  Watched(limit)'
  <2>1. CommandArrives(t)
    BY <1>6
    DEF cmd_vel_callback, CommandDiscarded, CommandStartsSettle,
        CommandApplied
  <2>2. QED
    BY <2>1, TimeoutTypes DEF CommandArrives, clockVars, Watched
<1>7. ASSUME NEW failed \in SUBSET Motors, update_odometry(failed)
      PROVE  Watched(limit)'
  <2>1. timer_age'["timeout"] = timer_age["timeout"]
    BY <1>1, <1>7, FireLowers DEF update_odometry
  <2>2. intended' = intended \/ intended' = Zero
    BY <1>7, StopStops DEF update_odometry, motorVars
  <2>3. QED
    BY <1>7, <2>1, <2>2, SameWatch DEF update_odometry, watchdogVars
<1>8. ASSUME NEW failed \in SUBSET Motors, check_timeout(failed)
      PROVE  Watched(limit)'
  <2>1. CASE CheckAborts(failed) \/ CheckStops(failed)
    BY <2>1, StopStops DEF CheckAborts, CheckStops, Watched
  <2>2. CASE CheckSettled \/ CheckRearms \/ CheckHeld
    <3>1. state # "PASS_THROUGH" /\ intended' = intended
      BY <2>2
      DEF CheckSettled, WaitingStarted, SettleElapsed, CheckRearms,
          FaultRearmed, RearmElapsed, CheckHeld, motorVars
    <3>2. QED
      BY <3>1 DEF StopInv, HeldMeansStopped, Held, Watched
  <2>3. CASE CheckQuiet
    <3>1. timer_age'["timeout"] \in Nat
      BY <1>1, <1>8, FireLowers DEF check_timeout
    <3>2. /\ intended' = intended /\ timed_out' = timed_out
          /\ command_age' = command_age
          /\ timed_out \/ command_age <= config.cmd_timeout
      BY <2>3, TimeoutTypes DEF CheckQuiet, CommandLate, motorVars, watchdogVars
    <3>3. QED
      BY <3>1, <3>2, TimeoutTypes DEF Watched
  <2>4. QED
    BY <1>8, <2>1, <2>2, <2>3 DEF check_timeout
<1>9. ASSUME NEW failed \in SUBSET Motors, Shutdown(failed)
      PROVE  Watched(limit)'
  BY <1>9, StopStops DEF Shutdown, Watched
<1>10. ASSUME NEW failed \in SUBSET Motors, NEW v \in Velocities,
              NEW on \in SUBSET Motors, MotorTick(v, on, failed)
       PROVE  Watched(limit)'
  <2>1. timer_age'["timeout"] = timer_age["timeout"]
    BY <1>1, <1>10, FireLowers DEF MotorTick
  <2>2. QED
    BY <1>10, <2>1, SameWatch DEF MotorTick, watchdogVars
<1>11. QED
  BY <1>2, <1>3, <1>4, <1>5, <1>6, <1>7, <1>8, <1>9, <1>10 DEF Next

\* No change of the parameters shortens a timeout under way.
TimeoutsKept ==
  /\ config.cmd_timeout <= config'.cmd_timeout
  /\ config.wait_timeout <= config'.wait_timeout

LEMMA WatchGrows ==
  TypeInv /\ TypeInv' /\ StopInv /\ WatchInv /\ [Next]_vars /\ [TimeoutsKept]_vars
    => WatchInv'
<1> SUFFICES ASSUME TypeInv, TypeInv', StopInv, WatchInv, [Next]_vars,
                    [TimeoutsKept]_vars
             PROVE  WatchInv'
  OBVIOUS
<1>1. PICK limit \in Nat : limit = config.cmd_timeout
  BY TimeoutTypes DEF WatchInv
<1>2. Watched(limit)
  BY <1>1 DEF WatchInv, Watched
<1>3. Watched(limit)'
  BY <1>1, <1>2, NextKeepsWatched
<1>4. limit <= config'.cmd_timeout
  BY <1>1 DEF TimeoutsKept, vars, controllerVars
<1>5. /\ config'.cmd_timeout \in Int /\ command_age' \in Int
      /\ timer_age'["timeout"] \in Int
  BY ConfigAssumption, HorizonAssumption
  DEF TypeInv, TypeOK, ControllerTypeOK, Config, Ages, Timers
<1>6. QED
  BY <1>3, <1>4, <1>5 DEF WatchInv, Watched

LEMMA WatchIsFresh == TypeInv /\ TimerInv /\ WatchInv => NoStaleMotion
<1> SUFFICES ASSUME TypeInv, TimerInv, WatchInv, intended # Zero
             PROVE  command_age <= config.cmd_timeout + Period["timeout"] + Slack
  BY DEF NoStaleMotion
<1>1. timer_age["timeout"] <= Period["timeout"] + Slack
  BY DEF TimerInv, Timers
<1>2. Period["timeout"] \in Nat /\ Slack \in Nat
  BY TimerAssumption DEF Timers
<1>3. QED
  BY <1>1, <1>2, TimeoutTypes DEF WatchInv, Watched

\* A command is not acted on for longer than cmd_timeout and one firing of
\* the timer after it arrived, as long as cmd_timeout is not negative and no
\* parameter change shortens a timeout under way (cmd_vel_callback and
\* check_timeout, whatever pauses, faults and rearms come in between).
THEOREM CommandIsFresh ==
  Spec /\ config.cmd_timeout >= 0 /\ [][TimeoutsKept]_vars => []NoStaleMotion
<1>1. Init /\ config.cmd_timeout >= 0 => WatchInv
  BY DEF Init, WatchInv, Watched
<1>2. Spec => []StopInv
  BY TypesHold, InitStop, NextKeepsStop, PTL DEF Spec
<1>3. QED
  BY <1>1, <1>2, TypesHold, TimersHold, WatchGrows, WatchIsFresh, PTL DEF Spec

\* Whatever the parameters are changed to, no command is acted on for longer
\* than the longest cmd_timeout in use and one firing of the timer.
THEOREM CommandIsNeverStale ==
  ASSUME NEW limit \in Nat,
         \A c \in Configs \cup Requests : c.cmd_timeout <= limit
  PROVE  Spec => [](intended # Zero =>
                      command_age <= limit + Period["timeout"] + Slack)
<1>1. Init => Watched(limit)
  BY DEF Init, Watched
<1>2. TypeInv /\ StopInv /\ Watched(limit) /\ [Next]_vars => Watched(limit)'
  <2> SUFFICES ASSUME TypeInv, StopInv, Watched(limit), [Next]_vars
               PROVE  Watched(limit)'
    OBVIOUS
  <2>1. config.cmd_timeout <= limit
    BY DEF TypeInv, TypeOK, ControllerTypeOK
  <2>2. QED
    BY <2>1, NextKeepsWatched
<1>3. TypeInv /\ TimerInv /\ Watched(limit)
        => (intended # Zero =>
              command_age <= limit + Period["timeout"] + Slack)
  <2> SUFFICES ASSUME TypeInv, TimerInv, Watched(limit), intended # Zero
               PROVE  command_age <= limit + Period["timeout"] + Slack
    OBVIOUS
  <2>1. timer_age["timeout"] <= Period["timeout"] + Slack
    BY DEF TimerInv, Timers
  <2>2. Period["timeout"] \in Nat /\ Slack \in Nat
    BY TimerAssumption DEF Timers
  <2>3. QED
    BY <2>1, <2>2, TimeoutTypes DEF Watched
<1>4. Spec => []StopInv
  BY TypesHold, InitStop, NextKeepsStop, PTL DEF Spec
<1>5. QED
  BY <1>1, <1>2, <1>3, <1>4, TypesHold, TimersHold, PTL DEF Spec

-----------------------------------------------------------------------------
(* Pauses end in time *)

\* When check_timeout last fired, the phase was not yet over, and the wait
\* is as old as its phase.
Phased(limit) ==
  /\ state = "SETTLING" => state_age <= active_settle + timer_age["timeout"]
  /\ state = "WAITING_LCODE" =>
       /\ waiting_age = state_age
       /\ state_age <= limit + timer_age["timeout"]

PauseInv == Phased(config.wait_timeout)

\* A step in which neither time nor the phase moves on.
LEMMA SamePhase ==
  ASSUME NEW limit, Phased(limit), state' = state, state_age' = state_age,
         active_settle' = active_settle, waiting_age' = waiting_age,
         timer_age'["timeout"] = timer_age["timeout"]
  PROVE  Phased(limit)'
BY DEF Phased

LEMMA PhaseTypes ==
  ASSUME TypeInv
  PROVE  /\ state_age \in Nat /\ active_settle \in Nat
         /\ timer_age["timeout"] \in Nat
         /\ config.settle \in Nat /\ config.settle_after_rotation \in Int
         /\ config.wait_timeout \in Nat
BY ConfigAssumption, HorizonAssumption
DEF TypeInv, TypeOK, ControllerTypeOK, ValidRequest, Config, Ages, Timers

\* As long as wait_timeout is at most limit, every step keeps the phase in
\* time: only a step that begins a phase sets its age, and the timer either
\* ends the phase or has found it not yet over.
LEMMA NextKeepsPhased ==
  ASSUME NEW limit \in Nat, TypeInv, config.wait_timeout <= limit,
         Phased(limit), [Next]_vars
  PROVE  Phased(limit)'
<1>1. "odom" \in Timers /\ "timeout" \in Timers /\ "motor" \in Timers
  BY DEF Timers
<1>2. CASE Tick
  <2>1. timer_age'["timeout"] = timer_age["timeout"] + 1
    BY <1>1, <1>2 DEF Tick
  <2>2. /\ state_age' = Older(state_age) /\ state_age' <= state_age + 1
        /\ state_age' \in Nat
    BY <1>2, TimeoutTypes, OlderBounds DEF Tick, ControllerTick
  <2>3. waiting_age = state_age => waiting_age' = state_age'
    BY <1>2, <2>2, TimeoutTypes
    DEF Tick, ControllerTick, OlderIfSet, Unset
  <2>4. state' = state /\ active_settle' = active_settle
    BY <1>2 DEF Tick, ControllerTick
  <2>5. QED
    BY <2>1, <2>2, <2>3, <2>4, PhaseTypes DEF Phased
<1>3. CASE Exited \/ UNCHANGED vars
  BY <1>3, SamePhase DEF Exited, vars, controllerVars, clockVars
<1>4. ASSUME NEW age \in 0..MaxPoseDelay, NEW failed \in SUBSET Motors,
             lcode_pose_callback(age, failed)
      PROVE  Phased(limit)'
  <2>1. CASE PauseCorrection(age)
    BY <2>1 DEF PauseCorrection, Enter, Phased
  <2>2. CASE RunningCorrection(age) \/ IgnoredPose(age)
    BY <1>4, <2>2, SamePhase
    DEF lcode_pose_callback, RunningCorrection, IgnoredPose, clockVars
  <2>3. QED
    BY <1>4, <2>1, <2>2 DEF lcode_pose_callback
<1>5. ASSUME NEW request \in Requests, SetParameters(request)
      PROVE  Phased(limit)'
  BY <1>5, SamePhase DEF SetParameters, clockVars
<1>6. ASSUME NEW failed \in SUBSET Motors, NEW t \in Twists,
             cmd_vel_callback(t, failed)
      PROVE  Phased(limit)'
  <2>1. CASE CommandDiscarded(t, failed)
    BY <2>1, SamePhase
    DEF CommandDiscarded, CommandArrives, DiscardCommand, clockVars
  <2>2. CASE CommandStartsSettle(t, failed)
    BY <2>2, PhaseTypes
    DEF CommandStartsSettle, CommandArrives, SettlesFirst, Enter, clockVars,
        Phased
  <2>3. CASE CommandApplied(t)
    BY <2>3 DEF CommandApplied, ForwardCommand, Phased
  <2>4. QED
    BY <1>6, <2>1, <2>2, <2>3 DEF cmd_vel_callback
<1>7. ASSUME NEW failed \in SUBSET Motors, update_odometry(failed)
      PROVE  Phased(limit)'
  <2>1. timer_age'["timeout"] = timer_age["timeout"]
    BY <1>1, <1>7, FireLowers DEF update_odometry
  <2>2. CASE start_pause(config.settle)
    BY <2>1, <2>2, PhaseTypes DEF start_pause, Enter, Phased
  <2>3. CASE UNCHANGED <<state, state_age, active_settle, waiting_age>>
    BY <2>1, <2>3, SamePhase
  <2>4. QED
    BY <1>7, <2>2, <2>3 DEF update_odometry, update_motion, controllerVars
<1>8. ASSUME NEW failed \in SUBSET Motors, check_timeout(failed)
      PROVE  Phased(limit)'
  <2>1. timer_age'["timeout"] \in Nat
    BY <1>1, <1>8, FireLowers DEF check_timeout
  <2>2. CASE CheckSettled
    BY <2>1, <2>2 DEF CheckSettled, WaitingStarted, Enter, Phased
  <2>3. CASE CheckAborts(failed)
    BY <2>3 DEF CheckAborts, LocalizationAbort, Enter, Phased
  <2>4. CASE CheckRearms
    BY <2>4 DEF CheckRearms, FaultRearmed, Enter, Phased
  <2>5. CASE CheckHeld
    <3>1. /\ state = "SETTLING" => state_age < active_settle
          /\ state = "WAITING_LCODE" => state_age < config.wait_timeout
      BY <2>5, PhaseTypes DEF CheckHeld, NoTimerEvent, SettleElapsed, WaitElapsed
    <3>2. QED
      BY <2>1, <2>5, <3>1, PhaseTypes DEF CheckHeld, controllerVars, Phased
  <2>6. CASE CheckStops(failed) \/ CheckQuiet
    BY <2>6 DEF CheckStops, CheckQuiet, controllerVars, Phased
  <2>7. QED
    BY <1>8, <2>2, <2>3, <2>4, <2>5, <2>6 DEF check_timeout
<1>9. ASSUME NEW failed \in SUBSET Motors, Shutdown(failed)
      PROVE  Phased(limit)'
  BY <1>9, SamePhase DEF Shutdown, controllerVars, clockVars
<1>10. ASSUME NEW failed \in SUBSET Motors, NEW v \in Velocities,
              NEW on \in SUBSET Motors, MotorTick(v, on, failed)
       PROVE  Phased(limit)'
  <2>1. timer_age'["timeout"] = timer_age["timeout"]
    BY <1>1, <1>10, FireLowers DEF MotorTick
  <2>2. QED
    BY <1>10, <2>1, SamePhase DEF MotorTick, controllerVars
<1>11. QED
  BY <1>2, <1>3, <1>4, <1>5, <1>6, <1>7, <1>8, <1>9, <1>10 DEF Next

LEMMA PauseGrows ==
  TypeInv /\ TypeInv' /\ PauseInv /\ [Next]_vars /\ [TimeoutsKept]_vars
    => PauseInv'
<1> SUFFICES ASSUME TypeInv, TypeInv', PauseInv, [Next]_vars,
                    [TimeoutsKept]_vars
             PROVE  PauseInv'
  OBVIOUS
<1>1. PICK limit \in Nat : limit = config.wait_timeout
  BY PhaseTypes
<1>2. Phased(limit)
  BY <1>1 DEF PauseInv, Phased
<1>3. Phased(limit)'
  BY <1>1, <1>2, NextKeepsPhased
<1>4. limit <= config'.wait_timeout
  BY <1>1 DEF TimeoutsKept, vars, controllerVars
<1>5. /\ config'.wait_timeout \in Int /\ state_age' \in Int
      /\ timer_age'["timeout"] \in Int
  BY ConfigAssumption, HorizonAssumption
  DEF TypeInv, TypeOK, ControllerTypeOK, Config, Ages, Timers
<1>6. QED
  BY <1>3, <1>4, <1>5 DEF PauseInv, Phased

LEMMA PhaseInTime == TypeInv /\ TimerInv /\ PauseInv => PauseBounded
<1> SUFFICES ASSUME TypeInv, TimerInv, PauseInv PROVE PauseBounded
  OBVIOUS
<1>1. timer_age["timeout"] <= Period["timeout"] + Slack
  BY DEF TimerInv, Timers
<1>2. Period["timeout"] \in Nat /\ Slack \in Nat
  BY TimerAssumption DEF Timers
<1>3. QED
  BY <1>1, <1>2, PhaseTypes DEF PauseInv, Phased, PauseBounded

LEMMA InitPause == Init => PauseInv
BY DEF Init, ControllerInit, PauseInv, Phased

\* No phase of a pause outlives its duration by more than one firing of the
\* timer, as long as no parameter change shortens a timeout under way:
\* neither poses nor commands that come meanwhile prolong it (start_pause,
\* on_timer, on_pose and should_forward_command).
THEOREM PauseEndsInTime == Spec /\ [][TimeoutsKept]_vars => []PauseBounded
BY InitPause, TypesHold, TimersHold, PauseGrows, PhaseInTime, PTL DEF Spec

-----------------------------------------------------------------------------
(* How far the robot drives between two corrections *)

Step == Period["odom"] + Slack

\* MaxSpeed is the speed no wheel exceeds.
LEMMA MaxSpeedFacts ==
  ASSUME NEW axis \in {"lin", "ang"}
  PROVE  /\ MaxSpeed(axis) \in Nat
         /\ \A v \in Velocities : v[axis] <= MaxSpeed(axis)
<1> DEFINE Speeds == {v[axis] : v \in Velocities}
           Fastest(n) == \A v \in Velocities : v[axis] <= n
<1>1. Speeds \subseteq Nat
  BY VelocityFacts DEF Velocity
<1>2. \E n \in Speeds : Fastest(n)
  BY SpeedAssumption
<1>3. MaxSpeed(axis) = CHOOSE n \in Speeds : Fastest(n)
  BY DEF MaxSpeed
<1> HIDE DEF Speeds, Fastest
<1>4. MaxSpeed(axis) \in Speeds /\ Fastest(MaxSpeed(axis))
  BY <1>2, <1>3
<1>5. QED
  BY <1>1, <1>4 DEF Fastest

LEMMA ProductMonotone ==
  ASSUME NEW v \in Nat, NEW m \in Nat, NEW dt \in Nat, NEW s \in Nat,
         v <= m, dt <= s
  PROVE  v * dt <= m * s /\ v * dt \in Nat
<1>1. v * dt <= m * dt
  OBVIOUS
<1>2. m * dt <= m * s
  OBVIOUS
<1>3. v * dt \in Nat /\ m * dt \in Nat /\ m * s \in Nat
  OBVIOUS
<1>4. QED
  BY <1>1, <1>2, <1>3

\* The motion of one odometry step, by what the wheels claim.
Gain(axis) == effective[axis] * odom_age

\* An odometry step adds no more than the fastest wheels drive until the
\* timer fires as late as it may.
LEMMA GainBounded ==
  ASSUME TypeInv, TimerInv, NEW axis \in {"lin", "ang"}
  PROVE  Gain(axis) \in Nat /\ Gain(axis) <= MaxSpeed(axis) * Step
<1>1. effective \in Velocities /\ effective[axis] \in Nat
  BY VelocityFacts DEF TypeInv, TypeOK, Velocity
<1>2. effective[axis] <= MaxSpeed(axis) /\ MaxSpeed(axis) \in Nat
  BY <1>1, MaxSpeedFacts
<1>3. odom_age \in Nat /\ Step \in Nat /\ odom_age <= Step
  BY TimerAssumption, HorizonAssumption
  DEF TypeInv, TypeOK, TimerInv, Timers, Ages, Step
<1>4. QED
  BY <1>1, <1>2, <1>3, ProductMonotone DEF Gain

\* While the budget is kept, the drift is what the controller has counted,
\* below the intervals as long as the robot may move.
Budgeted ==
  /\ config.enabled /\ state # "FAULT_HOLD"
  /\ drift.lin = accumulated_distance /\ drift.ang = accumulated_angle
  /\ state \in {"PASS_THROUGH", "POST_CORRECTION_HOLD"} =>
       /\ accumulated_distance < config.distance_interval
       /\ accumulated_angle < config.angle_interval

DriftInv == DriftBounded /\ (budget_valid => Budgeted)

LEMMA MotionTypes ==
  ASSUME TypeInv
  PROVE  /\ accumulated_distance \in Nat /\ accumulated_angle \in Nat
         /\ config.distance_interval \in Nat \ {0}
         /\ config.angle_interval \in Nat \ {0}
         /\ config.enabled \in BOOLEAN
         /\ budget_valid \in BOOLEAN
BY ConfigAssumption
DEF TypeInv, TypeOK, ControllerTypeOK, ValidRequest, Config

\* A step that leaves what was counted alone, and takes the robot out of a
\* hold only from one after a correction.
LEMMA SameBudget ==
  ASSUME DriftInv, UNCHANGED <<config, accumulators, budget_valid, drift>>,
         budget_valid => state' # "FAULT_HOLD",
         budget_valid /\ state' \in {"PASS_THROUGH", "POST_CORRECTION_HOLD"}
           => state \in {"PASS_THROUGH", "POST_CORRECTION_HOLD"}
  PROVE  DriftInv'
BY DEF DriftInv, DriftBounded, Budgeted, accumulators

\* A correction, and a launch, start a new budget.
LEMMA NewBudget ==
  ASSUME TypeInv, drift' = Zero, config' = config, reset_accumulators,
         budget_valid' = config.enabled, state' # "FAULT_HOLD"
  PROVE  DriftInv'
<1>1. drift'.lin = 0 /\ drift'.ang = 0
  BY DEF Zero
<1>2. /\ 0 < config.distance_interval + MaxSpeed("lin") * Step
      /\ 0 < config.angle_interval + MaxSpeed("ang") * Step
  <2>1. Step \in Nat
    BY TimerAssumption DEF Step, Timers
  <2>2. MaxSpeed("lin") * Step \in Nat /\ MaxSpeed("ang") * Step \in Nat
    BY <2>1, MaxSpeedFacts
  <2>3. QED
    BY <2>2, MotionTypes
<1>3. DriftBounded'
  BY <1>1, <1>2 DEF DriftBounded, Step
<1>4. budget_valid' => Budgeted'
  BY <1>1, MotionTypes DEF Budgeted, reset_accumulators
<1>5. QED
  BY <1>3, <1>4 DEF DriftInv

\* Odometry counts what it integrates, and stops the robot in the step in
\* which an interval is reached.
LEMMA OdometryKeepsDrift ==
  ASSUME TypeInv, StopInv, TimerInv, DriftInv, NEW failed \in SUBSET Motors,
         update_odometry(failed)
  PROVE  DriftInv'
<1>1. CASE ~budget_valid
  BY <1>1 DEF update_odometry, DriftInv, DriftBounded
<1>2. CASE budget_valid
  <2>1. Budgeted /\ budget_valid' = budget_valid
    BY <1>2 DEF DriftInv, update_odometry
  <2>2. /\ drift'.lin = accumulated_distance + Gain("lin")
        /\ drift'.ang = accumulated_angle + Gain("ang")
    BY <1>2, <2>1 DEF update_odometry, Moved, Budgeted, Gain
  <2>3. /\ Gain("lin") \in Nat /\ Gain("lin") <= MaxSpeed("lin") * Step
        /\ Gain("ang") \in Nat /\ Gain("ang") <= MaxSpeed("ang") * Step
    BY GainBounded
  <2>4. /\ MaxSpeed("lin") * Step \in Nat /\ MaxSpeed("ang") * Step \in Nat
    BY MaxSpeedFacts, TimerAssumption DEF Step, Timers
  <2>5. config' = config
    BY DEF update_odometry, update_motion, controllerVars
  <2>6. CASE CountsMotion(odom_age)
    <3>1. /\ accumulated_distance' = accumulated_distance + Gain("lin")
          /\ accumulated_angle' = accumulated_angle + Gain("ang")
      BY <2>6
      DEF update_odometry, update_motion, MotionReachesInterval,
          AccumulateMotion, Gain
    <3>2. /\ accumulated_distance < config.distance_interval
          /\ accumulated_angle < config.angle_interval
      BY <2>1, <2>6 DEF CountsMotion, Budgeted
    <3>3. DriftBounded'
      BY <2>2, <2>3, <2>4, <2>5, <3>2, MotionTypes DEF DriftBounded, Step
    <3>4. CASE MotionReachesInterval(effective, odom_age)
      <4>1. state' = "SETTLING"
        BY <2>6, <3>4 DEF update_odometry, update_motion, start_pause, Enter
      <4>2. QED
        BY <2>1, <2>2, <2>5, <3>1, <3>3, <4>1 DEF DriftInv, Budgeted
    <3>5. CASE ~MotionReachesInterval(effective, odom_age)
      <4>1. state' = state
        BY <2>6, <3>5 DEF update_odometry, update_motion
      <4>2. /\ accumulated_distance + Gain("lin") < config.distance_interval
            /\ accumulated_angle + Gain("ang") < config.angle_interval
        BY <2>3, <2>6, <3>5, MotionTypes DEF MotionReachesInterval, Gain
      <4>3. QED
        BY <2>1, <2>2, <2>5, <3>1, <3>3, <4>1, <4>2 DEF DriftInv, Budgeted
    <3>6. QED
      BY <3>4, <3>5
  <2>7. CASE ~CountsMotion(odom_age)
    <3>1. UNCHANGED controllerVars
      BY <2>7 DEF update_odometry, update_motion, MotionReachesInterval
    <3>2. Gain("lin") = 0 /\ Gain("ang") = 0
      <4>1. odom_age \in Nat /\ effective.lin \in Nat /\ effective.ang \in Nat
        BY VelocityFacts, HorizonAssumption
        DEF TypeInv, TypeOK, Velocity, Ages
      <4>2. CASE state = "PASS_THROUGH"
        <5>1. odom_age = 0
          BY <2>1, <2>7, <4>1, <4>2 DEF CountsMotion, Budgeted
        <5>2. QED
          BY <4>1, <5>1 DEF Gain
      <4>3. CASE state # "PASS_THROUGH"
        <5>1. effective.lin = 0 /\ effective.ang = 0
          BY <4>3 DEF StopInv, HeldMeansStopped, Held, Zero
        <5>2. QED
          BY <4>1, <5>1 DEF Gain
      <4>4. QED
        BY <4>2, <4>3
    <3>3. drift'.lin = drift.lin /\ drift'.ang = drift.ang
      BY <2>1, <2>2, <3>2, MotionTypes DEF Budgeted
    <3>4. QED
      BY <2>1, <3>1, <3>3
      DEF DriftInv, DriftBounded, Budgeted, controllerVars
  <2>8. QED
    BY <2>6, <2>7
<1>3. QED
  BY <1>1, <1>2

LEMMA NextKeepsDrift ==
  TypeInv /\ StopInv /\ TimerInv /\ DriftInv /\ [Next]_vars => DriftInv'
<1> SUFFICES ASSUME TypeInv, StopInv, TimerInv, DriftInv, [Next]_vars
             PROVE  DriftInv'
  OBVIOUS
<1> USE DEF accumulators
<1>1. budget_valid => state # "FAULT_HOLD"
  BY DEF DriftInv, Budgeted
<1>2. CASE Tick
  BY <1>1, <1>2, SameBudget DEF Tick, ControllerTick
<1>3. CASE Exited \/ UNCHANGED vars
  BY <1>1, <1>3, SameBudget DEF Exited, vars, controllerVars, historyVars
<1>4. ASSUME NEW age \in 0..MaxPoseDelay, NEW failed \in SUBSET Motors,
             lcode_pose_callback(age, failed)
      PROVE  DriftInv'
  <2>1. CASE AcceptsPose(age)
    BY <1>4, <2>1, NewBudget
    DEF lcode_pose_callback, RunningCorrection, PauseCorrection, IgnoredPose,
        Enter
  <2>2. CASE ~AcceptsPose(age)
    <3>1. IgnoredPose(age)
      BY <1>4, <2>2
      DEF lcode_pose_callback, RunningCorrection, PauseCorrection, AcceptsPose
    <3>2. QED
      BY <1>1, <1>4, <2>2, <3>1, SameBudget
      DEF lcode_pose_callback, IgnoredPose
  <2>3. QED
    BY <2>1, <2>2
<1>5. ASSUME NEW request \in Requests, SetParameters(request)
      PROVE  DriftInv'
  BY <1>5 DEF SetParameters, DriftInv, DriftBounded
<1>6. ASSUME NEW failed \in SUBSET Motors, NEW t \in Twists,
             cmd_vel_callback(t, failed)
      PROVE  DriftInv'
  <2>1. CASE CommandDiscarded(t, failed)
    BY <1>1, <2>1, SameBudget
    DEF CommandDiscarded, CommandArrives, DiscardCommand
  <2>2. CASE CommandStartsSettle(t, failed)
    BY <1>1, <2>2, SameBudget
    DEF CommandStartsSettle, CommandArrives, Enter
  <2>3. CASE CommandApplied(t)
    BY <1>1, <2>3, SameBudget
    DEF CommandApplied, CommandArrives, ForwardCommand, ForwardsCommand,
        HoldElapsed
  <2>4. QED
    BY <1>6, <2>1, <2>2, <2>3 DEF cmd_vel_callback
<1>7. ASSUME NEW failed \in SUBSET Motors, update_odometry(failed)
      PROVE  DriftInv'
  BY <1>7, OdometryKeepsDrift
<1>8. ASSUME NEW failed \in SUBSET Motors, check_timeout(failed)
      PROVE  DriftInv'
  <2>1. CASE CheckSettled
    BY <2>1, SameBudget DEF CheckSettled, WaitingStarted, Enter
  <2>2. CASE CheckAborts(failed)
    BY <2>2 DEF CheckAborts, DriftInv, DriftBounded
  <2>3. CASE CheckRearms
    BY <1>1, <2>3
    DEF CheckRearms, FaultRearmed, RearmElapsed, DriftInv, DriftBounded
  <2>4. CASE CheckHeld \/ CheckStops(failed) \/ CheckQuiet
    BY <1>1, <2>4, SameBudget
    DEF CheckHeld, CheckStops, CheckQuiet, controllerVars
  <2>5. QED
    BY <1>8, <2>1, <2>2, <2>3, <2>4 DEF check_timeout
<1>9. ASSUME NEW failed \in SUBSET Motors, Shutdown(failed)
      PROVE  DriftInv'
  BY <1>1, <1>9, SameBudget DEF Shutdown, controllerVars, historyVars
<1>10. ASSUME NEW failed \in SUBSET Motors, NEW v \in Velocities,
              NEW on \in SUBSET Motors, MotorTick(v, on, failed)
       PROVE  DriftInv'
  BY <1>1, <1>10, SameBudget DEF MotorTick, controllerVars
<1>11. QED
  BY <1>2, <1>3, <1>4, <1>5, <1>6, <1>7, <1>8, <1>9, <1>10 DEF Next

LEMMA InitDrift == Init => DriftInv
<1> SUFFICES ASSUME Init PROVE DriftInv
  OBVIOUS
<1>1. TypeInv
  BY InitTypes
<1>2. drift.lin = 0 /\ drift.ang = 0
  BY DEF Init, Zero
<1>3. MaxSpeed("lin") * Step \in Nat /\ MaxSpeed("ang") * Step \in Nat
  BY MaxSpeedFacts, TimerAssumption DEF Step, Timers
<1>4. DriftBounded
  BY <1>1, <1>2, <1>3, MotionTypes DEF DriftBounded, Step
<1>5. budget_valid => Budgeted
  BY <1>1, <1>2, MotionTypes DEF Init, ControllerInit, Budgeted
<1>6. QED
  BY <1>4, <1>5 DEF DriftInv

\* Between two corrections the robot drives and turns less, by its odometry,
\* than the interval and what the fastest wheels add in one odometry step
\* that comes as late as it may (update_odometry and update_motion, whatever
\* pulses, commands, poses and failed writes come).
THEOREM DriftIsBounded == Spec => []DriftBounded
<1>1. DriftInv => DriftBounded
  BY DEF DriftInv
<1>2. Spec => []StopInv
  BY TypesHold, InitStop, NextKeepsStop, PTL DEF Spec
<1>3. QED
  BY <1>1, <1>2, TypesHold, TimersHold, InitDrift, NextKeepsDrift, PTL
  DEF Spec

-----------------------------------------------------------------------------
(* A correction is taken from a robot at rest *)

\* The robot has stood still since the pause began, and through all of its
\* settle time when the wait for a pose began.
RestInv ==
  /\ active_settle + MaxPoseDelay <= Horizon
  /\ state = "SETTLING" => rest_age >= state_age
  /\ state = "WAITING_LCODE" =>
       /\ waiting_age \in Ages
       /\ rest_age = Horizon \/ rest_age >= waiting_age + active_settle

LEMMA RestTypes ==
  ASSUME TypeInv
  PROVE  /\ rest_age \in Ages /\ state_age \in Ages
         /\ active_settle \in Nat /\ Horizon \in Nat /\ MaxPoseDelay \in Nat
         /\ \A age \in Ages : age \in Nat /\ age <= Horizon
         /\ config.settle \in Nat /\ config.settle_after_rotation \in Int
         /\ config.settle + MaxPoseDelay <= Horizon
         /\ config.settle_after_rotation + MaxPoseDelay <= Horizon
<1>1. config \in Configs \cup Requests
  BY DEF TypeInv, TypeOK, ControllerTypeOK
<1>2. QED
  BY <1>1, PhaseTypes, SettleAssumption, TimerAssumption, HorizonAssumption
  DEF TypeInv, TypeOK, ControllerTypeOK, Ages

\* A step in which neither time nor the phase moves on, nor the robot.
LEMMA SameRest ==
  ASSUME RestInv,
         UNCHANGED <<state, state_age, active_settle, waiting_age, rest_age>>
  PROVE  RestInv'
BY DEF RestInv

\* A pause begins: its settle time ends before any pose taken in it is so
\* old that its age no longer tells.
LEMMA RestBegins ==
  ASSUME TypeInv, rest_age' = rest_age, Enter("SETTLING"),
         \/ active_settle' = config.settle
         \/ active_settle' = config.settle_after_rotation
  PROVE  RestInv'
BY RestTypes DEF Enter, RestInv

\* A step to a state in which nothing is waited for.
LEMMA NoRestNeeded ==
  ASSUME RestInv, active_settle' = active_settle,
         state' \notin {"SETTLING", "WAITING_LCODE"}
  PROVE  RestInv'
BY DEF RestInv

LEMMA TickKeepsRest == TypeInv /\ StopInv /\ RestInv /\ Tick => RestInv'
<1> SUFFICES ASSUME TypeInv, StopInv, RestInv, Tick PROVE RestInv'
  OBVIOUS
<1>1. state' = state /\ active_settle' = active_settle
  BY DEF Tick, ControllerTick
<1>2. CASE state = "SETTLING"
  <2>1. rest_age' = Older(rest_age) /\ state_age' = Older(state_age)
    BY <1>2
    DEF Tick, ControllerTick, StopInv, HeldMeansStopped, Held
  <2>2. rest_age' >= state_age'
    BY <1>2, <2>1, RestTypes, OlderMonotone DEF RestInv
  <2>3. QED
    BY <1>1, <1>2, <2>2 DEF RestInv
<1>3. CASE state = "WAITING_LCODE"
  <2>1. rest_age' = Older(rest_age)
    BY <1>3 DEF Tick, StopInv, HeldMeansStopped, Held
  <2>2. waiting_age \in Ages /\ waiting_age' = Older(waiting_age)
    BY <1>3, HorizonAssumption
    DEF RestInv, Tick, ControllerTick, OlderIfSet, Unset, Ages
  <2>3. rest_age' = Horizon \/ rest_age' >= waiting_age' + active_settle
    <3>1. rest_age = Horizon \/ rest_age >= waiting_age + active_settle
      BY <1>3 DEF RestInv
    <3>2. /\ rest_age' = IF rest_age < Horizon THEN rest_age + 1 ELSE rest_age
          /\ waiting_age' <= waiting_age + 1 /\ waiting_age' \in Nat
      BY <2>1, <2>2, OlderBounds, RestTypes DEF Older
    <3>3. rest_age \in Nat /\ rest_age <= Horizon /\ waiting_age \in Nat
      BY <2>2, RestTypes
    <3>4. QED
      BY <3>1, <3>2, <3>3, RestTypes
  <2>4. QED
    BY <1>1, <1>3, <2>2, <2>3, OlderType DEF RestInv
<1>4. CASE state \notin {"SETTLING", "WAITING_LCODE"}
  BY <1>1, <1>4, NoRestNeeded
<1>5. QED
  BY <1>2, <1>3, <1>4

LEMMA NextKeepsRest ==
  TypeInv /\ StopInv /\ StopInv' /\ RestInv /\ [Next]_vars => RestInv'
<1> SUFFICES ASSUME TypeInv, StopInv, StopInv', RestInv, [Next]_vars
             PROVE  RestInv'
  OBVIOUS
<1>1. CASE Tick
  BY <1>1, TickKeepsRest
<1>2. CASE Exited \/ UNCHANGED vars
  BY <1>2, SameRest DEF Exited, vars, controllerVars, historyVars
<1>3. ASSUME NEW age \in 0..MaxPoseDelay, NEW failed \in SUBSET Motors,
             lcode_pose_callback(age, failed)
      PROVE  RestInv'
  <2>1. CASE PauseCorrection(age)
    BY <2>1, NoRestNeeded DEF PauseCorrection, Enter
  <2>2. CASE RunningCorrection(age) \/ IgnoredPose(age)
    BY <1>3, <2>2, SameRest
    DEF lcode_pose_callback, RunningCorrection, IgnoredPose
  <2>3. QED
    BY <1>3, <2>1, <2>2 DEF lcode_pose_callback
<1>4. ASSUME NEW request \in Requests, SetParameters(request)
      PROVE  RestInv'
  BY <1>4, SameRest DEF SetParameters
<1>5. ASSUME NEW failed \in SUBSET Motors, NEW t \in Twists,
             cmd_vel_callback(t, failed)
      PROVE  RestInv'
  <2>1. CASE CommandDiscarded(t, failed)
    BY <2>1, SameRest DEF CommandDiscarded, CommandArrives, DiscardCommand
  <2>2. CASE CommandStartsSettle(t, failed)
    BY <2>2, RestBegins DEF CommandStartsSettle, CommandArrives
  <2>3. CASE CommandApplied(t)
    BY <2>3, NoRestNeeded DEF CommandApplied, ForwardCommand
  <2>4. QED
    BY <1>5, <2>1, <2>2, <2>3 DEF cmd_vel_callback
<1>6. ASSUME NEW failed \in SUBSET Motors, update_odometry(failed)
      PROVE  RestInv'
  <2>1. CASE start_pause(config.settle)
    <3>1. active_settle' = config.settle
      BY <2>1, RestTypes DEF start_pause
    <3>2. QED
      BY <1>6, <2>1, <3>1, RestBegins DEF update_odometry, start_pause
  <2>2. CASE UNCHANGED <<state, state_age, active_settle, waiting_age>>
    BY <1>6, <2>2, SameRest DEF update_odometry
  <2>3. QED
    BY <1>6, <2>1, <2>2 DEF update_odometry, update_motion, controllerVars
<1>7. ASSUME NEW failed \in SUBSET Motors, check_timeout(failed)
      PROVE  RestInv'
  <2>1. rest_age' = rest_age
    BY <1>7 DEF check_timeout
  <2>2. CASE CheckSettled
    <3>1. rest_age >= active_settle
      BY <2>2, RestTypes DEF CheckSettled, WaitingStarted, SettleElapsed, RestInv
    <3>2. QED
      BY <2>1, <2>2, <3>1, RestTypes, ConstantAges
      DEF CheckSettled, WaitingStarted, Enter, RestInv
  <2>3. CASE CheckAborts(failed)
    BY <2>3, NoRestNeeded DEF CheckAborts, LocalizationAbort, Enter
  <2>4. CASE CheckRearms
    BY <2>4, NoRestNeeded DEF CheckRearms, FaultRearmed, Enter
  <2>5. CASE CheckHeld \/ CheckStops(failed) \/ CheckQuiet
    BY <2>1, <2>5, SameRest
    DEF CheckHeld, CheckStops, CheckQuiet, controllerVars
  <2>6. QED
    BY <1>7, <2>2, <2>3, <2>4, <2>5 DEF check_timeout
<1>8. ASSUME NEW failed \in SUBSET Motors, Shutdown(failed)
      PROVE  RestInv'
  BY <1>8, SameRest DEF Shutdown, controllerVars, historyVars
<1>9. ASSUME NEW failed \in SUBSET Motors, NEW v \in Velocities,
             NEW on \in SUBSET Motors, MotorTick(v, on, failed)
      PROVE  RestInv'
  <2>1. CASE state \in {"SETTLING", "WAITING_LCODE"}
    <3>1. UNCHANGED <<state, state_age, active_settle, waiting_age>>
      BY <1>9 DEF MotorTick, controllerVars
    <3>2. effective' = Zero
      BY <2>1, <3>1 DEF StopInv, HeldMeansStopped, Held
    <3>3. QED
      BY <1>9, <3>1, <3>2, SameRest DEF MotorTick
  <2>2. CASE state \notin {"SETTLING", "WAITING_LCODE"}
    BY <1>9, <2>2, NoRestNeeded DEF MotorTick, controllerVars
  <2>3. QED
    BY <2>1, <2>2
<1>10. QED
  BY <1>1, <1>2, <1>3, <1>4, <1>5, <1>6, <1>7, <1>8, <1>9 DEF Next

LEMMA InitRest == Init => RestInv
BY TimerAssumption, HorizonAssumption DEF Init, ControllerInit, RestInv

\* Only a pose newer than the wait takes the robot from the wait to the hold
\* after a correction.
LEMMA WaitLeftByPose ==
  ASSUME [Next]_vars,
         state = "WAITING_LCODE", state' = "POST_CORRECTION_HOLD"
  PROVE  \E age \in 0..MaxPoseDelay :
           age <= waiting_age /\ pose_age' = age
<1>1. ~(Tick \/ Exited \/ UNCHANGED vars)
  BY DEF Tick, ControllerTick, Exited, vars, controllerVars
<1>2. ASSUME NEW request PROVE ~SetParameters(request)
  BY DEF SetParameters
<1>3. ASSUME NEW t, NEW failed PROVE ~cmd_vel_callback(t, failed)
  BY DEF cmd_vel_callback, CommandDiscarded, DiscardCommand,
         CommandStartsSettle, Enter, CommandApplied, ForwardCommand
<1>4. ASSUME NEW failed PROVE ~update_odometry(failed)
  BY DEF update_odometry, update_motion, MotionReachesInterval, CountsMotion,
         controllerVars
<1>5. ASSUME NEW failed PROVE ~check_timeout(failed)
  BY DEF check_timeout, CheckSettled, WaitingStarted, Enter, CheckAborts,
         LocalizationAbort, CheckRearms, FaultRearmed, CheckHeld, CheckStops,
         CheckQuiet, controllerVars
<1>6. ASSUME NEW failed PROVE ~Shutdown(failed)
  BY DEF Shutdown, controllerVars
<1>7. ASSUME NEW v, NEW on, NEW failed PROVE ~MotorTick(v, on, failed)
  BY DEF MotorTick, controllerVars
<1>8. PICK age \in 0..MaxPoseDelay, failed \in SUBSET Motors :
        lcode_pose_callback(age, failed)
  BY <1>1, <1>2, <1>3, <1>4, <1>5, <1>6, <1>7 DEF Next
<1>9. PauseCorrection(age)
  BY <1>8 DEF lcode_pose_callback, RunningCorrection, IgnoredPose
<1>10. QED
  BY <1>9 DEF PauseCorrection

\* A pause ends in a correction only with a pose stamped after the robot had
\* stood still for the settle time of that pause (on_timer sets the time from
\* which on_pose accepts, and nothing moves the wheels in between).
THEOREM CorrectedAtRest == Spec => CorrectionTakenAtRest
<1>1. TypeInv /\ RestInv /\ [Next]_vars
        => (state = "WAITING_LCODE" /\ state' = "POST_CORRECTION_HOLD" =>
              rest_age - pose_age' >= active_settle)
  <2> SUFFICES ASSUME TypeInv, RestInv, [Next]_vars,
                      state = "WAITING_LCODE",
                      state' = "POST_CORRECTION_HOLD"
               PROVE  rest_age - pose_age' >= active_settle
    OBVIOUS
  <2>1. PICK age \in 0..MaxPoseDelay : age <= waiting_age /\ pose_age' = age
    BY WaitLeftByPose
  <2>2. /\ waiting_age \in Nat
        /\ rest_age = Horizon \/ rest_age >= waiting_age + active_settle
        /\ active_settle + MaxPoseDelay <= Horizon
    BY RestTypes DEF RestInv
  <2>3. QED
    BY <2>1, <2>2, RestTypes
<1>2. Spec => []StopInv
  BY TypesHold, InitStop, NextKeepsStop, PTL DEF Spec
<1>3. Spec => []RestInv
  BY <1>2, TypesHold, InitRest, NextKeepsRest, PTL DEF Spec
<1>4. QED
  BY <1>1, <1>3, TypesHold, PTL DEF Spec, CorrectionTakenAtRest
=============================================================================
