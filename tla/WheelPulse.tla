----------------------------- MODULE WheelPulse -----------------------------
(***************************************************************************)
(* KinematicsInterface, one wheel: what tick() makes of the PWM drive()    *)
(* intends.  A PWM too weak to turn the wheel (below min_pwm) is replaced  *)
(* by trains of pulses at min_pwm, rationed by an accumulator so that the  *)
(* average comes out right.  The four wheels do not read each other.       *)
(*                                                                         *)
(* PWM values and gains are integers in a unit fine enough for both; the   *)
(* byte that goes over I2C keeps its width.                                *)
(***************************************************************************)
EXTENDS Integers

CONSTANTS
  Tunings,       \* parameter sets the node may start with
  Retunings,     \* parameter sets a user may change to while it runs
  Commands,      \* pairs <<linear, angular>> of intended PWM components
  WritesMayFail  \* an I2C write may be lost

Abs(n) == IF n < 0 THEN -n ELSE n
Sign(n) == IF n > 0 THEN 1 ELSE IF n < 0 THEN -1 ELSE 0
Clamp(n, bound) == IF n > bound THEN bound ELSE IF n < -bound THEN -bound ELSE n

\* The node accepts any value for these.  Kept here is what the pulse trains
\* need to mean anything: a positive length, a positive strength, room below
\* max_pwm, and a deadzone that holds at least the zero command (with
\* pwm_deadzone = 0, tick takes 0 for a weak backward command and pulses).
Tuning == [min_pwm : Nat \ {0}, max_pwm : Nat, pwm_deadzone : Nat \ {0},
           pulse_ticks : Nat \ {0}, linear_gain : Nat, angular_gain : Nat]

ASSUME WheelAssumption ==
  /\ Tunings \subseteq Tuning
  /\ Retunings \subseteq Tuning
  /\ \A t \in Tunings \cup Retunings : t.min_pwm <= t.max_pwm
  /\ Commands \subseteq Int \X Int
  /\ <<0, 0>> \in Commands
  /\ WritesMayFail \in BOOLEAN

VARIABLES
  tuning,           \* min_pwm_, max_pwm_, pwm_deadzone_, ...
  command,          \* intended_linear_pwm_, intended_angular_pwm_
  accumulator,      \* accumulator_
  pulse_remaining,  \* pulse_remaining_
  was_modulating,   \* was_modulating_
  applied,          \* what set_motor returned: odometry believes it
  register          \* direction and speed byte last written to the motor

\* History, read by the properties only.
VARIABLES
  direction,        \* the sign commanded ever since the pulses began, with
                    \* the same parameters, or 0
  surplus           \* sum of applied - Weighted since then, or 0; counted
                    \* up to a bound beyond what AverageTracksCommand allows

pulseVars == <<accumulator, pulse_remaining, was_modulating>>
historyVars == <<direction, surplus>>
vars == <<tuning, command, pulseVars, applied, register, historyVars>>

Off == [reverse |-> FALSE, speed |-> 0]
Registers == [reverse : BOOLEAN, speed : 0..255]

TypeOK ==
  /\ tuning \in Tuning
  /\ command \in Commands
  /\ accumulator \in Int
  /\ pulse_remaining \in Nat
  /\ was_modulating \in BOOLEAN
  /\ applied \in Int
  /\ register \in Registers
  /\ direction \in {-1, 0, 1}
  /\ surplus \in Int

Init ==
  /\ tuning \in Tunings
  /\ command = <<0, 0>>
  /\ accumulator = 0
  /\ pulse_remaining = 0
  /\ was_modulating = FALSE
  /\ applied = 0
  /\ register = Off
  /\ direction = 0
  /\ surplus = 0

-----------------------------------------------------------------------------
(* set_motor *)

Out(speed) ==
  IF speed = 0 \/ Abs(speed) < tuning.pwm_deadzone THEN 0
  ELSE IF Abs(speed) < tuning.min_pwm THEN Sign(speed) * tuning.min_pwm
  ELSE Clamp(speed, tuning.max_pwm)

\* The magnitude is cast to uint8_t.
Frame(out) == [reverse |-> out < 0, speed |-> Abs(out) % 256]

Write(out) ==
  \/ register' = Frame(out)
  \/ WritesMayFail /\ UNCHANGED register

set_motor(speed) == applied' = Out(speed) /\ Write(Out(speed))

-----------------------------------------------------------------------------
(* drive and stop *)

drive(c) ==
  /\ command' = c
  /\ UNCHANGED <<tuning, pulseVars, applied, register, historyVars>>

ClearPulses ==
  /\ accumulator' = 0
  /\ pulse_remaining' = 0
  /\ was_modulating' = FALSE
  /\ direction' = 0
  /\ surplus' = 0

\* stop writes the zero itself and does not wait for the next tick.
stop ==
  /\ command' = <<0, 0>>
  /\ set_motor(0)
  /\ ClearPulses
  /\ UNCHANGED tuning

-----------------------------------------------------------------------------
(* tick *)

Intended == command[1] + command[2]
Gained == command[1] * tuning.linear_gain + command[2] * tuning.angular_gain

\* Mistake: no cap.
WeightedUncapped == Gained

Weighted == Clamp(Gained, tuning.min_pwm)

Continuous == Abs(Intended) >= tuning.min_pwm
Modulates == ~Continuous /\ Abs(Weighted) >= tuning.pwm_deadzone

TickContinuous ==
  /\ Continuous
  /\ set_motor(Intended)
  /\ ClearPulses

TickIdle ==
  /\ ~Continuous /\ ~Modulates
  /\ set_motor(0)
  /\ ClearPulses

PulseSign == IF Weighted > 0 THEN 1 ELSE -1
Threshold == tuning.min_pwm * tuning.pulse_ticks

\* Mistake: the first pulse has to be earned like any other.
StartsEmpty == accumulator

\* The accumulator starts full, so the first pulse comes at once.
Kickstarted == IF was_modulating THEN accumulator ELSE PulseSign * Threshold

\* Mistake: the command is not added up.
NeverCharged == Kickstarted

Charged == Kickstarted + Weighted

RecordPulse(out) ==
  /\ direction' = IF ~was_modulating \/ direction = PulseSign THEN PulseSign
                                                              ELSE 0
  /\ surplus' = IF direction' = 0 THEN 0
                ELSE Clamp(surplus + out - Weighted, 2 * Threshold)

TrainContinues ==
  /\ pulse_remaining > 0
  /\ set_motor(PulseSign * tuning.min_pwm)
  /\ RecordPulse(Out(PulseSign * tuning.min_pwm))
  /\ accumulator' = Charged
  /\ pulse_remaining' = pulse_remaining - 1

\* The pulse goes where the accumulator points, not where the command does.
FireSign == IF Charged > 0 THEN 1 ELSE -1

\* Mistake: a train is not charged for.
NotDischarged == Charged

\* Mistake: a train takes all there is.
EmptiesIt == 0

Discharged == Charged - FireSign * Threshold

\* Mistake: one tick too short.
TrainCutShort == tuning.pulse_ticks - 2

TrainLeft == tuning.pulse_ticks - 1

TrainStarts ==
  /\ pulse_remaining <= 0
  /\ Abs(Charged) >= Threshold
  /\ set_motor(FireSign * tuning.min_pwm)
  /\ RecordPulse(Out(FireSign * tuning.min_pwm))
  /\ accumulator' = Discharged
  /\ pulse_remaining' = TrainLeft

TrainWaits ==
  /\ pulse_remaining <= 0
  /\ Abs(Charged) < Threshold
  /\ set_motor(0)
  /\ RecordPulse(0)
  /\ accumulator' = Charged
  /\ UNCHANGED pulse_remaining

TickModulates ==
  /\ Modulates
  /\ was_modulating' = TRUE
  /\ TrainContinues \/ TrainStarts \/ TrainWaits

tick ==
  /\ TickContinuous \/ TickIdle \/ TickModulates
  /\ UNCHANGED <<tuning, command>>

-----------------------------------------------------------------------------
\* Parameters change between two ticks; the pulse state is kept as it is.
SetParameters(t) ==
  /\ tuning' = t
  /\ direction' = 0
  /\ surplus' = 0
  /\ UNCHANGED <<command, pulseVars, applied, register>>

Next ==
  \/ \E c \in Commands : drive(c)
  \/ stop
  \/ tick
  \/ \E t \in Retunings : SetParameters(t)

Spec == Init /\ [][Next]_vars
FairSpec == Spec /\ WF_vars(tick)

-----------------------------------------------------------------------------
(* Properties *)

\* The parameters only ever change to longer or stronger pulses.
RetuningsGrow ==
  \A s \in Tunings \cup Retunings, t \in Retunings :
    s.min_pwm <= t.min_pwm /\ s.pulse_ticks <= t.pulse_ticks

\* A wheel's debt is bounded: what the accumulator holds and what the train
\* under way will still add never exceed one train, whatever sequence of
\* commands, reversals, stops and longer or stronger pulses came before.
AccumulatorBounded ==
  Abs(accumulator) + pulse_remaining * tuning.min_pwm <= Threshold

\* The comment in tick: a pulse goes in the direction of the weighted
\* command, that is, a wheel never turns against its command.
PulsesFollowCommand ==
  [][tick /\ Modulates => applied' = 0 \/ Sign(applied') = PulseSign]_vars

\* The first tick of a weak command already turns the wheel (kickstart).
FirstPulseAtOnce ==
  [][~was_modulating /\ was_modulating' => applied' # 0]_vars

\* While the direction stays the same, the pulses given are never behind the
\* weighted command and never more than one train ahead of it: the average
\* output is the weighted command.
AverageTracksCommand ==
  direction # 0 =>
    /\ direction * surplus >= 0
    /\ direction * surplus <= Threshold

\* A weak command that keeps its direction gets pulses again and again, be
\* its strength ever so varied.
WeakCommandKeepsMoving ==
  (Modulates /\ direction # 0) ~> (applied # 0 \/ direction = 0)
=============================================================================
