--------------------------- MODULE WheelPulseProofs ---------------------------
(***************************************************************************)
(* Theorems about WheelPulse, for every command, gain, pulse strength and  *)
(* pulse length its assumptions allow.                                     *)
(***************************************************************************)
EXTENDS WheelPulse, TLAPS

-----------------------------------------------------------------------------
(* Arithmetic *)

LEMMA AbsFacts ==
  /\ \A n \in Int : Abs(n) \in Nat
  /\ \A m, n \in Int : Abs(m + n) <= Abs(m) + Abs(n)
BY DEF Abs

LEMMA ClampFacts ==
  ASSUME NEW n \in Int, NEW bound \in Nat
  PROVE  Clamp(n, bound) \in Int /\ Abs(Clamp(n, bound)) <= bound
BY DEF Clamp, Abs

LEMMA OneLess ==
  ASSUME NEW m \in Int, NEW n \in Int
  PROVE  (n - 1) * m = n * m - m /\ m * (n - 1) = m * n - m
OBVIOUS

LEMMA ProductMonotone ==
  ASSUME NEW a \in Int, NEW b \in Int, NEW c \in Nat, a <= b
  PROVE  a * c <= b * c
<1>1. (b - a) * c >= 0
  OBVIOUS
<1>2. (b - a) * c = b * c - a * c
  OBVIOUS
<1>3. a * c \in Int /\ b * c \in Int
  OBVIOUS
<1>4. QED
  BY <1>1, <1>2, <1>3

-----------------------------------------------------------------------------
(* Types *)

TypeInv == TypeOK /\ tuning \in Tunings \cup Retunings

LEMMA TuningFacts ==
  ASSUME TypeInv
  PROVE  /\ tuning.min_pwm \in Nat \ {0} /\ tuning.max_pwm \in Nat
         /\ tuning.pwm_deadzone \in Nat \ {0}
         /\ tuning.pulse_ticks \in Nat \ {0}
         /\ Threshold \in Nat
         /\ command[1] \in Int /\ command[2] \in Int
<1>1. /\ tuning.min_pwm \in Nat \ {0} /\ tuning.max_pwm \in Nat
      /\ tuning.pwm_deadzone \in Nat \ {0}
      /\ tuning.pulse_ticks \in Nat \ {0}
  BY DEF TypeInv, TypeOK, Tuning
<1>2. Threshold \in Nat
  BY <1>1 DEF Threshold
<1>3. command \in Int \X Int
  BY WheelAssumption DEF TypeInv, TypeOK
<1>4. QED
  BY <1>1, <1>2, <1>3

LEMMA WeightedFacts ==
  ASSUME TypeInv
  PROVE  Weighted \in Int /\ Abs(Weighted) <= tuning.min_pwm
<1>1. Gained \in Int
  <2>1. tuning.linear_gain \in Int /\ tuning.angular_gain \in Int
    BY DEF TypeInv, TypeOK, Tuning
  <2>2. /\ command[1] * tuning.linear_gain \in Int
        /\ command[2] * tuning.angular_gain \in Int
    BY <2>1, TuningFacts
  <2>3. QED
    BY <2>2 DEF Gained
<1>2. QED
  BY <1>1, TuningFacts, ClampFacts DEF Weighted

LEMMA MotorFacts ==
  ASSUME TypeInv, NEW speed \in Int, set_motor(speed)
  PROVE  Out(speed) \in Int /\ applied' \in Int /\ register' \in Registers
<1>1. Out(speed) \in Int
  <2>1. Clamp(speed, tuning.max_pwm) \in Int
    BY TuningFacts, ClampFacts
  <2>2. Sign(speed) * tuning.min_pwm \in Int
    BY TuningFacts DEF Sign
  <2>3. QED
    BY <2>1, <2>2 DEF Out
<1>2. Frame(Out(speed)) \in Registers
  <2>1. Abs(Out(speed)) \in Nat
    BY <1>1, AbsFacts
  <2>2. Abs(Out(speed)) % 256 \in 0..255
    BY <2>1
  <2>3. QED
    BY <2>2 DEF Frame, Registers
<1>3. QED
  BY <1>1, <1>2 DEF set_motor, Write, TypeInv, TypeOK

\* What the accumulator holds before and after it is charged and discharged.
LEMMA ChargeFacts ==
  ASSUME TypeInv
  PROVE  /\ PulseSign \in {-1, 1} /\ FireSign \in {-1, 1}
         /\ Kickstarted \in Int /\ Charged \in Int /\ Discharged \in Int
<1>1. PulseSign \in {-1, 1} /\ FireSign \in {-1, 1}
  BY DEF PulseSign, FireSign
<1>2. Threshold \in Int /\ accumulator \in Int
  BY TuningFacts DEF TypeInv, TypeOK
<1>3. PulseSign * Threshold \in Int /\ FireSign * Threshold \in Int
  BY <1>1, <1>2
<1>4. Kickstarted \in Int
  BY <1>2, <1>3 DEF Kickstarted
<1>5. Charged \in Int
  BY <1>4, WeightedFacts DEF Charged
<1>6. QED
  BY <1>1, <1>3, <1>4, <1>5 DEF Discharged

LEMMA RecordFacts ==
  ASSUME TypeInv, NEW out \in Int, RecordPulse(out)
  PROVE  direction' \in {-1, 0, 1} /\ surplus' \in Int
<1>1. direction' \in {-1, 0, 1}
  BY ChargeFacts DEF RecordPulse, TypeInv, TypeOK
<1>2. QED
  BY <1>1, WeightedFacts DEF RecordPulse, TypeInv, TypeOK

\* The part of TypeOK that a tick can touch.
PulseTypeOK ==
  /\ accumulator \in Int
  /\ pulse_remaining \in Nat
  /\ was_modulating \in BOOLEAN
  /\ applied \in Int
  /\ register \in Registers
  /\ direction \in {-1, 0, 1}
  /\ surplus \in Int

LEMMA ClearPulsesType ==
  ASSUME ClearPulses, applied' \in Int, register' \in Registers
  PROVE  PulseTypeOK'
<1>1. was_modulating' \in BOOLEAN
  BY DEF ClearPulses
<1>2. /\ accumulator' \in Int /\ pulse_remaining' \in Nat
      /\ direction' \in {-1, 0, 1} /\ surplus' \in Int
  BY DEF ClearPulses
<1>3. QED
  BY <1>1, <1>2 DEF PulseTypeOK

LEMMA TickModulatesType ==
  ASSUME TypeInv, TickModulates
  PROVE  PulseTypeOK'
<1>1. /\ PulseSign * tuning.min_pwm \in Int /\ FireSign * tuning.min_pwm \in Int
  BY ChargeFacts, TuningFacts
<1>2. CASE TrainContinues
  BY <1>1, <1>2, MotorFacts, RecordFacts, ChargeFacts
  DEF TickModulates, TrainContinues, PulseTypeOK, TypeInv, TypeOK
<1>3. CASE TrainStarts
  BY <1>1, <1>3, MotorFacts, RecordFacts, ChargeFacts, TuningFacts
  DEF TickModulates, TrainStarts, TrainLeft, PulseTypeOK
<1>4. CASE TrainWaits
  BY <1>4, MotorFacts, RecordFacts, ChargeFacts
  DEF TickModulates, TrainWaits, PulseTypeOK, TypeInv, TypeOK
<1>5. QED
  BY <1>2, <1>3, <1>4 DEF TickModulates

LEMMA NextKeepsTypes == TypeInv /\ [Next]_vars => TypeInv'
<1> SUFFICES ASSUME TypeInv, [Next]_vars PROVE TypeInv'
  OBVIOUS
<1>1. ASSUME NEW c \in Commands, drive(c) PROVE TypeInv'
  BY <1>1 DEF drive, pulseVars, historyVars, TypeInv, TypeOK
<1>2. CASE stop
  BY <1>2, MotorFacts, WheelAssumption
  DEF stop, ClearPulses, TypeInv, TypeOK
<1>3. CASE tick
  <2>1. CASE TickContinuous
    <3>1. Intended \in Int
      BY TuningFacts DEF Intended
    <3>2. applied' \in Int /\ register' \in Registers
      BY <2>1, <3>1, MotorFacts DEF TickContinuous
    <3>3. QED
      BY <1>3, <2>1, <3>2, ClearPulsesType
      DEF tick, TickContinuous, PulseTypeOK, TypeInv, TypeOK
  <2>2. CASE TickIdle
    <3>1. applied' \in Int /\ register' \in Registers
      BY <2>2, MotorFacts DEF TickIdle
    <3>2. QED
      BY <1>3, <2>2, <3>1, ClearPulsesType
      DEF tick, TickIdle, PulseTypeOK, TypeInv, TypeOK
  <2>3. CASE TickModulates
    BY <1>3, <2>3, TickModulatesType DEF tick, PulseTypeOK, TypeInv, TypeOK
  <2>4. QED
    BY <1>3, <2>1, <2>2, <2>3 DEF tick
<1>4. ASSUME NEW t \in Retunings, SetParameters(t) PROVE TypeInv'
  BY <1>4, WheelAssumption DEF SetParameters, pulseVars, TypeInv, TypeOK
<1>5. CASE UNCHANGED vars
  BY <1>5 DEF vars, pulseVars, historyVars, TypeInv, TypeOK
<1>6. QED
  BY <1>1, <1>2, <1>3, <1>4, <1>5 DEF Next

LEMMA InitTypes == Init => TypeInv
<1> SUFFICES ASSUME Init PROVE TypeInv
  OBVIOUS
<1>1. tuning \in Tunings /\ tuning \in Tuning /\ command \in Commands
  BY WheelAssumption DEF Init
<1>2. register \in Registers
  BY DEF Init, Off, Registers
<1>3. was_modulating \in BOOLEAN
  BY DEF Init
<1>4. /\ accumulator \in Int /\ pulse_remaining \in Nat /\ applied \in Int
      /\ direction \in {-1, 0, 1} /\ surplus \in Int
  BY DEF Init
<1>5. QED
  BY <1>1, <1>2, <1>3, <1>4 DEF TypeInv, TypeOK

\* The accumulator, the train and the byte written keep their types over any
\* sequence of commands, stops, ticks and parameter changes.
THEOREM TypeCorrect == Spec => []TypeOK
<1>1. TypeInv => TypeOK
  BY DEF TypeInv
<1>2. QED
  BY <1>1, InitTypes, NextKeepsTypes, PTL DEF Spec

-----------------------------------------------------------------------------
(* The accumulator is bounded *)

\* AccumulatorBounded is inductive only with what the pulse state of a wheel
\* that does not modulate is, and with the length of a train.
BoundInv ==
  /\ AccumulatorBounded
  /\ pulse_remaining <= tuning.pulse_ticks
  /\ ~was_modulating => accumulator = 0 /\ pulse_remaining = 0

\* A train not yet given never exceeds the threshold: the kickstart fills the
\* accumulator to it, and one tick adds at most min_pwm.
LEMMA ChargeBounded ==
  ASSUME TypeInv, BoundInv
  PROVE  /\ Abs(Kickstarted) + pulse_remaining * tuning.min_pwm <= Threshold
         /\ Abs(Charged) + pulse_remaining * tuning.min_pwm
              <= Threshold + tuning.min_pwm
<1>1. Abs(Kickstarted) + pulse_remaining * tuning.min_pwm <= Threshold
  <2>1. CASE was_modulating
    BY <2>1 DEF Kickstarted, BoundInv, AccumulatorBounded
  <2>2. CASE ~was_modulating
    <3>1. pulse_remaining * tuning.min_pwm = 0
      BY <2>2, TuningFacts DEF BoundInv
    <3>2. Abs(PulseSign * Threshold) = Threshold
      BY ChargeFacts, TuningFacts DEF Abs
    <3>3. Kickstarted = PulseSign * Threshold
      BY <2>2 DEF Kickstarted
    <3>4. QED
      BY <3>1, <3>2, <3>3, TuningFacts
  <2>3. QED
    BY <2>1, <2>2
<1>2. Abs(Charged) <= Abs(Kickstarted) + tuning.min_pwm
  <2>1. Abs(Charged) <= Abs(Kickstarted) + Abs(Weighted)
    BY ChargeFacts, WeightedFacts, AbsFacts DEF Charged
  <2>2. /\ Abs(Charged) \in Int /\ Abs(Kickstarted) \in Int
        /\ Abs(Weighted) \in Int
    BY ChargeFacts, WeightedFacts, AbsFacts
  <2>3. QED
    BY <2>1, <2>2, WeightedFacts, TuningFacts
<1>3. Abs(Charged) \in Int /\ Abs(Kickstarted) \in Int
  BY ChargeFacts, AbsFacts
<1>4. pulse_remaining \in Int
  BY DEF TypeInv, TypeOK
<1>5. pulse_remaining * tuning.min_pwm \in Int
  BY <1>4, TuningFacts
<1>6. QED
  BY <1>1, <1>2, <1>3, <1>5, TuningFacts

LEMMA TrainBounded ==
  ASSUME TypeInv, BoundInv, TickModulates, UNCHANGED tuning
  PROVE  BoundInv'
<1> DEFINE m == tuning.min_pwm
           n == tuning.pulse_ticks
           r == pulse_remaining
<1>1. /\ m \in Nat \ {0} /\ n \in Nat \ {0} /\ r \in Nat
      /\ Threshold = n * m /\ Threshold' = Threshold
      /\ n * m \in Int /\ r * m \in Int
  BY TuningFacts DEF TypeInv, TypeOK, Threshold
<1>2. was_modulating'
  BY DEF TickModulates
<1>3. Charged \in Int /\ Abs(Charged) \in Nat
  BY ChargeFacts, AbsFacts
<1>4. Abs(Charged) + r * m <= n * m + m
  BY <1>1, ChargeBounded
<1>5. CASE TrainContinues
  <2>1. accumulator' = Charged /\ pulse_remaining' = r - 1
    BY <1>5 DEF TrainContinues
  <2>2. (r - 1) * m = r * m - m
    BY <1>1, OneLess
  <2>3. Abs(Charged) + (r - 1) * m <= n * m
    BY <1>1, <1>3, <1>4, <2>2
  <2>4. r <= n
    BY DEF BoundInv
  <2>5. QED
    BY <1>1, <1>2, <2>1, <2>3, <2>4 DEF BoundInv, AccumulatorBounded
<1>6. CASE TrainStarts
  <2>1. accumulator' = Discharged /\ pulse_remaining' = n - 1
    BY <1>6 DEF TrainStarts, TrainLeft
  <2>2. r * m = 0
    BY <1>1, <1>6 DEF TrainStarts
  <2>3. n * m <= Abs(Charged) /\ Abs(Charged) <= n * m + m
    BY <1>1, <1>3, <1>4, <1>6, <2>2 DEF TrainStarts
  <2>4. Abs(Discharged) <= m
    <3>1. CASE Charged > 0
      <4>1. Discharged = Charged - n * m /\ Abs(Charged) = Charged
        BY <1>1, <1>3, <3>1 DEF Discharged, FireSign, Abs
      <4>2. QED
        BY <1>1, <1>3, <2>3, <4>1 DEF Abs
    <3>2. CASE ~(Charged > 0)
      <4>1. Discharged = Charged + n * m /\ Abs(Charged) = -Charged
        BY <1>1, <1>3, <3>2 DEF Discharged, FireSign, Abs
      <4>2. QED
        BY <1>1, <1>3, <2>3, <4>1 DEF Abs
    <3>3. QED
      BY <3>1, <3>2
  <2>5. (n - 1) * m = n * m - m
    BY <1>1, OneLess
  <2>6. Abs(Discharged) \in Int
    BY ChargeFacts, AbsFacts
  <2>7. Abs(Discharged) + (n - 1) * m <= n * m
    BY <1>1, <2>4, <2>5, <2>6
  <2>8. QED
    BY <1>1, <1>2, <2>1, <2>7 DEF BoundInv, AccumulatorBounded
<1>7. CASE TrainWaits
  <2>1. accumulator' = Charged /\ pulse_remaining' = r /\ r = 0
    BY <1>1, <1>7 DEF TrainWaits
  <2>2. Abs(Charged) < n * m /\ r * m = 0
    BY <1>1, <1>7, <2>1 DEF TrainWaits
  <2>3. QED
    BY <1>1, <1>2, <1>3, <2>1, <2>2 DEF BoundInv, AccumulatorBounded
<1>8. QED
  BY <1>5, <1>6, <1>7 DEF TickModulates

\* Stronger or longer pulses leave room for what is under way.
LEMMA GrowthBounded ==
  ASSUME TypeInv, BoundInv, RetuningsGrow, NEW t \in Retunings,
         SetParameters(t)
  PROVE  BoundInv'
<1> DEFINE m == tuning.min_pwm
           n == tuning.pulse_ticks
           r == pulse_remaining
<1>1. /\ m \in Nat \ {0} /\ n \in Nat \ {0} /\ r \in Nat
      /\ accumulator \in Int
  BY TuningFacts DEF TypeInv, TypeOK
<1>2. t.min_pwm \in Nat \ {0} /\ t.pulse_ticks \in Nat \ {0}
  BY WheelAssumption DEF Tuning
<1>3. m <= t.min_pwm /\ n <= t.pulse_ticks
  BY DEF RetuningsGrow, TypeInv
<1>4. r <= n
  BY DEF BoundInv
<1>5. Abs(accumulator) \in Nat
  BY <1>1, AbsFacts
<1>6. Abs(accumulator) <= m * (n - r)
  <2>1. m * (n - r) = m * n - r * m /\ m * n \in Int /\ r * m \in Int
    BY <1>1
  <2>2. Abs(accumulator) + r * m <= m * n
    BY DEF BoundInv, AccumulatorBounded, Threshold
  <2>3. QED
    BY <1>5, <2>1, <2>2
<1>7. m * (n - r) <= t.min_pwm * (n - r)
  BY <1>1, <1>2, <1>3, <1>4, ProductMonotone
<1>8. (n - r) * t.min_pwm <= (t.pulse_ticks - r) * t.min_pwm
  <2>1. n - r <= t.pulse_ticks - r
    BY <1>1, <1>2, <1>3
  <2>2. n - r \in Int /\ t.pulse_ticks - r \in Int /\ t.min_pwm \in Nat
    BY <1>1, <1>2
  <2>3. QED
    BY <2>1, <2>2, ProductMonotone
<1>9. Abs(accumulator) + r * t.min_pwm <= t.min_pwm * t.pulse_ticks
  <2>1. /\ (t.pulse_ticks - r) * t.min_pwm
             = t.min_pwm * t.pulse_ticks - r * t.min_pwm
        /\ t.min_pwm * (n - r) = (n - r) * t.min_pwm
    BY <1>1, <1>2
  <2>2. /\ m * (n - r) \in Int /\ (n - r) * t.min_pwm \in Int
        /\ t.min_pwm * t.pulse_ticks \in Int /\ r * t.min_pwm \in Int
    BY <1>1, <1>2
  <2>3. QED
    BY <1>5, <1>6, <1>7, <1>8, <2>1, <2>2
<1>10. /\ tuning' = t /\ accumulator' = accumulator /\ pulse_remaining' = r
       /\ was_modulating' = was_modulating
  BY DEF SetParameters, pulseVars
<1>11. r <= t.pulse_ticks
  BY <1>1, <1>2, <1>3, <1>4
<1>12. AccumulatorBounded'
  BY <1>9, <1>10 DEF AccumulatorBounded, Threshold
<1>13. QED
  BY <1>10, <1>11, <1>12 DEF BoundInv

LEMMA ClearedBounded ==
  ASSUME TypeInv, ClearPulses, UNCHANGED tuning
  PROVE  BoundInv'
<1>1. Abs(0) + 0 * tuning.min_pwm <= Threshold
  BY TuningFacts DEF Abs
<1>2. Threshold' = Threshold
  BY DEF Threshold
<1>3. QED
  BY <1>1, <1>2, TuningFacts DEF ClearPulses, BoundInv, AccumulatorBounded

LEMMA NextKeepsBound ==
  ASSUME RetuningsGrow
  PROVE  TypeInv /\ BoundInv /\ [Next]_vars => BoundInv'
<1> SUFFICES ASSUME TypeInv, BoundInv, [Next]_vars PROVE BoundInv'
  OBVIOUS
<1>1. ASSUME UNCHANGED <<tuning, pulseVars>> PROVE BoundInv'
  BY <1>1 DEF pulseVars, BoundInv, AccumulatorBounded, Threshold
<1>2. ASSUME NEW c \in Commands, drive(c) PROVE BoundInv'
  BY <1>1, <1>2 DEF drive
<1>3. CASE stop
  BY <1>3, ClearedBounded DEF stop
<1>4. CASE tick
  BY <1>4, ClearedBounded, TrainBounded DEF tick, TickContinuous, TickIdle
<1>5. ASSUME NEW t \in Retunings, SetParameters(t) PROVE BoundInv'
  BY <1>5, GrowthBounded
<1>6. CASE UNCHANGED vars
  BY <1>1, <1>6 DEF vars
<1>7. QED
  BY <1>2, <1>3, <1>4, <1>5, <1>6 DEF Next

LEMMA InitBound == Init => BoundInv
<1> SUFFICES ASSUME Init PROVE BoundInv
  OBVIOUS
<1>1. TypeInv
  BY InitTypes
<1>2. Abs(0) + 0 * tuning.min_pwm <= Threshold
  BY <1>1, TuningFacts DEF Abs
<1>3. QED
  BY <1>1, <1>2, TuningFacts DEF Init, BoundInv, AccumulatorBounded

\* As long as parameters only change to longer or stronger pulses, no sequence
\* of commands, reversals and stops takes the accumulator beyond one train.
THEOREM DebtBounded ==
  ASSUME RetuningsGrow
  PROVE  Spec => []AccumulatorBounded
<1>1. BoundInv => AccumulatorBounded
  BY DEF BoundInv
<1>2. QED
  BY <1>1, InitTypes, NextKeepsTypes, InitBound, NextKeepsBound, PTL DEF Spec

-----------------------------------------------------------------------------
(* Pulses follow the command *)

\* A pulse is written the way it is meant, or swallowed by the deadzone.
LEMMA PulseWritten ==
  ASSUME TypeInv, NEW s \in {-1, 1}
  PROVE  Out(s * tuning.min_pwm) = 0 \/ Sign(Out(s * tuning.min_pwm)) = s
<1> DEFINE m == tuning.min_pwm
           p == s * tuning.min_pwm
<1>1. m \in Nat \ {0} /\ p \in Int /\ Abs(p) = m /\ Sign(p) = s
  BY TuningFacts DEF Abs, Sign
<1>2. m <= tuning.max_pwm
  BY WheelAssumption DEF TypeInv
<1>3. Clamp(p, tuning.max_pwm) = p
  BY <1>1, <1>2, TuningFacts DEF Clamp, Abs
<1>4. Out(p) = 0 \/ Out(p) = p
  BY <1>1, <1>3 DEF Out
<1>5. QED
  BY <1>1, <1>4

\* A bounded accumulator fires only towards the command that charged it.
LEMMA FiresWithCommand ==
  ASSUME TypeInv, BoundInv, Modulates, TrainStarts
  PROVE  FireSign = PulseSign
<1>1. Weighted \in Int /\ Weighted # 0
  BY WeightedFacts, TuningFacts DEF Modulates, Abs
<1>2. pulse_remaining * tuning.min_pwm = 0
  BY TuningFacts DEF TrainStarts, TypeInv, TypeOK
<1>3. Abs(Kickstarted) <= Threshold
  <2>1. Abs(Kickstarted) + pulse_remaining * tuning.min_pwm <= Threshold
    BY ChargeBounded
  <2>2. Abs(Kickstarted) \in Int
    BY ChargeFacts, AbsFacts
  <2>3. QED
    BY <1>2, <2>1, <2>2
<1>4. Threshold \in Nat /\ Threshold # 0
  BY TuningFacts DEF Threshold
<1>5. /\ Kickstarted \in Int /\ Charged = Kickstarted + Weighted
      /\ Abs(Charged) >= Threshold
  BY ChargeFacts DEF Charged, TrainStarts
<1>6. CASE Weighted > 0
  <2>1. Charged > 0
    BY <1>1, <1>3, <1>4, <1>5, <1>6 DEF Abs
  <2>2. QED
    BY <1>6, <2>1 DEF FireSign, PulseSign
<1>7. CASE ~(Weighted > 0)
  <2>1. ~(Charged > 0)
    BY <1>1, <1>3, <1>4, <1>5, <1>7 DEF Abs
  <2>2. QED
    BY <1>7, <2>1 DEF FireSign, PulseSign
<1>8. QED
  BY <1>6, <1>7

\* A wheel never turns against its command while parameters only change to
\* longer or stronger pulses (the comment on the direction of a pulse, tick).
THEOREM PulsesFollow ==
  ASSUME RetuningsGrow
  PROVE  Spec => PulsesFollowCommand
<1>1. TypeInv /\ BoundInv /\ [Next]_vars
        => (tick /\ Modulates => applied' = 0 \/ Sign(applied') = PulseSign)
  <2> SUFFICES ASSUME TypeInv, BoundInv, tick, Modulates
               PROVE  applied' = 0 \/ Sign(applied') = PulseSign
    OBVIOUS
  <2>1. TickModulates
    BY DEF tick, TickContinuous, TickIdle, Modulates
  <2>2. CASE TrainContinues
    BY <2>2, ChargeFacts, PulseWritten DEF TrainContinues, set_motor
  <2>3. CASE TrainStarts
    BY <2>3, ChargeFacts, PulseWritten, FiresWithCommand
    DEF TrainStarts, set_motor
  <2>4. CASE TrainWaits
    BY <2>4 DEF TrainWaits, set_motor, Out
  <2>5. QED
    BY <2>1, <2>2, <2>3, <2>4 DEF TickModulates
<1>2. QED
  BY <1>1, InitTypes, NextKeepsTypes, InitBound, NextKeepsBound, PTL
  DEF Spec, PulsesFollowCommand

-----------------------------------------------------------------------------
(* The average output is the weighted command *)

\* A wheel that does not modulate has nothing in store.
RestingInv ==
  ~was_modulating =>
    accumulator = 0 /\ pulse_remaining = 0 /\ direction = 0 /\ surplus = 0

\* While the direction s stays the same, what the accumulator holds, what the
\* train under way will still give and what has been given beyond the command
\* make up one train in the direction s.
Account(s, held, left, given) ==
  /\ 0 <= s * held
  /\ s * held + left * tuning.min_pwm <= Threshold
  /\ s * held + left * tuning.min_pwm + s * given = Threshold

AverageInv ==
  /\ RestingInv
  /\ direction # 0 =>
       Account(direction, accumulator, pulse_remaining, surplus)

\* What a sign does to a sum and to a magnitude.
LEMMA SignFacts ==
  ASSUME NEW s \in {-1, 1}, NEW a \in Int, NEW b \in Int, NEW c \in Int
  PROVE  /\ s * (a - s * b) = s * a - b
         /\ s * (a + 0 - c) = s * a - s * c
         /\ s * a >= 0 => Abs(a) = s * a
<1>1. CASE s = 1
  BY <1>1 DEF Abs
<1>2. CASE s = -1
  BY <1>2 DEF Abs
<1>3. QED
  BY <1>1, <1>2

\* A command that modulates points in its direction, and its pulses are
\* written in full.
LEMMA ModulatingFacts ==
  ASSUME TypeInv, Modulates
  PROVE  /\ PulseSign * Weighted > 0 /\ PulseSign * Weighted <= tuning.min_pwm
         /\ \A s \in {-1, 1} : Out(s * tuning.min_pwm) = s * tuning.min_pwm
<1> DEFINE m == tuning.min_pwm
<1>1. Weighted \in Int /\ Abs(Weighted) <= m /\ Abs(Weighted) >= tuning.pwm_deadzone
  BY WeightedFacts DEF Modulates
<1>2. /\ m \in Nat \ {0} /\ tuning.pwm_deadzone \in Nat \ {0}
      /\ tuning.max_pwm \in Nat /\ m <= tuning.max_pwm
  BY TuningFacts, WheelAssumption DEF TypeInv
<1>3. PulseSign * Weighted > 0 /\ PulseSign * Weighted <= m
  BY <1>1, <1>2 DEF PulseSign, Abs
<1>4. tuning.pwm_deadzone <= m
  <2>1. Abs(Weighted) \in Nat
    BY <1>1, AbsFacts
  <2>2. QED
    BY <1>1, <1>2, <2>1
<1>5. ASSUME NEW s \in {-1, 1} PROVE Out(s * m) = s * m
  <2>1. s * m \in Int /\ Abs(s * m) = m /\ s * m # 0
    BY <1>2 DEF Abs
  <2>2. Clamp(s * m, tuning.max_pwm) = s * m
    BY <1>2, <2>1 DEF Clamp, Abs
  <2>3. QED
    BY <1>2, <1>4, <2>1, <2>2 DEF Out
<1>6. QED
  BY <1>3, <1>5

\* The kickstart opens the account with one train.
LEMMA KickstartAccount ==
  ASSUME TypeInv, AverageInv, ~was_modulating \/ direction = PulseSign
  PROVE  Account(PulseSign, Kickstarted, pulse_remaining, surplus)
<1>1. Threshold \in Nat /\ tuning.min_pwm \in Nat /\ PulseSign \in {-1, 1}
  BY TuningFacts, ChargeFacts
<1>2. CASE ~was_modulating
  <2>1. /\ Kickstarted = PulseSign * Threshold
        /\ pulse_remaining = 0 /\ surplus = 0
    BY <1>2 DEF Kickstarted, AverageInv, RestingInv
  <2>2. PulseSign * (PulseSign * Threshold) = Threshold
    BY <1>1
  <2>3. 0 * tuning.min_pwm = 0 /\ PulseSign * 0 = 0
    BY <1>1
  <2>4. QED
    BY <1>1, <2>1, <2>2, <2>3 DEF Account
<1>3. CASE was_modulating /\ direction = PulseSign
  <2>1. direction # 0 /\ Kickstarted = accumulator
    BY <1>1, <1>3 DEF Kickstarted
  <2>2. QED
    BY <1>3, <2>1 DEF AverageInv
<1>4. QED
  BY <1>2, <1>3

\* What a tick with the output out records, as long as the account stays
\* within one train: the bound of the history is never reached.
LEMMA RecordAccount ==
  ASSUME TypeInv, NEW s \in {-1, 1}, s = PulseSign, NEW out \in Int,
         RecordPulse(out), direction' # 0, NEW left \in Nat, NEW held \in Int,
         0 <= s * held,
         s * held + left * tuning.min_pwm <= Threshold,
         s * held + left * tuning.min_pwm + s * (surplus + out - Weighted)
           = Threshold
  PROVE  direction' = s /\ Account(s, held, left, surplus')
<1> DEFINE given == surplus + out - Weighted
           promised == left * tuning.min_pwm
<1>1. given \in Int /\ Threshold \in Nat /\ promised \in Nat
  BY TuningFacts, WeightedFacts DEF TypeInv, TypeOK
<1>2. direction' = s
  BY DEF RecordPulse
<1>3. surplus' = Clamp(given, 2 * Threshold)
  BY <1>2 DEF RecordPulse
<1>4. Clamp(given, 2 * Threshold) = given
  <2> HIDE DEF given, promised
  <2>1. 0 <= s * given /\ s * given <= Threshold
    <3>1. s * held + promised + s * given = Threshold
      BY DEF given, promised
    <3>2. s * held + promised <= Threshold
      BY DEF promised
    <3>3. s * held \in Int /\ s * given \in Int
      BY <1>1
    <3>4. QED
      BY <1>1, <3>1, <3>2, <3>3
  <2>2. QED
    BY <1>1, <2>1 DEF Clamp
<1>5. QED
  BY <1>2, <1>3, <1>4 DEF Account

LEMMA ModulatingKeepsAverage ==
  ASSUME TypeInv, AverageInv, TickModulates, UNCHANGED tuning
  PROVE  AverageInv'
<1> DEFINE s == PulseSign
           m == tuning.min_pwm
           n == tuning.pulse_ticks
           r == pulse_remaining
<1>1. was_modulating'
  BY DEF TickModulates
<1> SUFFICES ASSUME direction' # 0
             PROVE  /\ direction' = s
                    /\ Account(s, accumulator', pulse_remaining', surplus')
  <2>1. Threshold' = Threshold
    BY DEF Threshold
  <2>2. QED
    BY <1>1, <2>1 DEF AverageInv, RestingInv, Account
<1>2. /\ s \in {-1, 1} /\ m \in Nat \ {0} /\ n \in Nat \ {0} /\ r \in Nat
      /\ Threshold = n * m /\ Threshold \in Nat /\ r * m \in Nat
      /\ surplus \in Int
  BY ChargeFacts, TuningFacts DEF TypeInv, TypeOK, Threshold
<1>3. /\ Weighted \in Int /\ s * Weighted > 0 /\ s * Weighted <= m
      /\ Out(s * m) = s * m
  BY <1>2, WeightedFacts, ModulatingFacts DEF TickModulates
<1>4. PICK out \in Int : RecordPulse(out)
  BY <1>2, <1>3, ChargeFacts, MotorFacts
  DEF TickModulates, TrainContinues, TrainStarts, TrainWaits
<1>5. ~was_modulating \/ direction = s
  BY <1>4 DEF RecordPulse
<1>6. Account(s, Kickstarted, r, surplus)
  BY <1>5, KickstartAccount
<1>7. /\ Kickstarted \in Int /\ Charged = Kickstarted + Weighted
      /\ 0 <= s * Kickstarted /\ s * Kickstarted + r * m <= Threshold
      /\ s * Kickstarted + r * m + s * surplus = Threshold
  BY <1>6, ChargeFacts DEF Account, Charged
<1>8. /\ s * Charged = s * Kickstarted + s * Weighted
      /\ s * Kickstarted \in Int /\ s * Weighted \in Int
      /\ s * surplus \in Int /\ Charged \in Int
  BY <1>2, <1>3, <1>7, ChargeFacts
<1> HIDE DEF s
<1>9. s * (surplus + s * m - Weighted) = s * surplus + m - s * Weighted
  <2>1. CASE s = 1
    BY <1>2, <1>3, <2>1
  <2>2. CASE s = -1
    BY <1>2, <1>3, <2>2
  <2>3. QED
    BY <1>2, <2>1, <2>2
<1>10. CASE TrainContinues
  <2>1. /\ accumulator' = Charged /\ pulse_remaining' = r - 1
        /\ RecordPulse(s * m) /\ r - 1 \in Nat /\ s * m \in Int
    BY <1>2, <1>3, <1>10 DEF TrainContinues, s
  <2>2. (r - 1) * m = r * m - m
    BY <1>2, OneLess
  <2>3. /\ 0 <= s * Charged
        /\ s * Charged + (r - 1) * m <= Threshold
    BY <1>2, <1>3, <1>7, <1>8, <2>2
  <2>4. s * Charged + (r - 1) * m + s * (surplus + s * m - Weighted)
          = Threshold
    BY <1>2, <1>3, <1>7, <1>8, <1>9, <2>2
  <2>5. QED
    BY <1>2, <1>8, <2>1, <2>3, <2>4, RecordAccount DEF s
<1>11. CASE TrainStarts
  <2>1. r = 0 /\ r * m = 0
    BY <1>2, <1>11 DEF TrainStarts
  <2>2. s * Charged > 0 /\ FireSign = s
    BY <1>2, <1>3, <1>7, <1>8 DEF FireSign
  <2>3. /\ accumulator' = Charged - s * Threshold
        /\ pulse_remaining' = n - 1 /\ n - 1 \in Nat
        /\ RecordPulse(s * m) /\ s * m \in Int
        /\ Abs(Charged) >= Threshold
    BY <1>2, <1>3, <1>11, <2>2 DEF TrainStarts, TrainLeft, Discharged
  <2>4. (n - 1) * m = Threshold - m
    BY <1>2, OneLess
  <2>5. /\ s * (Charged - s * Threshold) = s * Charged - Threshold
        /\ Charged - s * Threshold \in Int
    BY <1>2, <1>8, SignFacts
  <2>6. s * Charged >= Threshold
    BY <1>2, <1>8, <2>2, <2>3, SignFacts
  <2>7. /\ 0 <= s * (Charged - s * Threshold)
        /\ s * (Charged - s * Threshold) + (n - 1) * m <= Threshold
    <3>1. s * Charged <= Threshold + m
      BY <1>2, <1>3, <1>7, <1>8, <2>1
    <3>2. s * Charged \in Int
      BY <1>8
    <3>3. QED
      BY <1>2, <2>4, <2>5, <2>6, <3>1, <3>2
  <2>8. s * (Charged - s * Threshold) + (n - 1) * m
          + s * (surplus + s * m - Weighted) = Threshold
    BY <1>2, <1>3, <1>7, <1>8, <1>9, <2>1, <2>4, <2>5
  <2>9. QED
    BY <1>2, <2>3, <2>5, <2>7, <2>8, RecordAccount DEF s
<1>12. CASE TrainWaits
  <2>1. /\ accumulator' = Charged /\ pulse_remaining' = r /\ r = 0
        /\ RecordPulse(0) /\ Abs(Charged) < Threshold /\ r * m = 0
    BY <1>2, <1>12 DEF TrainWaits
  <2>2. /\ 0 <= s * Charged
        /\ s * Charged + r * m <= Threshold
    <3>1. 0 <= s * Charged
      BY <1>2, <1>3, <1>7, <1>8
    <3>2. Abs(Charged) = s * Charged
      BY <1>2, <1>8, <3>1, SignFacts
    <3>3. QED
      BY <1>2, <1>8, <2>1, <3>1, <3>2
  <2>3. s * (surplus + 0 - Weighted) = s * surplus - s * Weighted
    BY <1>2, <1>3, SignFacts
  <2>4. s * Charged + r * m + s * (surplus + 0 - Weighted) = Threshold
    BY <1>2, <1>3, <1>7, <1>8, <2>1, <2>3
  <2>5. QED
    BY <1>2, <1>8, <2>1, <2>2, <2>4, RecordAccount DEF s
<1>13. QED
  BY <1>10, <1>11, <1>12 DEF TickModulates

LEMMA NextKeepsAverage == TypeInv /\ AverageInv /\ [Next]_vars => AverageInv'
<1> SUFFICES ASSUME TypeInv, AverageInv, [Next]_vars PROVE AverageInv'
  OBVIOUS
<1> USE DEF AverageInv, RestingInv
<1>1. ASSUME ClearPulses PROVE AverageInv'
  BY <1>1 DEF ClearPulses
<1>2. ASSUME NEW c \in Commands, drive(c) PROVE AverageInv'
  BY <1>2 DEF drive, pulseVars, historyVars, Account, Threshold
<1>3. CASE stop
  BY <1>1, <1>3 DEF stop
<1>4. CASE tick
  BY <1>1, <1>4, ModulatingKeepsAverage DEF tick, TickContinuous, TickIdle
<1>5. ASSUME NEW t \in Retunings, SetParameters(t) PROVE AverageInv'
  BY <1>5 DEF SetParameters, pulseVars
<1>6. CASE UNCHANGED vars
  BY <1>6 DEF vars, pulseVars, historyVars, Account, Threshold
<1>7. QED
  BY <1>2, <1>3, <1>4, <1>5, <1>6 DEF Next

LEMMA InitAverage == Init => AverageInv
BY DEF Init, AverageInv, RestingInv

\* While the direction stays the same, the output given is never behind the
\* weighted command and never more than one train ahead of it, whatever the
\* commands, their strengths and the parameters were before (tick's
\* accumulator and its kickstart).
THEOREM AverageTracks == Spec => []AverageTracksCommand
<1>1. TypeInv /\ AverageInv => AverageTracksCommand
  <2> SUFFICES ASSUME TypeInv, AverageInv, direction # 0
               PROVE  /\ direction * surplus >= 0
                      /\ direction * surplus <= Threshold
    BY DEF AverageTracksCommand
  <2> DEFINE promised == pulse_remaining * tuning.min_pwm
             held == direction * accumulator
             given == direction * surplus
  <2>1. /\ promised \in Nat /\ held \in Int /\ given \in Int
        /\ Threshold \in Nat
    BY TuningFacts DEF TypeInv, TypeOK
  <2>2. /\ 0 <= held /\ held + promised <= Threshold
        /\ held + promised + given = Threshold
    BY DEF AverageInv, Account
  <2> HIDE DEF promised, held, given
  <2>3. given >= 0 /\ given <= Threshold
    BY <2>1, <2>2
  <2>4. QED
    BY <2>3 DEF given
<1>2. QED
  BY <1>1, InitTypes, NextKeepsTypes, InitAverage, NextKeepsAverage, PTL
  DEF Spec

\* The first tick of a weak command turns the wheel: the accumulator starts
\* full, and a pulse is stronger than the deadzone (tick's kickstart).
THEOREM FirstPulse == Spec => FirstPulseAtOnce
<1>1. TypeInv /\ AverageInv /\ [Next]_vars
        => (~was_modulating /\ was_modulating' => applied' # 0)
  <2> SUFFICES ASSUME TypeInv, AverageInv, [Next]_vars,
                      ~was_modulating, was_modulating'
               PROVE  applied' # 0
    OBVIOUS
  <2>1. TickModulates
    BY DEF Next, drive, stop, tick, TickContinuous, TickIdle, ClearPulses,
           SetParameters, vars, pulseVars
  <2>2. /\ PulseSign \in {-1, 1} /\ FireSign \in {-1, 1}
        /\ tuning.min_pwm \in Nat \ {0} /\ Threshold \in Nat
        /\ Weighted \in Int
    BY ChargeFacts, TuningFacts, WeightedFacts
  <2>3. pulse_remaining = 0
    BY DEF AverageInv, RestingInv
  <2>4. Abs(Charged) >= Threshold
    <3>1. Charged = PulseSign * Threshold + Weighted
      BY DEF Charged, Kickstarted
    <3>2. PulseSign * Weighted > 0
      BY <2>1, ModulatingFacts DEF TickModulates
    <3>3. QED
      BY <2>2, <3>1, <3>2 DEF Abs
  <2>5. TrainStarts
    <3>1. Abs(Charged) \in Nat
      BY ChargeFacts, AbsFacts
    <3>2. QED
      BY <2>1, <2>2, <2>3, <2>4, <3>1
      DEF TickModulates, TrainContinues, TrainWaits
  <2>6. applied' = FireSign * tuning.min_pwm
    BY <2>1, <2>2, <2>5, ModulatingFacts
    DEF TickModulates, TrainStarts, set_motor
  <2>7. QED
    BY <2>2, <2>6
<1>2. QED
  BY <1>1, InitTypes, NextKeepsTypes, InitAverage, NextKeepsAverage, PTL
  DEF Spec, FirstPulseAtOnce
=============================================================================
