---------------------------- MODULE MCWheelPulse ----------------------------
(* Small instances of WheelPulse. *)
EXTENDS WheelPulse

Tuned(min, ticks) ==
  [min_pwm |-> min, max_pwm |-> min + 2, pwm_deadzone |-> 1,
   pulse_ticks |-> ticks, linear_gain |-> 2, angular_gain |-> 1]

\* The linear gain is the larger one, as in the node's defaults.
Tries == {Tuned(min, ticks) : min \in 2..4, ticks \in 1..3}
Usual == {Tuned(4, 2)}
\* Weak and strong commands both ways, and one whose gains turn it round:
\* its sum is negative, its weighted sum positive.
FewPairs == {<<0, 0>>, <<2, 0>>, <<0, -1>>, <<0, -3>>, <<2, -3>>, <<3, 2>>}

Stronger == {Tuned(5, 3)}
Weaker == {Tuned(2, 2)}
=============================================================================
