---------------------------- MODULE MCDriverNode ----------------------------
(* Small instances of DriverNode. *)
EXTENDS DriverNode

Velo(lin, ang) == [lin |-> lin, ang |-> ang]

\* A stop, a creep below both thresholds (which is_zero_cmd takes for a
\* stop), a drive and a turn on the spot.
Creep == Velo(1, 0)
Ahead == Velo(2, 0)
Turn == Velo(0, 2)

FewTwists == {Zero, Ahead, Turn}
Creeps == {Zero, Creep, Ahead}

\* Below min_pwm the wheels are pulsed: on or off at any one tick.
Pulsed(t) == IF t = Creep THEN {Zero, Ahead} ELSE {t}
FewOutput == [t \in FewTwists |-> Pulsed(t)]
CreepsOutput == [t \in Creeps |-> Pulsed(t)]

Periods(odom, timeout, motor) ==
  [odom |-> odom, timeout |-> timeout, motor |-> motor]
MCPeriod == Periods(1, 1, 2)

Periodic == [enabled |-> TRUE, distance_interval |-> 3, angle_interval |-> 3,
             settle |-> 1, wait_timeout |-> 2, correction_hold |-> 1,
             rearm_zero |-> 2, cmd_timeout |-> 1,
             settle_after_rotation |-> 0]
Short == [Periodic EXCEPT !.distance_interval = 2, !.angle_interval = 2,
                          !.wait_timeout = 1, !.settle_after_rotation = 2]
Off == [Short EXCEPT !.enabled = FALSE]
Invalid == [Short EXCEPT !.wait_timeout = 0]

Launched == {Periodic}
Retuned == {Short}
Asked == {Short, Off, Invalid}
Nothing == {}
=============================================================================
