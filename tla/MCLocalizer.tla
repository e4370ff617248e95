----------------------------- MODULE MCLocalizer -----------------------------
(* Small instances of Localizer. *)
EXTENDS Localizer

At(x, y, th) == [x |-> x, y |-> y, th |-> th]
Exactly(step) == [true |-> step, odom |-> step]

Ahead == At(1, 0, 0)
LeftTurn == At(0, 0, 1)

\* Ahead, a turn, and wheels that turn on the spot.
MCSteps == {Exactly(Ahead), Exactly(LeftTurn),
            [true |-> Origin, odom |-> Ahead]}
MCStart == {At(2, 1, 2)}
MCOffset == [x |-> 1, y |-> 0]
=============================================================================
