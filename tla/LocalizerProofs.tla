--------------------------- MODULE LocalizerProofs ---------------------------
(***************************************************************************)
(* Theorems about Localizer, for every way the robot may move, every       *)
(* offset of the camera and every delay the assumptions allow.             *)
(***************************************************************************)
EXTENDS Localizer, TLAPS

-----------------------------------------------------------------------------
(* The algebra of the transforms *)

\* A turn by a quarter exchanges the coordinates and one sign.
LEMMA Turns ==
  ASSUME NEW v, v.x \in Int, v.y \in Int
  PROVE  /\ TurnedX(0, v) = v.x /\ TurnedY(0, v) = v.y
         /\ TurnedX(1, v) = -v.y /\ TurnedY(1, v) = v.x
         /\ TurnedX(2, v) = -v.x /\ TurnedY(2, v) = -v.y
         /\ TurnedX(3, v) = v.y /\ TurnedY(3, v) = -v.x
<1>1. Cos(0) = 1 /\ Cos(1) = 0 /\ Cos(2) = -1 /\ Cos(3) = 0
  BY DEF Cos
<1>2. Sin(0) = 0 /\ Sin(1) = 1 /\ Sin(2) = 0 /\ Sin(3) = -1
  BY DEF Sin
<1>3. QED
  BY <1>1, <1>2 DEF TurnedX, TurnedY

LEMMA TurnType ==
  ASSUME NEW th \in Headings, NEW v, v.x \in Int, v.y \in Int
  PROVE  TurnedX(th, v) \in Int /\ TurnedY(th, v) \in Int
<1>1. th = 0 \/ th = 1 \/ th = 2 \/ th = 3
  BY DEF Headings
<1>2. QED
  BY <1>1, Turns

\* Headings add up around the circle.
LEMMA HeadingSums ==
  /\ \A m, n \in Headings : (m + n) % 4 \in Headings /\ (m - n) % 4 \in Headings
  /\ \A m, n \in Headings : (((m - n) % 4) + n) % 4 = m
  /\ \A l, m, n \in Headings : (((l + m) % 4) + n) % 4 = (l + ((m + n) % 4)) % 4
<1>1. \A m \in Headings : m = 0 \/ m = 1 \/ m = 2 \/ m = 3
  BY DEF Headings
<1>2. \A m, n \in Headings : (m + n) % 4 \in Headings /\ (m - n) % 4 \in Headings
  BY DEF Headings
<1>3. \A m, n \in Headings : (((m - n) % 4) + n) % 4 = m
  BY <1>1
<1>4. \A l, m, n \in Headings : (((l + m) % 4) + n) % 4 = (l + ((m + n) % 4)) % 4
  BY <1>1
<1>5. QED
  BY <1>2, <1>3, <1>4

LEMMA ThenType == \A a, b \in Pose : Then(a, b) \in Pose
<1> SUFFICES ASSUME NEW a \in Pose, NEW b \in Pose PROVE Then(a, b) \in Pose
  OBVIOUS
<1>1. TurnedX(a.th, b) \in Int /\ TurnedY(a.th, b) \in Int
  BY TurnType DEF Pose
<1>2. (a.th + b.th) % 4 \in Headings
  BY HeadingSums DEF Pose
<1>3. QED
  BY <1>1, <1>2 DEF Then, Pose

LEMMA MapToOdomType == \A base, o \in Pose : MapToOdom(base, o) \in Pose
<1> SUFFICES ASSUME NEW base \in Pose, NEW o \in Pose
             PROVE  MapToOdom(base, o) \in Pose
  OBVIOUS
<1>1. (base.th - o.th) % 4 \in Headings
  BY HeadingSums DEF Pose
<1>2. /\ TurnedX((base.th - o.th) % 4, o) \in Int
      /\ TurnedY((base.th - o.th) % 4, o) \in Int
  BY <1>1, TurnType DEF Pose
<1>3. QED
  BY <1>1, <1>2 DEF MapToOdom, Pose

LEMMA CameraTypes == \A p \in Pose : BaseOf(p) \in Pose /\ Seen(p) \in Pose
<1> SUFFICES ASSUME NEW p \in Pose PROVE BaseOf(p) \in Pose /\ Seen(p) \in Pose
  OBVIOUS
<1>1. TurnedX(p.th, Offset) \in Int /\ TurnedY(p.th, Offset) \in Int
  BY TurnType, LocalizerAssumption DEF Pose
<1>2. QED
  BY <1>1 DEF BaseOf, Seen, Pose

\* The base is found again under what the camera reads on it.
LEMMA BaseOfSeen == \A p \in Pose : BaseOf(Seen(p)) = p
<1> SUFFICES ASSUME NEW p \in Pose PROVE BaseOf(Seen(p)) = p
  OBVIOUS
<1>1. TurnedX(p.th, Offset) \in Int /\ TurnedY(p.th, Offset) \in Int
  BY TurnType, LocalizerAssumption DEF Pose
<1>2. QED
  BY <1>1 DEF BaseOf, Seen, Pose

\* The correction does what it is for: odometry comes out at base.
LEMMA CorrectionCorrects ==
  \A base, o \in Pose : Then(MapToOdom(base, o), o) = base
<1> SUFFICES ASSUME NEW base \in Pose, NEW o \in Pose
             PROVE  Then(MapToOdom(base, o), o) = base
  OBVIOUS
<1> DEFINE th == (base.th - o.th) % 4
<1>1. th \in Headings /\ (th + o.th) % 4 = base.th
  BY HeadingSums DEF Pose
<1>2. TurnedX(th, o) \in Int /\ TurnedY(th, o) \in Int
  BY <1>1, TurnType DEF Pose
<1>3. MapToOdom(base, o) = [x |-> base.x - TurnedX(th, o),
                            y |-> base.y - TurnedY(th, o), th |-> th]
  BY DEF MapToOdom
<1> HIDE DEF th
<1>4. QED
  BY <1>1, <1>2, <1>3 DEF Then, Pose

\* One turn after another is their sum.
LEMMA TurnTwice ==
  ASSUME NEW m \in Headings, NEW b \in Pose, NEW c \in Pose
  PROVE  /\ TurnedX(m, b) + TurnedX((m + b.th) % 4, c)
              = TurnedX(m, Then(b, c))
         /\ TurnedY(m, b) + TurnedY((m + b.th) % 4, c)
              = TurnedY(m, Then(b, c))
<1>1. ASSUME NEW n \in Headings, b.th = n
      PROVE  /\ TurnedX(m, b) + TurnedX((m + n) % 4, c)
                  = TurnedX(m, Then(b, c))
             /\ TurnedY(m, b) + TurnedY((m + n) % 4, c)
                  = TurnedY(m, Then(b, c))
  <2> DEFINE d == Then(b, c)
  <2>1. /\ b.x \in Int /\ b.y \in Int /\ c.x \in Int /\ c.y \in Int
        /\ d.x \in Int /\ d.y \in Int
    BY ThenType DEF Pose
  <2>2. d.x = b.x + TurnedX(n, c) /\ d.y = b.y + TurnedY(n, c)
    BY <1>1 DEF Then
  <2>3. /\ (0 + 0) % 4 = 0 /\ (0 + 1) % 4 = 1 /\ (0 + 2) % 4 = 2 /\ (0 + 3) % 4 = 3
        /\ (1 + 0) % 4 = 1 /\ (1 + 1) % 4 = 2 /\ (1 + 2) % 4 = 3 /\ (1 + 3) % 4 = 0
        /\ (2 + 0) % 4 = 2 /\ (2 + 1) % 4 = 3 /\ (2 + 2) % 4 = 0 /\ (2 + 3) % 4 = 1
        /\ (3 + 0) % 4 = 3 /\ (3 + 1) % 4 = 0 /\ (3 + 2) % 4 = 1 /\ (3 + 3) % 4 = 2
    OBVIOUS
  <2>4. m \in {0, 1, 2, 3} /\ n \in {0, 1, 2, 3}
    BY DEF Headings
  <2>5. CASE m = 0
    <3>1. CASE n = 0
      BY <2>1, <2>2, <2>3, <2>5, <3>1, Turns
    <3>2. CASE n = 1
      BY <2>1, <2>2, <2>3, <2>5, <3>2, Turns
    <3>3. CASE n = 2
      BY <2>1, <2>2, <2>3, <2>5, <3>3, Turns
    <3>4. CASE n = 3
      BY <2>1, <2>2, <2>3, <2>5, <3>4, Turns
    <3>5. QED
      BY <2>4, <3>1, <3>2, <3>3, <3>4
  <2>6. CASE m = 1
    <3>1. CASE n = 0
      BY <2>1, <2>2, <2>3, <2>6, <3>1, Turns
    <3>2. CASE n = 1
      BY <2>1, <2>2, <2>3, <2>6, <3>2, Turns
    <3>3. CASE n = 2
      BY <2>1, <2>2, <2>3, <2>6, <3>3, Turns
    <3>4. CASE n = 3
      BY <2>1, <2>2, <2>3, <2>6, <3>4, Turns
    <3>5. QED
      BY <2>4, <3>1, <3>2, <3>3, <3>4
  <2>7. CASE m = 2
    <3>1. CASE n = 0
      BY <2>1, <2>2, <2>3, <2>7, <3>1, Turns
    <3>2. CASE n = 1
      BY <2>1, <2>2, <2>3, <2>7, <3>2, Turns
    <3>3. CASE n = 2
      BY <2>1, <2>2, <2>3, <2>7, <3>3, Turns
    <3>4. CASE n = 3
      BY <2>1, <2>2, <2>3, <2>7, <3>4, Turns
    <3>5. QED
      BY <2>4, <3>1, <3>2, <3>3, <3>4
  <2>8. CASE m = 3
    <3>1. CASE n = 0
      BY <2>1, <2>2, <2>3, <2>8, <3>1, Turns
    <3>2. CASE n = 1
      BY <2>1, <2>2, <2>3, <2>8, <3>2, Turns
    <3>3. CASE n = 2
      BY <2>1, <2>2, <2>3, <2>8, <3>3, Turns
    <3>4. CASE n = 3
      BY <2>1, <2>2, <2>3, <2>8, <3>4, Turns
    <3>5. QED
      BY <2>4, <3>1, <3>2, <3>3, <3>4
  <2>9. QED
    BY <2>4, <2>5, <2>6, <2>7, <2>8
<1>2. QED
  BY <1>1 DEF Pose

LEMMA ThenAssociates ==
  \A a, b, c \in Pose : Then(Then(a, b), c) = Then(a, Then(b, c))
<1> SUFFICES ASSUME NEW a \in Pose, NEW b \in Pose, NEW c \in Pose
             PROVE  Then(Then(a, b), c) = Then(a, Then(b, c))
  OBVIOUS
<1> DEFINE ab == Then(a, b)
           bc == Then(b, c)
<1>1. ab \in Pose /\ bc \in Pose
  BY ThenType
<1>2. /\ ab.x = a.x + TurnedX(a.th, b) /\ ab.y = a.y + TurnedY(a.th, b)
      /\ ab.th = (a.th + b.th) % 4 /\ bc.th = (b.th + c.th) % 4
  BY DEF Then
<1> HIDE DEF ab, bc
<1>3. /\ TurnedX(a.th, b) + TurnedX(ab.th, c) = TurnedX(a.th, bc)
      /\ TurnedY(a.th, b) + TurnedY(ab.th, c) = TurnedY(a.th, bc)
  BY <1>2, TurnTwice DEF Pose, bc
<1>4. (ab.th + c.th) % 4 = (a.th + bc.th) % 4
  <2>1. a.th \in Headings /\ b.th \in Headings /\ c.th \in Headings
    BY DEF Pose
  <2>2. (((a.th + b.th) % 4) + c.th) % 4 = (a.th + ((b.th + c.th) % 4)) % 4
    <3>1. \A l, m, n \in Headings :
            (((l + m) % 4) + n) % 4 = (l + ((m + n) % 4)) % 4
      BY HeadingSums
    <3>2. QED
      BY <2>1, <3>1
  <2>3. QED
    BY <1>1, <1>2, <2>1, <2>2 DEF Pose, Headings
<1>5. /\ TurnedX(a.th, b) \in Int /\ TurnedX(ab.th, c) \in Int
      /\ TurnedY(a.th, b) \in Int /\ TurnedY(ab.th, c) \in Int
      /\ a.x \in Int /\ a.y \in Int
  BY <1>1, TurnType DEF Pose
<1>6. /\ ab.x + TurnedX(ab.th, c) = a.x + TurnedX(a.th, bc)
      /\ ab.y + TurnedY(ab.th, c) = a.y + TurnedY(a.th, bc)
  BY <1>2, <1>3, <1>5
<1>7. Then(ab, c) = Then(a, bc)
  BY <1>4, <1>6 DEF Then
<1>8. QED
  BY <1>7 DEF ab, bc

-----------------------------------------------------------------------------
(* The invariant *)

\* How old things under way can be: a frame waits for its stamp for MaxLag at
\* most, and what is published is lost MaxDelay after its stamp.
AgesBounded ==
  /\ \A f \in frames : f.age <= MaxLag
  /\ \A i \in images : i.stamp_age <= MaxDelay /\ i.age <= i.stamp_age + MaxLag
  /\ \A p \in poses : p.stamp_age <= MaxDelay /\ p.age <= p.stamp_age + MaxLag

\* The robot rests while its driver holds it.
HeldAtRest ==
  /\ mode = "settling" => rest_age = LongAgo \/ mode_age <= rest_age
  /\ mode = "waiting" => rest_age = LongAgo \/ mode_age + Settle <= rest_age

\* Pictures stay in the order they were taken in, from the camera to the
\* driver.
InOrder ==
  /\ \A f \in frames, i \in images : f.age <= i.age
  /\ \A f \in frames, p \in poses : f.age <= p.age
  /\ \A i \in images, p \in poses : i.age <= p.age

\* A picture younger than the rest shows the robot where it is, and was
\* stamped with the odometry of now.
SeenAtRest ==
  /\ \A f \in frames : f.age < rest_age => f.seen = Seen(truth)
  /\ \A i \in images : i.age < rest_age => i.seen = Seen(truth) /\ i.odom = odom

\* A pose of a robot at rest has put it on the map where it is, and the
\* pictures behind it can only do the same.
CorrectedAtRest == (\E p \in poses : p.age < rest_age) => Estimate = truth

\* Since a pause ended in a correction, odometry leads from where a picture
\* was taken to where the robot is.
ExactPictures ==
  exact =>
    /\ Estimate = truth
    /\ \A i \in images :
         i.still => Then(MapToOdom(BaseOf(i.seen), i.odom), odom) = truth

FixInv ==
  /\ TypeOK
  /\ AgesBounded
  /\ HeldAtRest
  /\ InOrder
  /\ SeenAtRest
  /\ CorrectedAtRest
  /\ HandoverFits => ExactPictures

LEMMA FixInvPrimed ==
  FixInv' <=> /\ TypeOK' /\ AgesBounded' /\ HeldAtRest' /\ InOrder'
              /\ SeenAtRest' /\ CorrectedAtRest'
              /\ (HandoverFits => ExactPictures)'
BY DEF FixInv

LEMMA Constants ==
  /\ Settle \in Nat /\ WaitTimeout \in Nat /\ MaxLag \in Nat
  /\ MaxDelay \in Nat /\ MaxSteps \in Nat
  /\ LongAgo \in Nat /\ LongAgo = MaxLag + MaxDelay + 1
BY LocalizerAssumption DEF LongAgo

LEMMA OriginType == Origin \in Pose
BY DEF Origin, Pose, Headings

\* What the variables' types say of what is under way.
LEMMA UnderWayTypes ==
  ASSUME TypeOK
  PROVE  /\ \A f \in frames : f.age \in Nat /\ f.seen \in Pose
         /\ \A i \in images : /\ i.age \in Nat /\ i.stamp_age \in Nat
                              /\ i.seen \in Pose /\ i.odom \in Pose
         /\ \A p \in poses : p.age \in Nat /\ p.stamp_age \in Nat
         /\ rest_age \in Nat /\ rest_age <= LongAgo /\ mode_age \in Nat
BY Constants DEF TypeOK, Frame, Image, PoseStamped

\* A picture of where the robot is, stamped with the odometry of now,
\* corrects the map to where the robot is.
LEMMA PictureCorrects ==
  ASSUME TypeOK, NEW i, i.seen = Seen(truth), i.odom = odom
  PROVE  Then(MapToOdom(BaseOf(i.seen), i.odom), odom) = truth
BY BaseOfSeen, CorrectionCorrects DEF TypeOK

\* An image and a pose grow older and stay what they are.
LEMMA Aging ==
  ASSUME NEW age \in Nat, NEW stamp_age \in Nat
  PROVE  /\ \A i \in Image :
              [i EXCEPT !.age = age, !.stamp_age = stamp_age] \in Image
         /\ \A p \in PoseStamped :
              [p EXCEPT !.age = age, !.stamp_age = stamp_age] \in PoseStamped
BY DEF Image, PoseStamped

-----------------------------------------------------------------------------
(* One lemma per action that disturbs more than one part *)

LEMMA TickKeepsFix == FixInv /\ Tick => FixInv'
<1> SUFFICES ASSUME FixInv, Tick PROVE FixInv'
  OBVIOUS
<1> USE Constants
<1>1. /\ rest_age' = IF rest_age < LongAgo THEN rest_age + 1 ELSE rest_age
      /\ rest_age' \in 0..LongAgo
      /\ mode_age' \in {mode_age, mode_age + 1}
      /\ mode_age' \in Nat /\ tf_age' \in Nat
  <2>1. /\ rest_age' = Older(rest_age, LongAgo)
        /\ mode_age' = Older(mode_age, Settle + WaitTimeout)
        /\ tf_age' = Older(tf_age, MaxDelay + 1)
    BY DEF Tick
  <2>2. rest_age \in 0..LongAgo /\ mode_age \in Nat /\ tf_age \in Nat
    BY DEF FixInv, TypeOK
  <2>3. QED
    BY <2>1, <2>2 DEF Older
<1>2. UNCHANGED <<truth, odom, steps, mode, last_reading, cached_map_to_odom,
                  exact>>
  BY DEF Tick
<1>3. \A f \in frames' : \E g \in frames :
        g.age < MaxLag /\ f = [g EXCEPT !.age = g.age + 1]
  BY DEF Tick
<1>4. \A i \in images' : \E j \in images :
        /\ j.stamp_age < MaxDelay
        /\ i = [j EXCEPT !.age = j.age + 1, !.stamp_age = j.stamp_age + 1]
  BY DEF Tick
<1>5. \A p \in poses' : \E q \in poses :
        /\ q.stamp_age < MaxDelay
        /\ p = [q EXCEPT !.age = q.age + 1, !.stamp_age = q.stamp_age + 1]
  BY DEF Tick
<1>6. \A f \in frames' : \E g \in frames :
        /\ f \in Frame /\ g.age < MaxLag
        /\ f.age = g.age + 1 /\ f.seen = g.seen
  BY <1>3 DEF FixInv, TypeOK, Frame
<1>7. \A i \in images' : \E j \in images :
        /\ i \in Image /\ j.stamp_age < MaxDelay
        /\ i.age = j.age + 1 /\ i.stamp_age = j.stamp_age + 1
        /\ i.seen = j.seen /\ i.odom = j.odom /\ i.still = j.still
  <2>1. ASSUME NEW i, NEW j \in Image,
               i = [j EXCEPT !.age = j.age + 1, !.stamp_age = j.stamp_age + 1]
        PROVE  /\ i \in Image
               /\ i.age = j.age + 1 /\ i.stamp_age = j.stamp_age + 1
               /\ i.seen = j.seen /\ i.odom = j.odom /\ i.still = j.still
    <3>1. j.age + 1 \in Nat /\ j.stamp_age + 1 \in Nat
      BY DEF Image
    <3>2. i \in Image
      BY <2>1, <3>1, Aging
    <3>3. QED
      BY <2>1, <3>2 DEF Image
  <2>2. images \subseteq Image
    BY DEF FixInv, TypeOK
  <2>3. QED
    BY <1>4, <2>1, <2>2
<1>8. \A p \in poses' : \E q \in poses :
        /\ p \in PoseStamped /\ q.stamp_age < MaxDelay
        /\ p.age = q.age + 1 /\ p.stamp_age = q.stamp_age + 1
  <2>1. ASSUME NEW p, NEW q \in PoseStamped,
               p = [q EXCEPT !.age = q.age + 1, !.stamp_age = q.stamp_age + 1]
        PROVE  /\ p \in PoseStamped
               /\ p.age = q.age + 1 /\ p.stamp_age = q.stamp_age + 1
    <3>1. q.age + 1 \in Nat /\ q.stamp_age + 1 \in Nat
      BY DEF PoseStamped
    <3>2. p \in PoseStamped
      BY <2>1, <3>1, Aging
    <3>3. QED
      BY <2>1, <3>2 DEF PoseStamped
  <2>2. poses \subseteq PoseStamped
    BY DEF FixInv, TypeOK
  <2>3. QED
    BY <1>5, <2>1, <2>2
<1>9. TypeOK'
  BY <1>1, <1>2, <1>6, <1>7, <1>8 DEF FixInv, TypeOK
<1>10. AgesBounded'
  BY <1>6, <1>7, <1>8, UnderWayTypes DEF FixInv, AgesBounded
<1>11. HeldAtRest'
  BY <1>1, <1>2, UnderWayTypes DEF FixInv, HeldAtRest
<1>12. InOrder'
  BY <1>6, <1>7, <1>8, UnderWayTypes DEF FixInv, InOrder
<1>13. SeenAtRest'
  <2>1. \A f \in frames' : f.age < rest_age' => f.seen = Seen(truth)
    BY <1>1, <1>6, UnderWayTypes DEF FixInv, SeenAtRest, AgesBounded
  <2>2. \A i \in images' :
          i.age < rest_age' => i.seen = Seen(truth) /\ i.odom = odom
    BY <1>1, <1>7, UnderWayTypes DEF FixInv, SeenAtRest, AgesBounded
  <2>3. Seen(truth)' = Seen(truth)
    BY <1>2 DEF Seen
  <2>4. QED
    BY <1>2, <2>1, <2>2, <2>3 DEF SeenAtRest
<1>14. CorrectedAtRest'
  <2>1. (\E p \in poses' : p.age < rest_age') => \E p \in poses : p.age < rest_age
    BY <1>1, <1>8, UnderWayTypes DEF FixInv, AgesBounded
  <2>2. QED
    BY <1>2, <2>1 DEF FixInv, CorrectedAtRest, Estimate
<1>15. (HandoverFits => ExactPictures)'
  BY <1>2, <1>7 DEF FixInv, HandoverFits, ExactPictures, Estimate
<1>16. QED
  BY <1>9, <1>10, <1>11, <1>12, <1>13, <1>14, <1>15, FixInvPrimed

\* Odometry that does not slip moves the estimate with the robot.
LEMMA MovesKeepsFix ==
  ASSUME FixInv, NEW step \in Steps, Moves(step)
  PROVE  FixInv'
<1> USE Constants
<1>1. step.true \in Pose /\ step.odom \in Pose
  BY LocalizerAssumption
<1>2. /\ truth' = Then(truth, step.true) /\ odom' = Then(odom, step.odom)
      /\ rest_age' = 0 /\ mode' = mode /\ mode = "drive"
      /\ exact' = (exact /\ ~Slips(step))
      /\ UNCHANGED <<mode_age, frames, images, nodeVars, poses>>
  BY DEF Moves, driverVars
<1> USE DEF nodeVars
<1>3. TypeOK'
  BY <1>1, <1>2, ThenType DEF FixInv, TypeOK, Moves
<1>4. AgesBounded' /\ HeldAtRest' /\ InOrder'
  BY <1>2 DEF FixInv, AgesBounded, HeldAtRest, InOrder
<1>5. SeenAtRest' /\ CorrectedAtRest'
  BY <1>2, UnderWayTypes DEF FixInv, SeenAtRest, CorrectedAtRest
<1>6. (HandoverFits => ExactPictures)'
  <2> SUFFICES ASSUME HandoverFits, exact' PROVE ExactPictures'
    BY DEF HandoverFits, ExactPictures
  <2>1. exact /\ step.true = step.odom /\ ExactPictures
    BY <1>2 DEF Slips, FixInv
  <2>2. ASSUME NEW m \in Pose, Then(m, odom) = truth
        PROVE  Then(m, odom') = truth'
    <3>1. Then(Then(m, odom), step.odom) = Then(m, Then(odom, step.odom))
      BY <1>1, ThenAssociates DEF FixInv, TypeOK
    <3>2. QED
      BY <1>2, <2>1, <2>2, <3>1
  <2>3. Estimate' = truth'
    BY <1>2, <2>1, <2>2 DEF FixInv, TypeOK, ExactPictures, Estimate
  <2>4. ASSUME NEW i \in images, i.still
        PROVE  Then(MapToOdom(BaseOf(i.seen), i.odom), odom') = truth'
    <3>1. MapToOdom(BaseOf(i.seen), i.odom) \in Pose
      BY CameraTypes, MapToOdomType, UnderWayTypes DEF FixInv
    <3>2. QED
      BY <2>1, <2>2, <2>4, <3>1 DEF ExactPictures
  <2>5. QED
    BY <1>2, <2>3, <2>4 DEF ExactPictures
<1>7. QED
  BY <1>3, <1>4, <1>5, <1>6, FixInvPrimed

\* The pose that ends a pause was read from a picture taken after the stop.
LEMMA PoseTakenAtRest ==
  ASSUME FixInv, HandoverFits, NEW p \in poses, TakesPose(p)
  PROVE  p.age < rest_age
<1>1. mode = "waiting" /\ p.stamp_age <= mode_age
  BY DEF TakesPose, DriverIn, StampedInWait
<1>2. p.age <= p.stamp_age + MaxLag /\ p.stamp_age <= MaxDelay
  BY DEF FixInv, AgesBounded
<1>3. rest_age = LongAgo \/ mode_age + Settle <= rest_age
  BY <1>1 DEF FixInv, HeldAtRest
<1>4. QED
  BY <1>1, <1>2, <1>3, Constants, UnderWayTypes DEF HandoverFits, FixInv

LEMMA TakesPoseKeepsFix ==
  ASSUME FixInv, NEW p \in poses, TakesPose(p)
  PROVE  FixInv'
<1>1. /\ mode' = "drive" /\ mode_age' = 0 /\ poses' = poses \ {p}
      /\ exact' = TRUE
      /\ UNCHANGED <<robotVars, frames, images, nodeVars>>
  BY DEF TakesPose, DriverIn
<1> USE DEF robotVars, nodeVars
<1>2. TypeOK'
  BY <1>1 DEF FixInv, TypeOK
<1>3. AgesBounded' /\ HeldAtRest' /\ InOrder'
  BY <1>1 DEF FixInv, AgesBounded, HeldAtRest, InOrder
<1>4. SeenAtRest' /\ CorrectedAtRest'
  BY <1>1 DEF FixInv, SeenAtRest, CorrectedAtRest, Estimate, Seen
<1>5. (HandoverFits => ExactPictures)'
  <2> SUFFICES ASSUME HandoverFits PROVE ExactPictures'
    BY DEF HandoverFits
  <2>1. p.age < rest_age
    BY PoseTakenAtRest
  <2>2. Estimate = truth
    BY <2>1 DEF FixInv, CorrectedAtRest
  <2>3. ASSUME NEW i \in images
        PROVE  Then(MapToOdom(BaseOf(i.seen), i.odom), odom) = truth
    <3>1. i.age < rest_age
      BY <2>1, UnderWayTypes DEF FixInv, InOrder
    <3>2. QED
      BY <3>1, PictureCorrects DEF FixInv, SeenAtRest
  <2>4. QED
    BY <1>1, <2>2, <2>3 DEF ExactPictures, Estimate
<1>6. QED
  BY <1>2, <1>3, <1>4, <1>5, FixInvPrimed

LEMMA ExposesKeepsFix == FixInv /\ Exposes => FixInv'
<1> SUFFICES ASSUME FixInv, Exposes PROVE FixInv'
  OBVIOUS
<1> DEFINE new == [seen |-> Seen(truth), age |-> 0]
<1>1. /\ frames' = frames \cup {new}
      /\ UNCHANGED <<robotVars, driverVars, images, nodeVars, poses, exact>>
  BY DEF Exposes
<1>2. new \in Frame /\ new.age = 0 /\ new.seen = Seen(truth)
  BY CameraTypes DEF Frame, FixInv, TypeOK
<1> HIDE DEF new
<1> USE Constants DEF robotVars, driverVars, nodeVars
<1>3. TypeOK'
  BY <1>1, <1>2 DEF FixInv, TypeOK
<1>4. AgesBounded' /\ HeldAtRest'
  BY <1>1, <1>2 DEF FixInv, AgesBounded, HeldAtRest
<1>5. InOrder'
  BY <1>1, <1>2, UnderWayTypes DEF FixInv, InOrder
<1>6. SeenAtRest' /\ CorrectedAtRest' /\ (HandoverFits => ExactPictures)'
  BY <1>1, <1>2
  DEF FixInv, SeenAtRest, CorrectedAtRest, ExactPictures, HandoverFits,
      Estimate, Seen
<1>7. QED
  BY <1>3, <1>4, <1>5, <1>6, FixInvPrimed

LEMMA StampsKeepsFix ==
  ASSUME FixInv, NEW f \in frames, Stamps(f)
  PROVE  FixInv'
<1> DEFINE new == [seen |-> f.seen, odom |-> odom, age |-> f.age,
                   stamp_age |-> 0, still |-> f.age < rest_age]
<1>1. /\ frames' = {g \in frames : g.age < f.age}
      /\ images' \subseteq images \cup {new}
      /\ UNCHANGED <<robotVars, driverVars, nodeVars, poses, exact>>
  BY DEF Stamps
<1>2. /\ new \in Image /\ new.seen = f.seen /\ new.odom = odom
      /\ new.age = f.age /\ new.stamp_age = 0
      /\ new.still = (f.age < rest_age)
  BY UnderWayTypes DEF Image, FixInv, TypeOK
<1> HIDE DEF new
<1> USE Constants DEF robotVars, driverVars, nodeVars
<1>3. TypeOK'
  BY <1>1, <1>2 DEF FixInv, TypeOK
<1>4. AgesBounded' /\ HeldAtRest'
  BY <1>1, <1>2, UnderWayTypes DEF FixInv, AgesBounded, HeldAtRest
<1>5. InOrder'
  BY <1>1, <1>2, UnderWayTypes DEF FixInv, InOrder
<1>6. SeenAtRest' /\ CorrectedAtRest'
  BY <1>1, <1>2 DEF FixInv, SeenAtRest, CorrectedAtRest, Estimate, Seen
<1>7. (HandoverFits => ExactPictures)'
  <2> SUFFICES ASSUME HandoverFits, exact PROVE ExactPictures'
    BY <1>1 DEF HandoverFits, ExactPictures
  <2>1. new.still => Then(MapToOdom(BaseOf(new.seen), new.odom), odom) = truth
    BY <1>2, PictureCorrects DEF FixInv, SeenAtRest
  <2>2. QED
    BY <1>1, <2>1 DEF FixInv, ExactPictures, Estimate
<1>8. QED
  BY <1>3, <1>4, <1>5, <1>6, <1>7, FixInvPrimed

LEMMA CorrectsKeepsFix ==
  ASSUME FixInv, NEW i \in images, Corrects(i)
  PROVE  FixInv'
<1> DEFINE new == [age |-> i.age, stamp_age |-> i.stamp_age]
<1>1. /\ \A j \in images : j.age <= i.age
      /\ images' = images \ {i} /\ poses' = poses \cup {new}
      /\ last_reading' = i.seen
      /\ cached_map_to_odom' = MapToOdom(BaseOf(i.seen), i.odom)
      /\ exact' = (exact /\ i.still)
      /\ UNCHANGED <<robotVars, driverVars, frames, tf_age>>
  BY DEF Corrects, Oldest, OdomAtStamp
<1>2. /\ new \in PoseStamped
      /\ new.age = i.age /\ new.stamp_age = i.stamp_age
  BY UnderWayTypes DEF PoseStamped, FixInv
<1> HIDE DEF new
<1> USE DEF robotVars, driverVars
<1>3. TypeOK'
  <2>1. MapToOdom(BaseOf(i.seen), i.odom) \in Pose /\ i.seen \in Pose
    BY UnderWayTypes, CameraTypes, MapToOdomType DEF FixInv
  <2>2. i.still \in BOOLEAN
    BY DEF FixInv, TypeOK, Image
  <2>3. QED
    BY <1>1, <1>2, <2>1, <2>2 DEF FixInv, TypeOK
<1>4. AgesBounded' /\ HeldAtRest'
  BY <1>1, <1>2 DEF FixInv, AgesBounded, HeldAtRest
<1>5. InOrder'
  BY <1>1, <1>2 DEF FixInv, InOrder
<1>6. SeenAtRest'
  BY <1>1 DEF FixInv, SeenAtRest, Seen
<1>7. CorrectedAtRest'
  <2> SUFFICES ASSUME NEW p \in poses', p.age < rest_age
               PROVE  Estimate' = truth
    BY <1>1 DEF CorrectedAtRest
  <2>1. i.age < rest_age
    BY <1>1, <1>2, UnderWayTypes DEF FixInv, InOrder
  <2>2. QED
    BY <1>1, <2>1, PictureCorrects DEF FixInv, SeenAtRest, Estimate
<1>8. (HandoverFits => ExactPictures)'
  BY <1>1 DEF FixInv, HandoverFits, ExactPictures, Estimate
<1>9. QED
  BY <1>3, <1>4, <1>5, <1>6, <1>7, <1>8, FixInvPrimed

\* The driver's other steps change its mode and nothing else.
LEMMA ModeKeepsFix ==
  ASSUME FixInv, mode' \in {"drive", "settling", "waiting"}, mode_age' \in Nat,
         HeldAtRest', UNCHANGED <<robotVars, frames, images, nodeVars, poses, exact>>
  PROVE  FixInv'
<1> USE DEF robotVars, nodeVars
<1>1. TypeOK'
  BY DEF FixInv, TypeOK
<1>2. AgesBounded' /\ InOrder' /\ SeenAtRest' /\ CorrectedAtRest'
  BY DEF FixInv, AgesBounded, InOrder, SeenAtRest, CorrectedAtRest, Estimate,
         Seen
<1>3. (HandoverFits => ExactPictures)'
  BY DEF FixInv, HandoverFits, ExactPictures, Estimate
<1>4. QED
  BY <1>1, <1>2, <1>3, FixInvPrimed

\* What is lost, or not used, is missed by nobody.
LEMMA LossKeepsFix ==
  ASSUME FixInv, images' \subseteq images, poses' \subseteq poses,
         last_reading' \in Pose, tf_age' \in Nat,
         UNCHANGED <<robotVars, driverVars, frames, cached_map_to_odom, exact>>
  PROVE  FixInv'
<1> USE DEF robotVars, driverVars
<1>1. TypeOK'
  BY DEF FixInv, TypeOK
<1>2. AgesBounded' /\ HeldAtRest' /\ InOrder' /\ SeenAtRest'
  BY DEF FixInv, AgesBounded, HeldAtRest, InOrder, SeenAtRest, Seen
<1>3. CorrectedAtRest' /\ (HandoverFits => ExactPictures)'
  BY DEF FixInv, CorrectedAtRest, HandoverFits, ExactPictures, Estimate
<1>4. QED
  BY <1>1, <1>2, <1>3, FixInvPrimed

LEMMA InitFix == Init => FixInv
<1> SUFFICES ASSUME Init PROVE FixInv
  OBVIOUS
<1>1. TypeOK
  <2>1. truth \in Pose
    BY LocalizerAssumption DEF Init
  <2>2. 0 \in 0..MaxSteps /\ LongAgo \in 0..LongAgo
    BY Constants
  <2>3. QED
    BY <2>1, <2>2, OriginType DEF Init, TypeOK
<1>2. /\ AgesBounded /\ HeldAtRest /\ InOrder /\ SeenAtRest
      /\ CorrectedAtRest /\ ExactPictures
  BY DEF Init, AgesBounded, HeldAtRest, InOrder, SeenAtRest, CorrectedAtRest,
         ExactPictures
<1>3. QED
  BY <1>1, <1>2 DEF FixInv

LEMMA NextKeepsFix == FixInv /\ [Next]_vars => FixInv'
<1> SUFFICES ASSUME FixInv, [Next]_vars PROVE FixInv'
  OBVIOUS
<1> USE DEF robotVars, driverVars, nodeVars
<1>1. CASE Tick
  BY <1>1, TickKeepsFix
<1>2. ASSUME NEW step \in Steps, Moves(step) PROVE FixInv'
  BY <1>2, MovesKeepsFix
<1>3. CASE StopsForCorrection
  <2>1. HeldAtRest'
    BY <1>3, UnderWayTypes
    DEF StopsForCorrection, DriverIn, FixInv, HeldAtRest
  <2>2. QED
    BY <1>3, <2>1, ModeKeepsFix DEF StopsForCorrection, DriverIn
<1>4. CASE StartsWaiting
  <2>1. HeldAtRest'
    BY <1>4, UnderWayTypes, Constants
    DEF StartsWaiting, DriverIn, FixInv, HeldAtRest
  <2>2. QED
    BY <1>4, <2>1, ModeKeepsFix DEF StartsWaiting, DriverIn
<1>5. ASSUME NEW p \in poses, TakesPose(p) PROVE FixInv'
  BY <1>5, TakesPoseKeepsFix
<1>6. ASSUME NEW p \in poses, PassesOver(p) PROVE FixInv'
  BY <1>6, LossKeepsFix DEF PassesOver, FixInv, TypeOK
<1>7. CASE GivesUp
  <2>1. HeldAtRest'
    BY <1>7 DEF GivesUp, DriverIn, HeldAtRest
  <2>2. QED
    BY <1>7, <2>1, ModeKeepsFix DEF GivesUp, DriverIn
<1>8. CASE Exposes
  BY <1>8, ExposesKeepsFix
<1>9. ASSUME NEW f \in frames, Stamps(f) PROVE FixInv'
  BY <1>9, StampsKeepsFix
<1>10. ASSUME NEW i \in images, DropsImage(i) PROVE FixInv'
  <2>1. last_reading' \in Pose
    BY <1>10, UnderWayTypes DEF DropsImage, FixInv, TypeOK
  <2>2. QED
    BY <1>10, <2>1, LossKeepsFix DEF DropsImage, FixInv, TypeOK
<1>11. ASSUME NEW i \in images, Corrects(i) PROVE FixInv'
  BY <1>11, CorrectsKeepsFix
<1>12. CASE Republishes
  BY <1>12, LossKeepsFix DEF Republishes, Cached, FixInv, TypeOK
<1>13. ASSUME NEW age \in 0..MaxDelay, ReceivesOdometry(age) PROVE FixInv'
  BY <1>13, LossKeepsFix, Constants DEF ReceivesOdometry, FixInv, TypeOK
<1>14. CASE UNCHANGED vars
  BY <1>14, LossKeepsFix DEF vars, FixInv, TypeOK
<1>15. QED
  BY <1>1, <1>2, <1>3, <1>4, <1>5, <1>6, <1>7, <1>8, <1>9, <1>10, <1>11,
     <1>12, <1>13, <1>14
  DEF Next

LEMMA FixHolds == Spec => []FixInv
BY InitFix, NextKeepsFix, PTL DEF Spec

-----------------------------------------------------------------------------
(* The theorems *)

\* Poses, transforms and ages keep their types, whatever is lost or late.
THEOREM TypeCorrect == Spec => []TypeOK
BY FixHolds, PTL DEF FixInv

\* A pause that ends in a correction puts the robot on the map where it is,
\* and the map stays right as far as odometry does: for every offset of the
\* camera, every motion in quarter turns and every delay, as long as a frame
\* is handed over in less than the settle time (update_map_to_odom).
THEOREM FixExact == Spec => []PauseFixIsExact
<1>1. FixInv => PauseFixIsExact
  BY DEF FixInv, ExactPictures, PauseFixIsExact
<1>2. QED
  BY <1>1, FixHolds, PTL

\* The pose that ends a pause was read from a picture of a robot at rest,
\* although only the stamp, which is later, is compared (on_pose).
THEOREM RestPictured == Spec => PictureTakenAtRest
<1>1. FixInv /\ [Next]_vars
        => \A p \in poses : HandoverFits /\ TakesPose(p) => p.age < rest_age
  BY PoseTakenAtRest
<1>2. QED
  BY <1>1, FixHolds, PTL DEF Spec, PictureTakenAtRest
=============================================================================
