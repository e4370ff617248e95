------------------------------ MODULE Localizer ------------------------------
(***************************************************************************)
(* lcode_localizer_node between the camera and the driver: it reads the    *)
(* robot's pose from an image, corrects the map->odom transform with it,   *)
(* and publishes the pose with the stamp of the image.  The stamp is the   *)
(* time of publication in camera_node2, not of exposure.                   *)
(*                                                                         *)
(* The plane has whole coordinates and headings in quarter turns, so that  *)
(* the transforms are exact.  Times are ages, as in PauseController.  The  *)
(* driver is reduced to what DriverNode shows of it: it moves only in      *)
(* "drive" and waits for a pose only after Settle at rest.  The holds that *)
(* follow a pose or a timeout are left out.                                *)
(***************************************************************************)
EXTENDS Integers, FiniteSets

CONSTANTS
  Start,        \* poses the robot may start from
  Steps,        \* how it may move: [true, odom], in its own frame
  Offset,       \* cam_offset_x, cam_offset_y: the camera in that frame
  Settle,       \* time at rest before the driver waits for a pose
  WaitTimeout,  \* how long it waits
  MaxLag,       \* from the exposure of a frame to its stamp, at most
  MaxDelay,     \* bound: images and poses with an older stamp are lost
  MaxQueue,     \* bound: images, and poses, under way at a time
  MaxSteps      \* bound: moves in a run

Headings == 0..3
Pose == [x : Int, y : Int, th : Headings]
Origin == [x |-> 0, y |-> 0, th |-> 0]

ASSUME LocalizerAssumption ==
  /\ Start \subseteq Pose
  /\ Steps \subseteq [true : Pose, odom : Pose]
  /\ Offset \in [x : Int, y : Int]
  /\ Settle \in Nat /\ WaitTimeout \in Nat /\ MaxLag \in Nat
  /\ MaxDelay \in Nat /\ MaxQueue \in Nat /\ MaxSteps \in Nat

-----------------------------------------------------------------------------
(* Transforms *)

\* v turned by th, by the cosine and sine of a quarter turn.
Cos(th) == CASE th = 0 -> 1 [] th = 2 -> -1 [] OTHER -> 0
Sin(th) == CASE th = 1 -> 1 [] th = 3 -> -1 [] OTHER -> 0
TurnedX(th, v) == Cos(th) * v.x - Sin(th) * v.y
TurnedY(th, v) == Sin(th) * v.x + Cos(th) * v.y

\* Mistake: the heading is not brought back to one turn.
ThenUnwrapped(a, b) ==
  [x |-> a.x + TurnedX(a.th, b), y |-> a.y + TurnedY(a.th, b),
   th |-> a.th + b.th]

\* The pose b, given in the frame a, in the frame a is given in.
Then(a, b) == [x |-> a.x + TurnedX(a.th, b), y |-> a.y + TurnedY(a.th, b),
               th |-> (a.th + b.th) % 4]

\* Mistake: the offset is not turned with the robot.
BaseUnturned(seen) ==
  [x |-> seen.x - Offset.x, y |-> seen.y - Offset.y, th |-> seen.th]

\* base_link, for a camera that reads seen.
BaseOf(seen) ==
  [x |-> seen.x - TurnedX(seen.th, Offset),
   y |-> seen.y - TurnedY(seen.th, Offset), th |-> seen.th]

\* The correction that makes odom come out at base.
MapToOdom(base, odom) ==
  LET delta_th == (base.th - odom.th) % 4
  IN  [x |-> base.x - TurnedX(delta_th, odom),
       y |-> base.y - TurnedY(delta_th, odom), th |-> delta_th]

\* What the camera reads on a robot at p.
Seen(p) ==
  [x |-> p.x + TurnedX(p.th, Offset), y |-> p.y + TurnedY(p.th, Offset),
   th |-> p.th]

-----------------------------------------------------------------------------
VARIABLES
  truth,               \* where the robot is
  odom,                \* odom->base_link, as the driver publishes it
  steps,               \* counts the moves
  mode,                \* the driver: "drive", "settling" or "waiting"
  mode_age,            \* for how long, up to what it is compared with
  frames,              \* frames exposed and not yet stamped
  images,              \* images on their way to the localizer
  tf_age,              \* age of the newest odom->base_link it has received
  last_reading,        \* last_x, last_y, last_th
  cached_map_to_odom,  \* cached_map_to_odom_
  poses                \* poses on their way to the driver

\* History, read by the properties only.
VARIABLES
  rest_age,            \* time since the robot last moved, up to a bound
  exact                \* a pause has ended in a correction, and since then
                       \* odometry has not slipped, nor the map been
                       \* corrected from a picture stamped after a move

robotVars == <<truth, odom, steps, rest_age>>
driverVars == <<mode, mode_age>>
nodeVars == <<tf_age, last_reading, cached_map_to_odom>>
vars == <<robotVars, driverVars, frames, images, nodeVars, poses, exact>>

LongAgo == MaxLag + MaxDelay + 1
Older(age, bound) == IF age < bound THEN age + 1 ELSE age

Frame == [seen : Pose, age : Nat]
\* odom is what the transform at the stamp says; still, history: the robot
\* rested from exposure to stamp.
Image ==
  [seen : Pose, odom : Pose, age : Nat, stamp_age : Nat, still : BOOLEAN]
PoseStamped == [age : Nat, stamp_age : Nat]

TypeOK ==
  /\ truth \in Pose
  /\ odom \in Pose
  /\ steps \in 0..MaxSteps
  /\ rest_age \in 0..LongAgo
  /\ mode \in {"drive", "settling", "waiting"}
  /\ mode_age \in Nat
  /\ frames \subseteq Frame
  /\ images \subseteq Image
  /\ tf_age \in Nat
  /\ last_reading \in Pose
  /\ cached_map_to_odom \in Pose
  /\ poses \subseteq PoseStamped
  /\ exact \in BOOLEAN

\* Before the first reading the map is taken to be odom's frame.
Init ==
  /\ truth \in Start
  /\ odom = Origin
  /\ steps = 0
  /\ rest_age = LongAgo
  /\ mode = "drive"
  /\ mode_age = 0
  /\ frames = {}
  /\ images = {}
  /\ tf_age = 0
  /\ last_reading = Origin
  /\ cached_map_to_odom = Origin
  /\ poses = {}
  /\ exact = FALSE

-----------------------------------------------------------------------------
(* The robot and its driver *)

Slips(step) == step.true # step.odom

Moves(step) ==
  /\ mode = "drive"
  /\ steps < MaxSteps
  /\ steps' = steps + 1
  /\ truth' = Then(truth, step.true)
  /\ odom' = Then(odom, step.odom)
  /\ rest_age' = 0
  /\ exact' = (exact /\ ~Slips(step))
  /\ UNCHANGED <<driverVars, frames, images, nodeVars, poses>>

DriverIn(from, to) == mode = from /\ mode' = to /\ mode_age' = 0

StopsForCorrection ==
  /\ DriverIn("drive", "settling")
  /\ UNCHANGED <<robotVars, frames, images, nodeVars, poses, exact>>

StartsWaiting ==
  /\ DriverIn("settling", "waiting")
  /\ mode_age >= Settle
  /\ UNCHANGED <<robotVars, frames, images, nodeVars, poses, exact>>

\* Mistake: the stamp is not looked at.
AnyPose(p) == TRUE

\* on_pose: the stamp is no older than the wait.
StampedInWait(p) == p.stamp_age <= mode_age

\* on_pose in WAITING_LCODE.
TakesPose(p) ==
  /\ DriverIn("waiting", "drive")
  /\ StampedInWait(p)
  /\ poses' = poses \ {p}
  /\ exact' = TRUE
  /\ UNCHANGED <<robotVars, frames, images, nodeVars>>

\* A pose that comes at another time, or is too old.
PassesOver(p) ==
  /\ poses' = poses \ {p}
  /\ UNCHANGED <<robotVars, driverVars, frames, images, nodeVars, exact>>

GivesUp ==
  /\ DriverIn("waiting", "drive")
  /\ mode_age >= WaitTimeout
  /\ UNCHANGED <<robotVars, frames, images, nodeVars, poses, exact>>

-----------------------------------------------------------------------------
(* The camera, as FrameFeed promises: frames may be skipped, never reordered *)

Exposes ==
  /\ \A f \in frames : f.age > 0
  /\ frames' = frames \cup {[seen |-> Seen(truth), age |-> 0]}
  /\ UNCHANGED <<robotVars, driverVars, images, nodeVars, poses, exact>>

\* Of the images still under way some may be lost.
Stamps(f) ==
  /\ frames' = {g \in frames : g.age < f.age}
  /\ \E lost \in SUBSET images :
       images' = (images \ lost) \cup
         {[seen |-> f.seen, odom |-> odom, age |-> f.age, stamp_age |-> 0,
           still |-> f.age < rest_age]}
  /\ Cardinality(images') <= MaxQueue
  /\ UNCHANGED <<robotVars, driverVars, nodeVars, poses, exact>>

-----------------------------------------------------------------------------
(* The localizer *)

Oldest(i) == \A j \in images : j.age <= i.age

\* canTransform: odometry has come up to the stamp.
CanTransform(i) == tf_age <= i.stamp_age

\* Mistake: the reading is paired with the odometry of now.
OdomNow(i) == odom

OdomAtStamp(i) == i.odom

\* The image cannot be read, or odometry is not there yet.
DropsImage(i) ==
  /\ Oldest(i)
  /\ images' = images \ {i}
  /\ last_reading' \in {last_reading} \cup
                       (IF CanTransform(i) THEN {} ELSE {i.seen})
  /\ UNCHANGED <<robotVars, driverVars, frames, tf_age, cached_map_to_odom,
                 poses, exact>>

\* image_callback, update_map_to_odom and the pose it publishes.
Corrects(i) ==
  /\ Oldest(i)
  /\ CanTransform(i)
  /\ images' = images \ {i}
  /\ last_reading' = i.seen
  /\ cached_map_to_odom' = MapToOdom(BaseOf(i.seen), OdomAtStamp(i))
  /\ poses' = poses \cup {[age |-> i.age, stamp_age |-> i.stamp_age]}
  /\ Cardinality(poses') <= MaxQueue
  /\ exact' = (exact /\ i.still)
  /\ UNCHANGED <<robotVars, driverVars, frames, tf_age>>

\* Mistake: the transform is computed anew, from the last reading.
Recomputed == MapToOdom(BaseOf(last_reading), odom)

Cached == cached_map_to_odom

\* tf_timer_: the cached transform once more, with a new stamp.
Republishes ==
  /\ cached_map_to_odom' = Cached
  /\ UNCHANGED <<robotVars, driverVars, frames, images, tf_age, last_reading,
                 poses, exact>>

\* odom->base_link reaches its buffer.
ReceivesOdometry(age) ==
  /\ age < tf_age
  /\ tf_age' = age
  /\ UNCHANGED <<robotVars, driverVars, frames, images, last_reading,
                 cached_map_to_odom, poses, exact>>

-----------------------------------------------------------------------------
\* What has become too old is gone: a frame that was skipped, an image or a
\* pose that was lost.
Tick ==
  /\ mode_age' = Older(mode_age, Settle + WaitTimeout)
  /\ rest_age' = Older(rest_age, LongAgo)
  /\ tf_age' = Older(tf_age, MaxDelay + 1)
  /\ frames' = {[f EXCEPT !.age = @ + 1] :
                  f \in {g \in frames : g.age < MaxLag}}
  /\ images' = {[i EXCEPT !.age = @ + 1, !.stamp_age = @ + 1] :
                  i \in {j \in images : j.stamp_age < MaxDelay}}
  /\ poses' = {[p EXCEPT !.age = @ + 1, !.stamp_age = @ + 1] :
                 p \in {q \in poses : q.stamp_age < MaxDelay}}
  /\ UNCHANGED <<truth, odom, steps, mode, last_reading, cached_map_to_odom,
                 exact>>

Next ==
  \/ Tick
  \/ \E step \in Steps : Moves(step)
  \/ StopsForCorrection
  \/ StartsWaiting
  \/ \E p \in poses : TakesPose(p) \/ PassesOver(p)
  \/ GivesUp
  \/ Exposes
  \/ \E f \in frames : Stamps(f)
  \/ \E i \in images : DropsImage(i) \/ Corrects(i)
  \/ Republishes
  \/ \E age \in 0..MaxDelay : ReceivesOdometry(age)

Spec == Init /\ [][Next]_vars

-----------------------------------------------------------------------------
(* Properties *)

\* The hand-over of a frame takes less time than the robot settles.
HandoverFits == MaxLag < Settle

Estimate == Then(cached_map_to_odom, odom)

\* What the pause is for: a correction that ends it puts the robot on the map
\* where it is, for the picture was taken at rest although it is stamped
\* later; and the map stays right as far as odometry does, whatever the timer
\* republishes and however the node is delayed.
PauseFixIsExact == HandoverFits /\ exact => Estimate = truth

\* A pose ends a pause only if its picture was taken of a robot at rest.
PictureTakenAtRest ==
  [][\A p \in poses :
        HandoverFits /\ TakesPose(p) => p.age < rest_age]_vars
=============================================================================
