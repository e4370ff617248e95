# raspbot-v2-ws in TLA+

A verification development for the raspbot-v2 workspace: a mecanum robot that
drives over a floor printed with a two-dimensional code ("L-code"), reads its
position from the code with a downward camera, and is sent to goals from a
phone app through Nav2. Line numbers are those of the sources under `src/`.

## 1. Inventory

### Parts, state and operations

| part | state it keeps | operations |
| --- | --- | --- |
| `LocalizationPauseController` (driver_node/include) | `state_`, distance and angle driven since the last fix, four time stamps, the settle time of the pause under way, `config_` | `update_motion`, `start_pause`, `on_pose`, `on_timer`, `should_forward_command`, `set_config` |
| `DriverNode` | last command time, `timed_out_`, `last_was_rotation_`, dead-reckoned pose, parameters | `cmd_vel_callback`, `lcode_pose_callback`, `update_odometry` (20 ms), `check_timeout` (50 ms), motor tick (100 ms), parameter callback, destructor |
| `KinematicsInterface` | intended PWM per wheel (linear, angular, sum), pulse accumulator, pulse ticks left, modulation flag, effective velocity | `drive`, `stop`, `tick`, `set_motor`, destructor |
| `AppBridgeNode`, navigation | generation, target, retry counter, four flags, goal handle, validation clock, all under `nav_state_mutex_` | `on_client_message` (navigate, cancel), `dispatch_nav_goal`, `on_goal_response`, `on_goal_result`, `on_lcode_pose`, `on_localization_abort`, `check_validation_timeout` |
| `GoalValidation` | none | `distance`, `evaluate` |
| `AppBridgeNode`, sessions | the set of clients under `clients_mutex_` | accept, read, close, `broadcast`, `publish_robot_pose` |
| `lcode_localizer_node` | cached `map->odom` transform | image callback, `update_map_to_odom`, 50 ms transform timer |
| `GenBGArray`, `DeBruijnSeq` | the two sequences without their last symbol, the shift of every column of dots | `dfsIterative`, `initMemberVars`, `printBGArr`, `getSubset`, `getPos` |
| `LineProcessor` | none | `detectBaseLines`, `clusterLinesByDist`, `clusterLinesBySlope`, representatives |
| `ImgPreprocessor` | for one image: clusters, `closestLines`, side dots, corners, warped dots, dashes, angle | `run`: order and validate the lines, find the corners, warp, cut the margin, turn |
| `Digitizer` | symbols of a piece, `movementIndex`, the centre's cell | `runDigitize`, `Sort2DdotArr`, `InterpolatingDashArea`, `FindCP_Index`, `ExtractSubset` |
| `DotDetector`, `ConfigSettings` | none; the settings file, read once | dots of an image; a value by its name |
| `camera_node2` | latest frame, `new_frame_available_` under `frame_mutex_` | capture thread, publish thread |
| `set_goal`, `robot_controller`, `camera_node`, `yahboomcar_*`, scripts, launch files | | command-line and keyboard clients, older nodes, assets, deployment |

### How they interact

```
 phone app --ws--> app_bridge --action--> Nav2 --/cmd_vel--> driver_node --I2C--> wheels
     ^                |   ^                                   |   ^  |
     +---verdicts-----+   |  /lcode/localization_abort        |   |  +--odom, TF--> Nav2
                          +-----------------------------------+   |        |
                          |  /lcode/pose                          |        v
                          +-------------- lcode_localizer --------+   (TF buffer)
                                             ^
                              camera_node2 --+
```

`driver_node` and `lcode_localizer` run one single-threaded executor each, so a
callback is atomic; topics between nodes delay, and poses may be old when they
arrive. `app_bridge` has two threads, the executor and the Boost.Asio thread,
which share the navigation state under a mutex and call Nav2 and the sockets
outside it. `camera_node2` has two threads of its own.

### What is hard, and what makes each part correct

* *Stopping for a correction.* After an interval of motion the driver stops the
  robot, lets it settle, waits for a pose stamped after that, holds, and lets
  the next new command through; without a pose it aborts navigation and stays
  in a fault until commands have been quiet. Poses are late and out of order,
  commands keep arriving, timers are late, parameters change in between.
  *Correct*: nothing moves a held robot; the pose that ends a pause was stamped at
  rest; no pause is endless; a fault is left only after the quiet period; the
  motion between two fixes is bounded; no command outlives the watchdog.
* *Writing the motors.* Writes fail silently; PWM below the static friction is
  turned into pulse trains rationed by an accumulator. *Correct*: a failed stop
  is repaired by a later tick; the accumulator is bounded; the average output is
  the command; a wheel never turns against its command.
* *Serving the app.* Requests supersede one another while responses, results,
  poses, aborts and timeouts of older ones are under way on two threads.
  *Correct*: one verdict for each request, "succeeded" only if the goal was
  reached, bounded retries, no goal runs that nobody holds, every request is
  answered.
* *From the camera to the correction.* Frames cross two threads and a topic; the
  transform at the frame's stamp may not be there yet. *Correct*: every published
  image is one whole frame newer than the last; a correction that ends a pause
  belongs to the place where the robot rests.
* *Reading the floor.* Lines are detected in any order, some missing, some false;
  the corners of the view are counted off along lines that reach differently far;
  an image may be the wrong way up; a piece at the edge of the view is moved; a
  column of dots may be found at the seam of the sequence. *Correct*: the middle
  line is the middle one, the corners lie in the same rows, the published place and
  heading are the camera's, a clean view is read wherever it is, the loops end
  and stay within their buffers.

`PROJECT.json` lists the hazards one by one, with line and property.

## 2. Modules

| module | models | lines |
| --- | --- | --- |
| `PauseController` | `LocalizationPauseController.hpp`, one definition per method and outcome | state, ages, guards |
| `DriverNode` | `DriverNode.cpp` on top of it, with `stop`, `drive` and the motor tick of the four wheels | composition of controller, watchdog, timers, motors |
| `DriveHold` | the abstract specification of what driver and controller promise | refined by `DriverNode` |
| `WheelPulse` | `set_motor`, `drive`, `stop`, `tick` for one wheel | the four wheels do not read each other |
| `AppBridge` | the navigation part of `app-bridge-node.cpp`, `GoalValidation.hpp`, and Nav2 from outside | two threads, one action per critical section |
| `Camera` | `camera_node2/src/main.cpp`: both threads, the shared frame, the end of the node | one critical section is one action, a copy is two |
| `FrameFeed` | the abstract specification of the images a camera node publishes | refined by `Camera` |
| `Localizer` | `lcode_localizer_node.cpp` between the camera's stamps and the driver's pauses | composition, with the driver and the camera reduced to what their modules show |
| `DeBruijnSeq` | `DeBruijnSeq.cpp`: the loop that writes a sequence, one pass an action | word, position, period, what is written |
| `GenBGArray` | `GenBGArray.cpp`: the floor from two sequences, `getPos` | extends `DeBruijnSeq` |
| `LineProcessor` | `LineProcessor.cpp` after the Hough transform | operators on sequences of lines |
| `ImgPreprocessor` | `ImgPreprocessor.cpp`, `run` from the lines to the upright view | one action for each function it calls |
| `Digitizer` | `Digitizer.cpp` | one action, its functions as operators |
| `LCodeDecoder` | node constructor and `image_callback` up to the reading | composes `GenBGArray` and `Digitizer`; camera and printed floor from outside |
| `MCDriverNode`, `MCWheelPulse`, `MCAppBridge`, `MCLocalizer`, `MCLCodeDecoder` | small instances for TLC | |
| `DriverNodeProofs` | theorems about the driver: modes and refinement, ages and distances | |
| `WheelPulseProofs`, `AppBridgeProofs`, `CameraProofs`, `LocalizerProofs` | theorems about these modules | |
| `DeBruijnSeqProofs` | lemmas about the loop that writes a sequence: every word once | |
| `LCodeDecoderProofs`, `LCodeLineProofs` | theorems about the floor and the piece, about lines and corners | each extends the one before it |

### From code to model

* *Time.* The driver compares only `now - stamp`, so the model keeps ages.
  `Tick` makes every age grow, up to `Horizon`, which exceeds every duration:
  all comparisons stay exact and no run is cut off. A NaN stamp is `Unset`, the
  stamp of minus infinity is age `Horizon`. A wall timer is due when its period
  has passed and fires at most `Slack` later; `Tick` waits for it.
* *Callbacks.* One action each, with every call inside: `update_odometry`
  includes the stop it may cause, `check_timeout` the controller's `on_timer`
  and the watchdog after it. The outcomes of a callback are named disjuncts
  (`CommandDiscarded`, `CheckAborts`, ...).
* *Motion.* A velocity is a pair of magnitudes, linear and angular, which is
  all `update_motion` uses. What a command makes of the wheels is
  `Output[t]`: a set, because the pulse modulation switches a weak command on
  and off from tick to tick. `running` is the set of wheels whose register is
  not zero; each write may fail for any subset of the wheels (`failed`).
* *Restart.* `Init` lets any wheel be turning already: the motor board keeps its
  last PWM and the constructor does not write.
* *Pulses.* `WheelPulse` has the arithmetic of `tick`, with the PWM values and
  gains as integers of a finer unit. `Frame` keeps the byte's width.
* *The bridge.* A callback that unlocks the mutex leaves its rest in
  `job[thread]`, which the other thread may overtake. Goals sent to Nav2 are
  kept in `goals` with what the server has done (`server`) and what the bridge
  has been told (`told`). The server accepts, rejects or ends goals; accepting
  one ends the one that runs.
* *The camera.* A `cv::Mat` is a reference to counted storage: `latest_frame` and
  `frame_to_publish` name storage, `pixels` is what it holds. `clone` takes storage
  nobody refers to. The pixels are copied into the message in two steps, outside
  the mutex; a write in between would make the published frame `Torn`.
* *From floor to map.* `Localizer` has a plane of whole coordinates and headings
  in quarter turns, where `update_map_to_odom` can be computed exactly; a reading
  of the code is exact or fails, which is what `ReadingIsRight` shows of
  `LCodeDecoder` for images whose dots are lost or aslant but not misread. The robot moves in a few steps that odometry
  counts right or wrong (wheels that turn on the spot). An image carries the
  odometry of its stamp, which is what `lookupTransform` answers once odometry
  has come up to it (`CanTransform`). Frames come as `FrameFeed` promises; the
  driver moves only in `drive` and waits only after `Settle` at rest, as
  `HeldMeansStopped` says; the holds after a pose or a timeout are left out,
  so that it may drive on at once.
* *Lines.* The baselines of an image are parallel, so that a line is the place at
  which it passes the centre, in dot intervals, with the rows in which it has
  dots. `lying` is the direction (a line of the other one is false), `swapped` the
  order of its end points, which `findCornerDotCandidates` follows.
* *Views.* What the corners cut out is a grid of cells, `Spacing` units apart; a
  symbol is a dot one unit off its crossing, and `Direction` decides as the
  code does by its angle. A view says which cell of the floor it begins with,
  which way up it is, where the centre of the image is in it, how many dots of the
  image lie around it in the box that `preprocessPointData` counts, and what is
  wrong with it: dots lost, aslant or misread, dashes measured badly, the dots of the
  baselines off their line. `PrintedCell` is the floor that was printed,
  `getSubset` and `getPos` are the floor as the search sees it.
* *Views that are not cut square.* `isRectangleWithMargin` lets corners through that
  are not those of a rectangle of the grid, or that are its mirror image. Such an
  image ends in the stage `sheared`: what is read from it is left open.
  Where `arrangeDstQuad` compares dots of the same row or column, parts of a pixel
  decide which corner is which: it is a set of quadrilaterals, of which the
  action takes any.
* *History.* Variables listed under "History" are read by properties only:
  they record how long the robot has rested, when the last non-zero command
  came, the motion since the last fix, which request was answered how.
* *Mistakes.* A definition under "Mistake" is no part of a specification. It is
  the next definition with a plausible bug, kept beside it so that it can be
  substituted to see that a property notices.

## 3. Runs

| run | asks | bounds |
| --- | --- | --- |
| `DriverNode_safety` | `HeldMeansStopped`, `NoStaleMotion`, `DriftBounded`, `PauseBounded`, `CorrectionTakenAtRest`, `RearmOnlyAfterQuiet`, `ImplementsDriveHold` | three commands (stop, ahead, turn), timers up to one unit late, poses up to two units old; parameters change at any time to other settings (periodic correction off, rotation-to-linear settle on), invalid ones are refused |
| `DriverNode_liveness` | `EveryPauseEnds`, `QuietFaultRearms`, `WheelsStop`, types | three commands with a creep that pulses, two wheels |
| `DriverNode_failed_stop` | `StopIsImmediate`, *violated* | two wheels |
| `WheelPulse_growing` | `AccumulatorBounded`, `AverageTracksCommand`, `PulsesFollowCommand`, `FirstPulseAtOnce`, `WeakCommandKeepsMoving`, types | min_pwm 2 to 4, trains of 1 to 3, six commands, then a stronger tuning |
| `WheelPulse_weakened` | `PulsesFollowCommand`, *violated* | min_pwm lowered at run time |
| `AppBridge_safety` | `OneVerdictPerRequest`, `RetriesBounded`, `SuccessIsEarned`, `NothingRunsUntracked`, `OnePhaseAtATime`, types | three messages, two targets, one retry |
| `AppBridge_liveness` | `EveryRequestAnswered` | two messages, one target, two retries |
| `AppBridge_lost_goal` | `CancelIsComplete`, *violated* | three messages |
| `Camera` | `ImplementsFrameFeed`, `StoredFrameShown`, `TeardownCompletes`, types | three buffers, four frames, a capture process that is absent or ends at any time |
| `Localizer` | `PauseFixIsExact`, `PictureTakenAtRest`, types | two moves of a step, a turn or a slip; stamps up to one unit late, images and poses up to two, one of each under way |
| `LCodeDecoder` | `EveryWordOnce`, `PiecesArePrinted`, `SidesFlankMiddle`, `CornersOnTwoRows`, `WindowInside`, `ReadingIsRight`, `CleanViewIsRead`, `EveryLoopEnds`, types | words of three symbols of four, views of 9 by 13 dots, about 1000 arrangements of lines, about 1000 views |
| `LCodeDecoder_middle` | `MiddleLineIsMiddle`, *violated* | four lines, one of them false, one baseline missed |

*Why the bounds are enough.* The durations of the driver keep the order of those
in `robot.launch.py` (hold 0.15 < settle 0.30 < rearm 0.50 < wait 2.0) at the
size of one or two clock units, so that each of them can expire before, with and
after each timer and each late pose. With a settle of two units the bound that
`PauseBounded` sets to it is where ages saturate, so the run checks the shorter
settle and the waits; the longer one rests on `PauseEndsInTime`. The motor runs need at least two wheels for
a stop that fails on one only. The driver's runs have no bound on their length:
ages saturate and counters are reset by the code itself. The bridge's generation
grows with every message; three messages let a request overtake a request that
has overtaken another, and one or two retries reach both sides of the limit.
Of the camera's frames, one can be in the publisher's hands, one stored and one
being stored, so a fourth needs storage that has been given back. Two moves
of the robot let a picture be taken before, between and after them, with a
turn and a slip in either order; the coordinates never enter a guard.

The floor of `LCodeDecoder` is the code's own with shorter words: four symbols,
a piece of three rows and three columns of dots, a baseline every four columns
(the settings default to five rows and five columns with a baseline). The
sequences are written in full, with all 64 words of one order and all 16 of the
other, and for some places the search wraps around the end of the sequence. The views begin at the first cell of the floor, in its
middle and far down, either way up, with the centre at dots, halfway between two and
four of them, and beyond the cells that can be read; so a piece is moved at
each of its four edges and at corners. The lines are every order of
two to four baselines with the centre between any two of them or outside, with
ties, and with a false line on either side; the rows of dots end before, at and
after those the corners need on either end, with either order of end points, and
with dots in rows that do not match. The camera also stands a quarter turn aside, and
once among lines of both directions; one view has lost its dots but not the count of
them, for the box around it is full. Lines and views are not multiplied: what is read does not
depend on which lines the corners were found by, once they lie on the grid.

*When a fix is exact.* `Localizer`'s properties hold under `HandoverFits`: the
stamp of a frame is later than its exposure (pipe, threads) by less than the
driver lets the robot settle. Nothing in the code enforces it:
`localization_settle_sec` is 0.30 in `robot.launch.py`, a frame at 120 fps takes
a few periods, and what the chassis needs to stop swinging has to fit in as well. With `MaxLag` equal to
`Settle` TLC finds a pause that ends with a picture of the moving robot.

*Fairness.* `Timely` in `DriverNode`: the executor spins, so each timer is
served, and time passes. `WritesSucceed`: an I2C write that is repeated for ever
goes through in the end (strong fairness of a motor tick with no failure); only
`WheelsStop` needs it. `Fairness` in `AppBridge`: both threads run, the executor
serves what is ready, Nav2 answers every request and ends every goal. Nothing is
assumed of the user, of poses or of aborts. In `WheelPulse` only the motor timer
is fair. `Fairness` in `Camera`: both threads run, and a read of the pipe
returns, for `rpicam-vid` delivers frames at its rate or has ended. With a capture
process that hangs without ending, the destructor would wait for it. In
`LCodeDecoder` the constructor of the node runs on and so does a callback among
the lines, for nothing in either of them waits; no image need ever come.

*Where the system may stop.* A driver whose process has ended stutters
(`Exited`), a camera node that is gone does (`Gone`); a bridge whose user has nothing more to say stutters (`AppSilent`).
Deadlock is checked everywhere.

### What the violated runs show

1. **A failed stop goes unnoticed** (`DriverNode_failed_stop`).
   `KinematicsInterface::stop` says a correction or fault stop must bring the
   physical output to zero at once; `set_motor` ignores a failed write, and the
   wheel turns until a later motor tick writes zero again. `WheelsStop` shows
   that it does so while the process lives; after the destructor's stop nobody
   tries again.
2. **A cancelled goal runs on** (`AppBridge_lost_goal`). Goal A runs; a second
   navigate drops A's handle and then finds no server (or is rejected); the
   cancel that follows has no handle, yet logs and broadcasts "canceled" while A
   keeps driving. `NothingRunsUntracked` shows this is the only way to lose a goal.
3. **A pulse against the command** (`WheelPulse_weakened`). Lowering `min_pwm`
   while a wheel is modulated leaves an accumulator above the new threshold; if
   the command reverses before it is spent, the next train follows the old
   direction, which the comment in `tick` rules out.
4. **The first line is an outer one** (`LCodeDecoder_middle`). The baselines
   pass the centre at 0, 4, -4 and -8; that at -4 is not found, and a false
   line at 6 is. The nearest two after 0 are 4 and 6, on one side, so 4 and 0
   change places. Then 6 is erased, for it has too many dots, and
   4, 0, -8 are left: the two outer lines are not on one side of the centre, hence
   valid, but the first line is not between them. `SidesFlankMiddle` shows that it
   takes a false line, or one line found twice: baselines that are missed do not
   suffice. The view is usually refused later (a
   quadrilateral of another width is not the expected one, or no piece is found
   in it).

## 4. Proofs

For every value of the constants that satisfies the named assumptions:
`HorizonAssumption`, `ConfigAssumption`, `TwistAssumption`, `TimerAssumption`,
`SpeedAssumption` and `SettleAssumption` of the driver, `WheelAssumption`,
`BridgeAssumption`, `CameraAssumption`, `LocalizerAssumption`, and
`AlphabetAssumption`, `ArrayAssumption`, `ShiftsAssumption`, `LineAssumption`, `ViewAssumption`,
`DigitizerAssumption`, `DecoderAssumption`, `SceneryAssumption`, `RowsAssumption` of the decoder. TLC evaluates each of
them on the runs.

| theorem | states |
| --- | --- |
| `DriverNodeProofs!TypeCorrect` | `Spec => []TypeOK` |
| `DriverNodeProofs!HeldStopped` | `Spec => []HeldMeansStopped` |
| `DriverNodeProofs!FaultNeedsQuiet` | `Spec => RearmOnlyAfterQuiet` |
| `DriverNodeProofs!Refinement` | `Spec => ImplementsDriveHold` |
| `DriverNodeProofs!CommandIsFresh` | `Spec => []NoStaleMotion`, if no retuning shortens a timeout (`TimeoutsKept`) |
| `DriverNodeProofs!CommandIsNeverStale` | the same for any retunings, with the longest timeout there is as the bound |
| `DriverNodeProofs!PauseEndsInTime` | `Spec => []PauseBounded`, if `TimeoutsKept` |
| `DriverNodeProofs!DriftIsBounded` | `Spec => []DriftBounded` |
| `DriverNodeProofs!CorrectedAtRest` | `Spec => CorrectionTakenAtRest` |
| `WheelPulseProofs!TypeCorrect` | `Spec => []TypeOK` |
| `WheelPulseProofs!DebtBounded` | `Spec => []AccumulatorBounded`, if `RetuningsGrow` |
| `WheelPulseProofs!PulsesFollow` | `Spec => PulsesFollowCommand`, if `RetuningsGrow` |
| `WheelPulseProofs!AverageTracks` | `Spec => []AverageTracksCommand` |
| `WheelPulseProofs!FirstPulse` | `Spec => FirstPulseAtOnce` |
| `AppBridgeProofs!TypeCorrect` | `Spec => []TypeOK` |
| `AppBridgeProofs!OneVerdict` | `Spec => []OneVerdictPerRequest` |
| `AppBridgeProofs!OnePhase` | `Spec => []OnePhaseAtATime` |
| `AppBridgeProofs!Earned` | `Spec => []SuccessIsEarned` |
| `AppBridgeProofs!RetryBound` | `Spec => []RetriesBounded` |
| `AppBridgeProofs!Untracked` | `Spec => []NothingRunsUntracked` |
| `CameraProofs!TypeCorrect` | `Spec => []TypeOK` |
| `CameraProofs!Refinement` | `Spec => ImplementsFrameFeed` |
| `LocalizerProofs!TypeCorrect` | `Spec => []TypeOK` |
| `LocalizerProofs!FixExact` | `Spec => []PauseFixIsExact` |
| `LocalizerProofs!RestPictured` | `Spec => PictureTakenAtRest` |
| `LCodeDecoderProofs!SequenceInBounds` | `Spec => [](SequenceTypeOK /\ ReadsInsideWord)` |
| `LCodeDecoderProofs!EveryWordIsOnce` | `Spec => []EveryWordOnce`: `dfsIterative` writes every word once and fills its buffer exactly |
| `LCodeDecoderProofs!PieceStaysInside` | `Spec => []WindowInside` |
| `LCodeDecoderProofs!FloorsPrintedAlike` | `Spec => PiecesArePrinted` |
| `LCodeDecoderProofs!PieceIsFound` | `Spec => []PieceFound`: `getPos` finds every piece of the floor in its place |
| `LCodeDecoderProofs!PublishedWhereItIs` | `Spec => []ReadingIsRight` |
| `LCodeDecoderProofs!CleanViewPublished` | `Spec => []CleanViewIsRead` |
| `LCodeLineProofs!TypeCorrect` | `Spec => []TypeOK` |
| `LCodeLineProofs!MiddleLineHolds` | `Spec => []SidesFlankMiddle` |
| `LCodeLineProofs!CornersHold` | `Spec => []CornersOnTwoRows` |

### The arguments

*The driver's modes.* `TypeInv` is `TypeOK` with a valid configuration; every step
keeps it. `StopInv` adds to `HeldMeansStopped` that a process that is off is
stopped as well, which the refinement needs for `SwitchOff`. `QuietInv` says
that in `FAULT_HOLD` the zero-command stamp is younger than the fault and older
than no non-zero command: `RearmOnlyAfterQuiet` is one step from it.

*The driver's ages.* All of them rest on `TimerInv`: no timer is overdue by more
than `Slack`, for `Tick` waits for it. A bound on an age is then kept in the form
"at most its limit and the age of the timer that checks it": `WatchInv` for the
command that is followed, `PauseInv` for the phases of a pause. The timer's next
firing either finds the limit passed and stops, or makes its own age zero at a
moment when the other age is within the limit. That is why a limit must not shrink
between two firings: when a parameter change shortens a timeout, a command or a
pause may for one period be older than the new timeout allows, and
`TimeoutsKept` excludes it. It is about `set_parameters` only; commands, poses,
late timers and failing writes are free. `CommandIsNeverStale` does without it.
`DriftInv` says that the drift is what the controller has counted, and that this is
below the intervals as long as the robot may move: the step that reaches one begins a
pause, and adds no more than one odometry step at full speed (`GainBounded`,
`SpeedAssumption`). `RestInv` compares the time at rest with the age of the
phase; a saturated age needs `SettleAssumption`, that `Horizon` is longer than
a settle and the oldest pose under way.

*The wheel.* `AccumulatorBounded` is not inductive alone: `BoundInv` adds that a
train has at most `pulse_ticks` left and that an unmodulated wheel has an empty
accumulator, without which the kickstart could double the debt. With the debt
bounded, the accumulator reaches the threshold only on the side of the command,
hence `PulsesFollowCommand`. `RetuningsGrow` cannot be dropped there:
`WheelPulse_weakened` is the counterexample. `AverageInv` is an
account: what the accumulator holds, what the train under way will still give
and what was given beyond the command make up one train in the direction of the
command, whatever the retunings.

*The bridge.* Everything is about who may still speak for a request.
`HolderInv`: at most one thread, one goal or the wait for a pose is under way for the
current request (`OneHolder`), only one of them has its verdict to send and no
verdict is out while one is (`OneSpeaker`), the flags tell which it is (`FlagsTell`),
and each goal was sent to the target of its request. A
superseded request has no holder, for every callback compares the generation
under the mutex; this is where the order of the code's check, unlock and send
matters, one lemma for each action. `EarnedInv` follows a success back through
the wait for a pose to a goal that Nav2 reached; `RetryInv` counts a goal that a thread
is about to send against the retry that was counted for it; `TrackedInv` says
that a goal that runs without a handle is being cancelled or was followed by a
request that Nav2 did not serve, which is the case of `AppBridge_lost_goal`.

*The camera.* `FeedInv`: no frame is newer than the newest read, a frame on its way into
storage is newer than all behind it, what the publisher holds is newer than what it
published last and has not been written since the copy began, and the flag is up only
over a newer frame. `Refinement` maps every step of both threads to a step of
`FrameFeed` or a stutter; that no frame is torn is in it.

*The localizer.* The lemmas about `Then` and `MapToOdom` say that poses compose
associatively, with inverses, for whole coordinates and quarter turns. `FixInv` says that
pictures of the time at rest show where the robot is and carry the odometry
it still has, that poses are ordered as their pictures are, and that after a fix the
estimate is the truth. `HandoverFits` is inside the properties: without it
nothing is claimed.

*The floor.* `WindowInside` needs one fact more to be inductive: there are no symbols of a
piece before the digitizer has run (`PieceInv`). The step of `runDigitize` is
`PieceFits`, the arithmetic of a window moved at the edge, for every size of view
and piece that `runDigitize` accepts, and `CentreIsCell`: neither `Sort2DdotArr` nor
`InterpolatingDashArea` makes a cell that cannot be read. `SequenceInBounds` is
inductive as it stands: the loop reads `a[t - p]` within the word because
a word's period never exceeds the next position. `PiecesArePrinted` is
`CorrectionCountsBaselines`: the baselines up to a column, counted from the left
edge (`printBGArr`) or from the first column of the range (`getSubset` and
`printSpecificRange`), are the same (`MultiplesUpTo` gives the count of multiples in an interval).

*The sequences.* `EveryWordIsOnce` is the theorem of Fredricksen, Kessler and Maiorana
for the loop that the code runs, lemma by lemma in `DeBruijnSeqProofs`. `total_elements` counts
the words (`WordsCounted`), and a ring of at most that many symbols in which every word
stands holds each of them once (`AllWordsOnce`): it is enough that every word comes to
stand in the ring, and that no more symbols are written than there are words. A word
is *done* when it is a rotation of a necklace (the least of its rotations) that comes
before the word of the loop (`Done`). `LoopInv` says four things while the loop runs
(`WordInv`), on the text of what is written with greatest symbols before it, as
they stand where the ring is closed, and the first `period` symbols of the word behind it.
Those symbols are a Lyndon word. Every word that is done stands in the text. The text written so
far ends in greatest symbols, and the words that begin with them and go on like the word of the
loop either stand in the text already or are completed by it (`RunEnds`). No more is written than
is done. A step that raises the word keeps this: it makes a Lyndon word again
(`RaisedIsLyndon`), and passes over no necklace but the word it leaves (`NoneBetween`,
`DoneNext`). When the period divides the order, that word is a necklace with as many
rotations as its period is long (`WholeIsNecklace`, `RotationsCounted`), and with the
period written all of them stand, those at the seams because of `RunEnds`
(`RotationsStand`, `RunEndsAfter`). When it does not, the word is no necklace
(`WholePeriods`) and nothing is written (`NextIsNotWritten`). The last word consists of greatest
symbols; with it every word is done (`OthersDone`) and the ring closes (`LastIsWritten`).

*The search.* The floor is not printed from the rings that `EveryWordOnce` is about but from
the sequences without their last symbol. `TailInv` follows the loop to its end: once the
word begins with the greatest symbol its period is 1, so a sequence ends in as many greatest symbols as a word has,
and the ring without one of them lost one word and gained none (`RingWithoutLast`).
A stretch of a ring is then searched with the first occurrence being the only one
(`StretchSearched`): the first column in the sequence taken twice (`RingSearched`), the
others in the range before it (`RangeSearched`), which is long enough because a
column is shifted against its neighbour by less than `aLen` (`ShiftsBounded`,
`ShiftsAssumption`), and the differences of their places in the t-sequence.
`CorrectedColumn` and `OneBaseline` are the columns of dots of a piece that a baseline
cuts in any place, or begins.

*The reading.* `PublishedWhereItIs` joins the geometry of a view to the search.
`SceneryAssumption` says what a view is: it lies on the floor, begins with a
baseline, and its dots are nearer to their own crossing than to another and to the
middle baseline only if they are its own. `DashesTellWay`: four dashes, each measured to
within six units, tell which way up the view was taken whenever `DashesTell` accepts them.
Then every dot outside the margin is sorted into its own cell (`InItsCell`, `CellOutOfMargin`,
`SortedDots`), and the dashed column is put back where it was printed, or not at
all (`OnlyMiddleColumn`, `ColumnPutBack`): the baseline is taken to be where one of its dots is, which is
on the wrong side of its line when the view was turned. Without the column no piece is
complete (`BaselineNeeded`), for two rows of a baseline in succession have no dots. So a piece that was
digitized is the piece that was printed there (`PieceRead`), and `PieceIsFound` finds it.
`ViewInv` carries this along the stages: what is kept of an image stays tied to the
one view that was seen.

*The clean view.* `CleanViewPublished` needs the number of dots, beyond where they are: the
columns between the baselines, and a third of one baseline, are already
more than `required_minimal_dot` (`CleanHasDots`), and enough are left without the margin
(`CleanKeepsDots`). The middle baseline keeps at least one dot and at most the ten that are
accepted (`CleanMiddle`): this is what `RowsAssumption` is for, from 5 to 32 rows, since a view of
more rows could never be accepted (the settings have 13). The dashes tell which
way up it is (`CleanDashes`), each dot is as far round as its symbol says (`CleanAngles`), the
baseline is found from any one of its dots (`CleanBaselineFound`), so the piece is complete
(`CleanDigitized`), and it is found on the floor, at a place that is never -1
(`FoundLookedUp`). `CleanInv` adds to `ViewInv` what each stage finds of a clean view: it is not
rejected, and its middle baseline is there.

*The lines.* `clusterLinesByDist` is a fold, and no induction theorem of the library can be
used (they take an operator as a parameter). `EveryNumber` is induction for the
membership in a set, from the library's `WFMin`; with it `ClusteringDefined` and
`ClustersFound` follow the fold line by line. `ImageInv` is the type invariant, with what
later stages need: no cluster is empty and there are three when lines are ordered,
so that no access leaves its list. `MiddleInv`: while corners are sought, each of
`closestLines` is the first of a cluster; and if those are baselines, the first one lies between the next
two, or a line has been erased, in which case the baselines have no dots and every pass
erases another (`EvenDots`). That the first one lies between is
`NearestIsBetween`, which does not ask that anything is near the point the lines are ordered
from: it holds with the corner of the image, too. `CornersInv`: the side dots
are nearest to the middle one, and a line without a gap has a dot in every third row
from its first to its last (`DotsInEveryThirdRow`), so that the nth dot from
row `r` is in row `r - 3n` or `r + 3n` (`NthDotOutward`); all that is left to chance, the number
of dots on each end, goes into one shift for both lines.

### Only model-checked

* Liveness under fairness: `QuietFaultRearms`, `WheelsStop`, `EveryPauseEnds`,
  `EveryRequestAnswered`, `WeakCommandKeepsMoving`, `StoredFrameShown`, `TeardownCompletes`,
  `EveryLoopEnds`. Fairness is a statement about `ENABLED`.

## 5. Not modelled

*Driver.* The simulation mode of `KinematicsInterface` (its constructor is not
called anywhere), the mecanum matrices, the heading and position in the driver's
own module (`Localizer` has them).

*Bridge.* The sockets: accepting, reading and writing them never touches the navigation
state.

*Decoder.* Pixels: illumination, binarisation, the Hough transform, the detection of dots
and of dashes and the merging of dashes, which are inputs of the model; what is read in
a view that is not cut square; `setBGArr`,
`setElemt` and the overload of `runDigitize` without a preprocessor, which nobody calls; the pictures saved of failed
images.

*The rest.* The vendor's older nodes, the command-line clients, `ConfigSettings`,
the deployment scripts. `PROJECT.json` gives the reason for each component.

### Outside the models' constants

These are limits of the code at inputs the models do not contain.

* The driver takes differences of the ROS clock while its timers are wall timers: a
  clock that jumps ends or prolongs pauses. Parameters that make no sense are not all
  refused: with `max_pwm` above 255 the cast to a byte wraps, with `pwm_deadzone` 0
  a zero command is modulated.
* A rotation, a zero command and then a linear one skip the settle between rotation
  and translation, for the zero command clears `last_was_rotation_`.
* The bridge broadcasts outside its mutex, so that the app may read a verdict after the
  "canceled" of a later cancel; a client that stops reading its socket blocks both threads
  under `clients_mutex_`.
* A reading whose transform is not available in time is dropped; the next one
  has to do.

### Remarks on the decoder

Seen while translating, and kept in the model where it reaches them:

* A piece has no redundancy: one dot read as another symbol usually leads nowhere,
  but sometimes to another place on the floor. `ReadingIsRight` says nothing of
  such views; the instance has both kinds, and without the exception TLC finds a
  dot at the corner of a piece that leads elsewhere.
* `threshold_` never reaches `HoughLines`, which is called with 80 each time, so
  the second pass over the lines repeats the first.
* When there are too many clusters their representatives are not taken: all lines
  go on unfiltered (`detectBaseLines`).
* `addDotsOnLine` and `findValidLinesByDotsLocation` are called before
  `closestLines` is filled and return at once: lines with too few dots are not
  filtered.
* `orderBaseLinesByClosestDot` asks for two lines and reads the third; the bound on
  the clusters before it keeps this from happening.
* `arrangeDstQuad` compares whole averages of the rows where two lines have their
  middles at the same height, and takes the upper left corner by its column: for lines
  that stand exactly upright parts of a pixel decide, and the quadrilateral may be
  mirrored. Where the middles are in the same column it sorts the corners by their
  height, and reads a list past its end unless two of them are below the average: the
  instance has a lying line among standing ones that gets there.
* `isRectangleWithMargin` compares directions without taking a difference beyond half a
  turn back: any such difference passes (`BeyondHalfTurn`).
* When a view is turned the dots of its middle baseline are not: a
  baseline whose dots lie off its line is then not recognised, which is why `Clean`
  bounds `off`.
* Of dots at the same distance from the centre the order of a hash table decides
  (`FindCP_Index` is a set in the model).
* `getPos` takes a substring that exists only when the sequence is longer than
  the range it searches: this is the last conjunct of `ArrayAssumption`.

## 6. Where it could go on

1. `System`: driver, bridge and Nav2 together: an abort of the driver ends the
   goal it interrupted, a fault is not rearmed by the old goal's commands.
2. An abstract ledger of requests, which `AppBridge` implements; the sessions
   (client set, accept, read, broadcast) as a module of their own.
