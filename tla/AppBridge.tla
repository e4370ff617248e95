------------------------------ MODULE AppBridge ------------------------------
(***************************************************************************)
(* AppBridgeNode: takes "navigate" and "cancel" from the phone app, drives *)
(* Nav2's NavigateToPose action, and checks each arrival against a fresh   *)
(* L-code pose before it tells the app that the goal was reached.          *)
(*                                                                         *)
(* Two threads share the navigation state.  "io" runs the WebSocket        *)
(* callbacks; "exec" is the ROS executor: action callbacks, poses, aborts  *)
(* and the validation timer.  nav_state_mutex_ guards the state, so one    *)
(* critical section is one action, and whatever a callback does after it   *)
(* unlocks (wait for the server, cancel a goal, broadcast) is a step of    *)
(* its own that the other thread may overtake.                             *)
(*                                                                         *)
(* The Nav2 action server is outside the repository.  It answers each      *)
(* request, runs at most one goal (accepting one ends the other) and       *)
(* reports each end once, in the order request, response, result.          *)
(***************************************************************************)
EXTENDS Integers, Sequences, FiniteSets

CONSTANTS
  Targets,            \* the positions a user may ask for
  MaxRetries,         \* final_validation_max_retries_
  ValidationTimeout,  \* final_validation_timeout_sec_, in clock units
  MaxPoseDelay,       \* age of the oldest pose still under way
  MaxUserMessages,    \* bound: messages the app sends in a run
  ServerMayRefuse     \* Nav2 may be unavailable, or reject a goal

ASSUME BridgeAssumption ==
  /\ Targets # {}
  /\ MaxRetries \in Nat
  /\ ValidationTimeout \in Nat \ {0}
  /\ MaxPoseDelay \in 0..ValidationTimeout
  /\ MaxUserMessages \in Nat
  /\ ServerMayRefuse \in BOOLEAN

Threads == {"io", "exec"}
NoGoal == 0
NoMessage == "none"

VARIABLES
  nav_generation,                \* nav_generation_
  target,                        \* target_x_, target_y_
  retries_completed,             \* final_validation_retries_completed_
  goal_request_pending,
  navigation_active,
  awaiting_final_validation,
  localization_failure_reported,
  current_goal_handle,           \* an index of goals, or NoGoal
  validation_age,                \* now - validation_started_sec_, kept while
                                 \* awaiting, up to ValidationTimeout
  job,                           \* what each thread still has to do
  goals,                         \* every goal request sent to Nav2
  user_messages                  \* counts what the app has sent

\* History, read by the properties only.
VARIABLES
  requested,   \* requested[g]: what began generation g: the target of a
               \* navigate, "cancel" or "abort"
  verdicts,    \* verdicts[g]: the final statuses broadcast for generation g
  shown        \* the status the app was sent last

flagVars == <<goal_request_pending, navigation_active,
              awaiting_final_validation, localization_failure_reported>>
navVars == <<nav_generation, target, retries_completed, flagVars,
             current_goal_handle, validation_age>>
historyVars == <<requested, verdicts, shown>>
vars == <<navVars, job, goals, user_messages, historyVars>>

Steps == {"idle", "wait_server", "unavailable", "read_target", "send_goal",
          "cancel", "report_failure", "broadcast"}

Statuses == {"accepted", "rejected", "server_unavailable", "succeeded",
             "aborted", "canceled", "localization_failed"}

\* Whether the message ends the request it answers.
Verdicts == Statuses \ {"accepted"}

Job == [step : Steps, generation : Nat, is_retry : BOOLEAN,
        handle : Nat, message : Statuses \cup {NoMessage}]

Idle == [step |-> "idle", generation |-> 0, is_retry |-> FALSE,
         handle |-> NoGoal, message |-> NoMessage]

Dispatch(g, is_retry) ==
  [Idle EXCEPT !.step = "wait_server", !.generation = g, !.is_retry = is_retry]
ReportFailure(g) ==
  [Idle EXCEPT !.step = "report_failure", !.generation = g]
\* Generation 0: no request is answered by this message.
Say(g, status) ==
  [Idle EXCEPT !.step = "broadcast", !.generation = g, !.message = status]

\* Mistake: the handle is dropped without a word to Nav2.
ForgetsToCancel(h, next) == next

\* Mistake: the handle is cancelled whether there is one or not.
CancelsAnyway(h, next) == [next EXCEPT !.step = "cancel", !.handle = h]

CancelThen(h, next) ==
  IF h = NoGoal THEN next ELSE [next EXCEPT !.step = "cancel", !.handle = h]

Ends == {"succeeded", "aborted", "canceled"}
Goal == [generation : Nat, target : Targets, is_retry : BOOLEAN,
         server : {"requested", "running", "rejected"} \cup Ends,
         told : {"nothing", "response", "result"},
         cancel : BOOLEAN]

TypeOK ==
  /\ nav_generation \in Nat
  /\ target \in Targets
  /\ retries_completed \in Nat
  /\ goal_request_pending \in BOOLEAN
  /\ navigation_active \in BOOLEAN
  /\ awaiting_final_validation \in BOOLEAN
  /\ localization_failure_reported \in BOOLEAN
  /\ current_goal_handle \in 0..Len(goals)
  /\ validation_age \in 0..ValidationTimeout
  /\ job \in [Threads -> Job]
  /\ \A t \in Threads : job[t].step = "cancel" => job[t].handle \in DOMAIN goals
  /\ goals \in Seq(Goal)
  /\ user_messages \in 0..MaxUserMessages
  /\ requested \in Seq(Targets \cup {"cancel", "abort"})
  /\ Len(requested) = nav_generation
  /\ verdicts \in Seq(Seq(Verdicts))
  /\ Len(verdicts) = nav_generation
  /\ shown \in Statuses \cup {NoMessage}

Init ==
  /\ nav_generation = 0
  /\ target \in Targets
  /\ retries_completed = 0
  /\ goal_request_pending = FALSE
  /\ navigation_active = FALSE
  /\ awaiting_final_validation = FALSE
  /\ localization_failure_reported = FALSE
  /\ current_goal_handle = NoGoal
  /\ validation_age = 0
  /\ job = [t \in Threads |-> Idle]
  /\ goals = <<>>
  /\ user_messages = 0
  /\ requested = <<>>
  /\ verdicts = <<>>
  /\ shown = NoMessage

-----------------------------------------------------------------------------
(* Critical sections used by several callbacks.  A definition under          *)
(* "Mistake" is no part of the specification: it is the definition after it  *)
(* with a bug one could make, kept to show that a property would notice.     *)

Continue(t, next) == job' = [job EXCEPT ![t] = next]
At(t, step) == job[t].step = step
Free(t) == At(t, "idle")
Current(g) == g = nav_generation

ForgetGoal ==
  /\ goal_request_pending' = FALSE
  /\ navigation_active' = FALSE
  /\ awaiting_final_validation' = FALSE
  /\ current_goal_handle' = NoGoal

\* A new generation: everything under way belongs to the past.
NextGeneration(what) ==
  /\ nav_generation' = nav_generation + 1
  /\ requested' = Append(requested, what)
  /\ verdicts' = Append(verdicts, <<>>)

UserSends ==
  /\ Free("io")
  /\ user_messages < MaxUserMessages
  /\ user_messages' = user_messages + 1

-----------------------------------------------------------------------------
(* on_client_message, on the io thread *)

\* send_nav_goal; the goal under way, if any, is forgotten and left to Nav2.
Navigate(t) ==
  /\ UserSends
  /\ NextGeneration(t)
  /\ target' = t
  /\ retries_completed' = 0
  /\ ForgetGoal
  /\ localization_failure_reported' = FALSE
  /\ Continue("io", Dispatch(nav_generation + 1, FALSE))
  /\ UNCHANGED <<validation_age, goals, shown>>

CancelRequested ==
  /\ UserSends
  /\ NextGeneration("cancel")
  /\ ForgetGoal
  /\ localization_failure_reported' = FALSE
  /\ Continue("io", CancelThen(current_goal_handle, Say(0, "canceled")))
  /\ UNCHANGED <<target, retries_completed, validation_age, goals, shown>>

-----------------------------------------------------------------------------
(* dispatch_nav_goal and what follows an unlock, on either thread *)

\* Mistake: a retry that finds no server ends without a word.
RetryGivesUp(j) == IF j.is_retry THEN "idle" ELSE "unavailable"

WhenUnavailable(j) == IF j.is_retry THEN "report_failure" ELSE "unavailable"

\* wait_for_action_server blocks this thread for up to two seconds.
WaitServer(t) ==
  /\ At(t, "wait_server")
  /\ \E next \in {"read_target"} \cup
                  (IF ServerMayRefuse THEN {WhenUnavailable(job[t])} ELSE {}) :
       Continue(t, [job[t] EXCEPT !.step = next])
  /\ UNCHANGED <<navVars, goals, user_messages, historyVars>>

ServerUnavailable(t) ==
  /\ At(t, "unavailable")
  /\ Continue(t, IF Current(job[t].generation)
                   THEN Say(job[t].generation, "server_unavailable")
                   ELSE Idle)
  /\ UNCHANGED <<navVars, goals, user_messages, historyVars>>

\* The target read here is the one sent below: it changes only together
\* with the generation, which is compared again before the goal is sent.
ReadTarget(t) ==
  /\ At(t, "read_target")
  /\ Continue(t, IF Current(job[t].generation)
                   THEN [job[t] EXCEPT !.step = "send_goal"]
                   ELSE Idle)
  /\ UNCHANGED <<navVars, goals, user_messages, historyVars>>

SendGoal(t) ==
  /\ At(t, "send_goal")
  /\ Continue(t, Idle)
  /\ IF Current(job[t].generation)
       THEN /\ goal_request_pending' = TRUE
            /\ goals' = Append(goals,
                 [generation |-> job[t].generation, target |-> target,
                  is_retry |-> job[t].is_retry, server |-> "requested",
                  told |-> "nothing", cancel |-> FALSE])
       ELSE UNCHANGED <<goal_request_pending, goals>>
  /\ UNCHANGED <<nav_generation, target, retries_completed,
                 navigation_active, awaiting_final_validation,
                 localization_failure_reported, current_goal_handle,
                 validation_age, user_messages, historyVars>>

\* async_cancel_goal, then whatever message the callback has left to send.
CancelGoal(t) ==
  /\ At(t, "cancel")
  /\ goals' = [goals EXCEPT ![job[t].handle].cancel = TRUE]
  /\ Continue(t, IF job[t].message = NoMessage THEN Idle
                 ELSE Say(job[t].generation, job[t].message))
  /\ UNCHANGED <<navVars, user_messages, historyVars>>

\* broadcast_localization_failed
ReportsFailure(g) == Current(g) /\ ~localization_failure_reported

FailureReport(t) ==
  /\ At(t, "report_failure")
  /\ IF ReportsFailure(job[t].generation)
       THEN /\ localization_failure_reported' = TRUE
            /\ ForgetGoal
            /\ Continue(t, Say(job[t].generation, "localization_failed"))
       ELSE /\ Continue(t, Idle)
            /\ UNCHANGED <<flagVars, current_goal_handle>>
  /\ UNCHANGED <<nav_generation, target, retries_completed, validation_age,
                 goals, user_messages, historyVars>>

Broadcast(t) ==
  LET g == job[t].generation
      status == job[t].message
  IN  /\ At(t, "broadcast")
      /\ Continue(t, Idle)
      /\ shown' = status
      /\ verdicts' = IF g # 0 /\ status \in Verdicts
                       THEN [verdicts EXCEPT ![g] = Append(@, status)]
                       ELSE verdicts
      /\ UNCHANGED <<navVars, goals, user_messages, requested>>

Proceed(t) ==
  \/ WaitServer(t)
  \/ ServerUnavailable(t)
  \/ ReadTarget(t)
  \/ SendGoal(t)
  \/ CancelGoal(t)
  \/ FailureReport(t)
  \/ Broadcast(t)

-----------------------------------------------------------------------------
(* The executor's callbacks *)

Told(i, what) == goals' = [goals EXCEPT ![i].told = what]

ResponseReady(i) == goals[i].told = "nothing" /\ goals[i].server # "requested"
Accepted(i) == goals[i].server # "rejected"

\* Mistake: the generation is not compared.
AnyResponse(i) == TRUE

CurrentResponse(i) == Current(goals[i].generation)

StaleResponse(i) ==
  /\ ~CurrentResponse(i)
  /\ Continue("exec", IF Accepted(i) THEN CancelThen(i, Idle) ELSE Idle)
  /\ UNCHANGED navVars

GoalAccepted(i) ==
  /\ CurrentResponse(i)
  /\ Accepted(i)
  /\ goal_request_pending' = FALSE
  /\ current_goal_handle' = i
  /\ navigation_active' = TRUE
  /\ Continue("exec", IF goals[i].is_retry THEN Idle
                      ELSE Say(goals[i].generation, "accepted"))
  /\ UNCHANGED <<nav_generation, target, retries_completed,
                 awaiting_final_validation, localization_failure_reported,
                 validation_age>>

GoalRejected(i) ==
  /\ CurrentResponse(i)
  /\ ~Accepted(i)
  /\ goal_request_pending' = FALSE
  /\ navigation_active' = FALSE
  /\ Continue("exec", IF goals[i].is_retry
                        THEN ReportFailure(goals[i].generation)
                        ELSE Say(goals[i].generation, "rejected"))
  /\ UNCHANGED <<nav_generation, target, retries_completed,
                 awaiting_final_validation, localization_failure_reported,
                 current_goal_handle, validation_age>>

on_goal_response(i) ==
  /\ Free("exec")
  /\ ResponseReady(i)
  /\ Told(i, "response")
  /\ StaleResponse(i) \/ GoalAccepted(i) \/ GoalRejected(i)
  /\ UNCHANGED <<user_messages, historyVars>>

ResultReady(i) == goals[i].told = "response" /\ goals[i].server \in Ends

\* Mistake: the generation is not compared.
AnyResult(i) == TRUE

CurrentResult(i) == Current(goals[i].generation)

StaleResult(i) ==
  /\ ~CurrentResult(i)
  /\ UNCHANGED <<navVars, job>>

Arrival(i) ==
  /\ CurrentResult(i)
  /\ goals[i].server = "succeeded"
  /\ goal_request_pending' = FALSE
  /\ navigation_active' = FALSE
  /\ current_goal_handle' = NoGoal
  /\ awaiting_final_validation' = TRUE
  /\ validation_age' = 0
  /\ UNCHANGED <<job, nav_generation, target, retries_completed,
                 localization_failure_reported>>

NavigationFailed(i) ==
  /\ CurrentResult(i)
  /\ goals[i].server # "succeeded"
  /\ goal_request_pending' = FALSE
  /\ navigation_active' = FALSE
  /\ current_goal_handle' = NoGoal
  /\ Continue("exec", Say(goals[i].generation, goals[i].server))
  /\ UNCHANGED <<nav_generation, target, retries_completed,
                 awaiting_final_validation, localization_failure_reported,
                 validation_age>>

on_goal_result(i) ==
  /\ Free("exec")
  /\ ResultReady(i)
  /\ Told(i, "result")
  /\ StaleResult(i) \/ Arrival(i) \/ NavigationFailed(i)
  /\ UNCHANGED <<user_messages, historyVars>>

\* Mistake: one retry too many.
DecisionOneMore(within) ==
  IF within THEN "SUCCEEDED"
  ELSE IF retries_completed <= MaxRetries THEN "RETRY" ELSE "FAILED"

\* GoalValidation::evaluate
Decision(within) ==
  IF within THEN "SUCCEEDED"
  ELSE IF retries_completed < MaxRetries THEN "RETRY" ELSE "FAILED"

\* A pose with a stamp of this age, within the tolerance of the target or
\* not.  Any other pose changes nothing.
ValidatesWith(age) == awaiting_final_validation /\ age <= validation_age

on_lcode_pose(age, within) ==
  LET decision == Decision(within)
  IN  /\ Free("exec")
      /\ ValidatesWith(age)
      /\ awaiting_final_validation' = FALSE
      /\ retries_completed' = IF decision = "RETRY" THEN retries_completed + 1
                                                    ELSE retries_completed
      /\ Continue("exec",
           CASE decision = "SUCCEEDED" -> Say(nav_generation, "succeeded")
             [] decision = "RETRY" -> Dispatch(nav_generation, TRUE)
             [] decision = "FAILED" -> ReportFailure(nav_generation))
      /\ UNCHANGED <<nav_generation, target, goal_request_pending,
                     navigation_active, localization_failure_reported,
                     current_goal_handle, validation_age, goals,
                     user_messages, historyVars>>

\* An abort from the driver; one that finds nothing under way changes nothing.
AbortConcerns ==
  /\ goal_request_pending \/ navigation_active \/ awaiting_final_validation
  /\ ~localization_failure_reported

\* Mistake: the interrupted request keeps its generation.
KeepsGeneration == UNCHANGED <<nav_generation, requested, verdicts>>

\* The steps of the interrupted request become stale.
Invalidate == NextGeneration("abort")

on_localization_abort ==
  /\ Free("exec")
  /\ AbortConcerns
  /\ localization_failure_reported' = TRUE
  /\ ForgetGoal
  /\ Invalidate
  /\ Continue("exec", CancelThen(current_goal_handle,
                                 Say(nav_generation, "localization_failed")))
  /\ UNCHANGED <<target, retries_completed, validation_age, goals,
                 user_messages, shown>>

check_validation_timeout ==
  /\ Free("exec")
  /\ awaiting_final_validation
  /\ validation_age >= ValidationTimeout
  /\ awaiting_final_validation' = FALSE
  /\ Continue("exec", ReportFailure(nav_generation))
  /\ UNCHANGED <<nav_generation, target, retries_completed,
                 goal_request_pending, navigation_active,
                 localization_failure_reported, current_goal_handle,
                 validation_age, goals, user_messages, historyVars>>

Tick ==
  /\ awaiting_final_validation
  /\ validation_age < ValidationTimeout
  /\ validation_age' = validation_age + 1
  /\ UNCHANGED <<nav_generation, target, retries_completed, flagVars,
                 current_goal_handle, job, goals, user_messages, historyVars>>

-----------------------------------------------------------------------------
(* The Nav2 action server *)

Nav2Accepts(i) ==
  /\ goals[i].server = "requested"
  /\ goals' = [j \in DOMAIN goals |->
       IF j = i THEN [goals[j] EXCEPT !.server = "running"]
       ELSE IF goals[j].server = "running"
         THEN [goals[j] EXCEPT !.server = "aborted"] ELSE goals[j]]
  /\ UNCHANGED <<navVars, job, user_messages, historyVars>>

Nav2Rejects(i) ==
  /\ ServerMayRefuse
  /\ goals[i].server = "requested"
  /\ goals' = [goals EXCEPT ![i].server = "rejected"]
  /\ UNCHANGED <<navVars, job, user_messages, historyVars>>

\* Canceled also when another client asks for it.
Nav2Ends(i, how) ==
  /\ goals[i].server = "running"
  /\ goals' = [goals EXCEPT ![i].server = how]
  /\ UNCHANGED <<navVars, job, user_messages, historyVars>>

-----------------------------------------------------------------------------
\* Nothing is under way between the bridge and Nav2.
Answered(i) == goals[i].told = (IF Accepted(i) THEN "result" ELSE "response")
UnderWay(i) == goals[i].server = "running" /\ goals[i].told = "response"
Settled ==
  /\ \A t \in Threads : Free(t)
  /\ \A i \in DOMAIN goals : Answered(i) \/ UnderWay(i)

\* The app has nothing more to say, and everything it asked is done.
AppSilent ==
  /\ user_messages = MaxUserMessages
  /\ \A t \in Threads : Free(t)
  /\ \A i \in DOMAIN goals : Answered(i)
  /\ ~awaiting_final_validation
  /\ UNCHANGED vars

Next ==
  \/ AppSilent
  \/ \E t \in Targets : Navigate(t)
  \/ CancelRequested
  \/ \E t \in Threads : Proceed(t)
  \/ \E i \in DOMAIN goals :
       \/ on_goal_response(i)
       \/ on_goal_result(i)
       \/ Nav2Accepts(i)
       \/ Nav2Rejects(i)
       \/ \E how \in Ends : Nav2Ends(i, how)
  \/ \E age \in 0..MaxPoseDelay, within \in BOOLEAN : on_lcode_pose(age, within)
  \/ on_localization_abort
  \/ check_validation_timeout
  \/ Tick

Spec == Init /\ [][Next]_vars

\* Both threads run, the executor serves every callback that is ready, time
\* passes, and Nav2 answers every request and ends every goal.
Fairness ==
  /\ \A t \in Threads : WF_vars(Proceed(t))
  /\ WF_vars(\E i \in DOMAIN goals : on_goal_response(i))
  /\ WF_vars(\E i \in DOMAIN goals : on_goal_result(i))
  /\ WF_vars(check_validation_timeout)
  /\ WF_vars(Tick)
  /\ WF_vars(\E i \in DOMAIN goals : Nav2Accepts(i) \/ Nav2Rejects(i))
  /\ WF_vars(\E i \in DOMAIN goals, how \in Ends : Nav2Ends(i, how))

FairSpec == Spec /\ Fairness

-----------------------------------------------------------------------------
(* Properties *)

Generations == 1..nav_generation
GoalsOf(g) == {i \in DOMAIN goals : goals[i].generation = g}

\* One request is answered once: whichever of the two threads, the action
\* callbacks, the validation and the abort come first, no second verdict is
\* broadcast for the same generation.
OneVerdictPerRequest == \A g \in Generations : Len(verdicts[g]) <= 1

\* A request leads to its first goal and at most final_validation_max_retries
\* more, over all arrivals, rejections and interruptions (the limit
\* GoalValidationTest.RetriesAtMostTwice tests one call at a time).
RetriesBounded ==
  \A g \in Generations : Cardinality(GoalsOf(g)) <= 1 + MaxRetries

\* "succeeded" is broadcast for a request only if Nav2 reached a goal of that
\* very request, at the target the user asked for.
SuccessIsEarned ==
  \A g \in Generations :
    verdicts[g] = <<"succeeded">> =>
      \E i \in GoalsOf(g) : /\ goals[i].server = "succeeded"
                            /\ goals[i].told = "result"
                            /\ goals[i].target = requested[g]

\* The shared flags describe one phase: a request waits for Nav2's response,
\* is under way with a handle, or waits for validation, and the handle is of
\* the current generation.
OnePhaseAtATime ==
  /\ ~(goal_request_pending /\ navigation_active)
  /\ ~(awaiting_final_validation /\ (goal_request_pending \/ navigation_active))
  /\ navigation_active <=> current_goal_handle # NoGoal
  /\ navigation_active => Current(goals[current_goal_handle].generation)

\* A later request reached no goal of its own: Nav2 was away, or said no.
RefusedSince(g) ==
  \E h \in g + 1..nav_generation :
    requested[h] \in Targets /\ \A i \in GoalsOf(h) : ~Accepted(i)

\* When nothing is under way, a goal that still runs is the one the bridge
\* holds, or one it has asked Nav2 to cancel: forgetting a handle early is
\* safe as long as the goal that should replace it is accepted.
NothingRunsUntracked ==
  Settled => \A i \in DOMAIN goals :
    goals[i].server = "running" =>
      i = current_goal_handle \/ goals[i].cancel
        \/ RefusedSince(goals[i].generation)

\* "Navigation cancelled by app", says the log, and "canceled" the message to
\* the app: then no goal may go on running.
CancelIsComplete ==
  Settled /\ shown = "canceled" =>
    \A i \in DOMAIN goals : goals[i].server = "running" => goals[i].cancel

\* The user has said something else since generation g.
Superseded(g) == \E h \in g+1..nav_generation : requested[h] # "abort"

\* Every navigate request gets its verdict, unless the user overrides it: no
\* stale generation, lost handle, retry or abort swallows it.
Asked(g) == g \in Generations /\ requested[g] \in Targets
HasVerdict(g) == g \in Generations /\ verdicts[g] # <<>>

\* Each message begins a generation, and an abort at most one more.
EveryRequestAnswered ==
  \A g \in 1..2 * MaxUserMessages :
    Asked(g) ~> (HasVerdict(g) \/ Superseded(g))
=============================================================================
