--------------------------- MODULE AppBridgeProofs ---------------------------
(***************************************************************************)
(* Theorems about AppBridge, for any number of messages, retries and goals *)
(* and every answer of Nav2.                                               *)
(***************************************************************************)
EXTENDS AppBridge, FiniteSetTheorems, SequenceTheorems, TLAPS

-----------------------------------------------------------------------------
(* Sequences *)

LEMMA AppendFacts ==
  ASSUME NEW S, NEW s \in Seq(S), NEW e \in S
  PROVE  /\ Append(s, e) \in Seq(S)
         /\ Len(Append(s, e)) = Len(s) + 1
         /\ Append(s, e)[Len(s) + 1] = e
         /\ \A i \in 1..Len(s) : Append(s, e)[i] = s[i]
OBVIOUS

LEMMA SeqFacts ==
  ASSUME NEW S, NEW s \in Seq(S)
  PROVE  /\ Len(s) \in Nat /\ DOMAIN s = 1..Len(s)
         /\ \A i \in DOMAIN s : s[i] \in S
BY LenProperties, ElementOfSeq

\* A sequence is a function on an interval.
LEMMA SeqByPoints ==
  ASSUME NEW S, NEW n \in Nat, NEW f, f \in [1..n -> S]
  PROVE  f \in Seq(S) /\ Len(f) = n
BY SeqDef, LenProperties

-----------------------------------------------------------------------------
(* Jobs *)

Dispatching == {"wait_server", "unavailable", "read_target", "send_goal"}

LEMMA IdleFacts ==
  /\ Idle \in Job /\ Idle.step = "idle" /\ Idle.generation = 0
  /\ Idle.message = NoMessage /\ Idle.handle = NoGoal
BY DEF Idle, Job, Steps, Statuses, NoMessage, NoGoal

LEMMA DispatchFacts ==
  ASSUME NEW g \in Nat, NEW next,
         next = Dispatch(g, TRUE) \/ next = Dispatch(g, FALSE)
  PROVE  /\ next \in Job /\ next.step = "wait_server"
         /\ next.generation = g /\ next.message = NoMessage
<1>1. CASE next = Dispatch(g, TRUE)
  <2>1. next = [step |-> "wait_server", generation |-> g, is_retry |-> TRUE,
                handle |-> NoGoal, message |-> NoMessage]
    BY <1>1 DEF Dispatch, Idle
  <2>2. QED
    BY <2>1 DEF Job, Steps, NoMessage, NoGoal
<1>2. CASE next = Dispatch(g, FALSE)
  <2>1. next = [step |-> "wait_server", generation |-> g, is_retry |-> FALSE,
                handle |-> NoGoal, message |-> NoMessage]
    BY <1>2 DEF Dispatch, Idle
  <2>2. QED
    BY <2>1 DEF Job, Steps, NoMessage, NoGoal
<1>3. QED
  BY <1>1, <1>2

LEMMA ReportFacts ==
  ASSUME NEW g \in Nat
  PROVE  /\ ReportFailure(g) \in Job
         /\ ReportFailure(g).step = "report_failure"
         /\ ReportFailure(g).generation = g
         /\ ReportFailure(g).message = NoMessage
BY DEF ReportFailure, Idle, Job, Steps, Statuses, NoMessage, NoGoal

LEMMA SayFacts ==
  ASSUME NEW g \in Nat, NEW s \in Statuses
  PROVE  /\ Say(g, s) \in Job /\ Say(g, s).step = "broadcast"
         /\ Say(g, s).generation = g /\ Say(g, s).message = s
BY DEF Say, Idle, Job, Steps, Statuses, NoMessage, NoGoal

LEMMA CancelThenFacts ==
  ASSUME NEW h \in Nat, NEW next \in Job
  PROVE  /\ CancelThen(h, next) \in Job
         /\ CancelThen(h, next).generation = next.generation
         /\ CancelThen(h, next).message = next.message
         /\ h = NoGoal => CancelThen(h, next) = next
         /\ h # NoGoal => /\ CancelThen(h, next).step = "cancel"
                          /\ CancelThen(h, next).handle = h
BY DEF CancelThen, Job, Steps

LEMMA StepFacts ==
  ASSUME NEW j \in Job, NEW s \in Steps
  PROVE  /\ [j EXCEPT !.step = s] \in Job
         /\ [j EXCEPT !.step = s].step = s
         /\ [j EXCEPT !.step = s].generation = j.generation
         /\ [j EXCEPT !.step = s].message = j.message
         /\ [j EXCEPT !.step = s].is_retry = j.is_retry
         /\ [j EXCEPT !.step = s].handle = j.handle
BY DEF Job

\* Only the thread that takes a step gets another job.
LEMMA ContinueFacts ==
  ASSUME TypeOK, NEW t \in Threads, NEW next \in Job, Continue(t, next)
  PROVE  /\ job' \in [Threads -> Job] /\ job'[t] = next
         /\ \A u \in Threads : u # t => job'[u] = job[u]
BY DEF Continue, TypeOK

-----------------------------------------------------------------------------
(* Goals *)

\* Of a goal that was sent, only server, told and cancel change.
KeepsGoals ==
  /\ goals' \in Seq(Goal)
  /\ Len(goals') = Len(goals)
  /\ DOMAIN goals' = DOMAIN goals
  /\ \A i \in DOMAIN goals : /\ goals'[i].generation = goals[i].generation
                             /\ goals'[i].target = goals[i].target
                             /\ goals'[i].is_retry = goals[i].is_retry

LEMMA GoalFacts ==
  ASSUME TypeOK
  PROVE  /\ Len(goals) \in Nat /\ DOMAIN goals = 1..Len(goals)
         /\ \A i \in DOMAIN goals : goals[i] \in Goal
BY SeqFacts DEF TypeOK

\* One goal becomes another.
LEMMA ReplaceGoal ==
  ASSUME TypeOK, NEW i \in DOMAIN goals, NEW goal \in Goal,
         goals' = [goals EXCEPT ![i] = goal],
         goal.generation = goals[i].generation,
         goal.target = goals[i].target, goal.is_retry = goals[i].is_retry
  PROVE  /\ KeepsGoals /\ goals'[i] = goal
         /\ \A j \in DOMAIN goals : j # i => goals'[j] = goals[j]
<1>1. goals \in Seq(Goal) /\ i \in 1..Len(goals) /\ DOMAIN goals = 1..Len(goals)
  BY GoalFacts DEF TypeOK
<1>2. /\ goals' \in Seq(Goal) /\ Len(goals') = Len(goals)
      /\ \A j \in 1..Len(goals) :
           goals'[j] = IF j = i THEN goal ELSE goals[j]
  BY <1>1, ExceptSeq
<1>3. DOMAIN goals' = DOMAIN goals
  BY <1>1, <1>2, SeqFacts
<1>4. QED
  BY <1>1, <1>2, <1>3 DEF KeepsGoals

LEMMA ToldFacts ==
  ASSUME TypeOK, NEW i \in DOMAIN goals, NEW w \in {"response", "result"},
         Told(i, w)
  PROVE  /\ KeepsGoals
         /\ goals'[i].server = goals[i].server /\ goals'[i].told = w
         /\ goals'[i].cancel = goals[i].cancel
         /\ \A j \in DOMAIN goals : j # i => goals'[j] = goals[j]
<1> DEFINE goal == [goals[i] EXCEPT !.told = w]
<1>1. goals[i] \in Goal
  BY GoalFacts
<1>2. /\ goal \in Goal /\ goal.generation = goals[i].generation
      /\ goal.target = goals[i].target /\ goal.is_retry = goals[i].is_retry
      /\ goal.server = goals[i].server /\ goal.told = w
      /\ goal.cancel = goals[i].cancel
  BY <1>1 DEF Goal
<1>3. goals' = [goals EXCEPT ![i] = goal]
  BY DEF Told
<1> HIDE DEF goal
<1>4. QED
  BY <1>2, <1>3, ReplaceGoal

LEMMA CancelFacts ==
  ASSUME TypeOK, NEW i \in DOMAIN goals,
         goals' = [goals EXCEPT ![i].cancel = TRUE]
  PROVE  /\ KeepsGoals
         /\ goals'[i].server = goals[i].server
         /\ goals'[i].told = goals[i].told /\ goals'[i].cancel
         /\ \A j \in DOMAIN goals : j # i => goals'[j] = goals[j]
<1> DEFINE goal == [goals[i] EXCEPT !.cancel = TRUE]
<1>1. goals[i] \in Goal
  BY GoalFacts
<1>2. /\ goal \in Goal /\ goal.generation = goals[i].generation
      /\ goal.target = goals[i].target /\ goal.is_retry = goals[i].is_retry
      /\ goal.server = goals[i].server /\ goal.told = goals[i].told
      /\ goal.cancel = TRUE
  BY <1>1 DEF Goal
<1>3. goals' = [goals EXCEPT ![i] = goal]
  OBVIOUS
<1> HIDE DEF goal
<1>4. QED
  BY <1>2, <1>3, ReplaceGoal

LEMMA ServerFacts ==
  ASSUME TypeOK, NEW i \in DOMAIN goals, NEW s \in {"rejected"} \cup Ends,
         goals' = [goals EXCEPT ![i].server = s]
  PROVE  /\ KeepsGoals
         /\ goals'[i].server = s /\ goals'[i].told = goals[i].told
         /\ goals'[i].cancel = goals[i].cancel
         /\ \A j \in DOMAIN goals : j # i => goals'[j] = goals[j]
<1> DEFINE goal == [goals[i] EXCEPT !.server = s]
<1>1. goals[i] \in Goal
  BY GoalFacts
<1>2. /\ goal \in Goal /\ goal.generation = goals[i].generation
      /\ goal.target = goals[i].target /\ goal.is_retry = goals[i].is_retry
      /\ goal.server = s /\ goal.told = goals[i].told
      /\ goal.cancel = goals[i].cancel
  BY <1>1 DEF Goal, Ends
<1>3. goals' = [goals EXCEPT ![i] = goal]
  OBVIOUS
<1> HIDE DEF goal
<1>4. QED
  BY <1>2, <1>3, ReplaceGoal

\* Nav2 runs one goal: accepting i ends the one that ran.
LEMMA AcceptFacts ==
  ASSUME TypeOK, NEW i \in DOMAIN goals, Nav2Accepts(i)
  PROVE  /\ KeepsGoals
         /\ goals[i].server = "requested" /\ goals'[i].server = "running"
         /\ \A j \in DOMAIN goals :
              /\ goals'[j].told = goals[j].told
              /\ goals'[j].cancel = goals[j].cancel
              /\ j # i /\ goals[j].server = "running" =>
                   goals'[j].server = "aborted"
              /\ j # i /\ goals[j].server # "running" =>
                   goals'[j].server = goals[j].server
<1>1. /\ Len(goals) \in Nat /\ DOMAIN goals = 1..Len(goals)
      /\ \A j \in DOMAIN goals : goals[j] \in Goal
  BY GoalFacts
<1> DEFINE new(j) == IF j = i THEN [goals[j] EXCEPT !.server = "running"]
                     ELSE IF goals[j].server = "running"
                       THEN [goals[j] EXCEPT !.server = "aborted"]
                       ELSE goals[j]
<1>2. ASSUME NEW j \in DOMAIN goals
      PROVE  /\ new(j) \in Goal
             /\ new(j).generation = goals[j].generation
             /\ new(j).target = goals[j].target
             /\ new(j).is_retry = goals[j].is_retry
             /\ new(j).told = goals[j].told /\ new(j).cancel = goals[j].cancel
             /\ j = i => new(j).server = "running"
             /\ j # i /\ goals[j].server = "running" => new(j).server = "aborted"
             /\ j # i /\ goals[j].server # "running" =>
                  new(j).server = goals[j].server
  <2>1. goals[j] \in Goal
    BY <1>1
  <2>2. QED
    BY <2>1 DEF Goal, Ends
<1>3. goals' = [j \in DOMAIN goals |-> new(j)]
  BY DEF Nav2Accepts
<1> HIDE DEF new
<1>4. goals' \in [1..Len(goals) -> Goal]
  BY <1>1, <1>2, <1>3
<1>5. goals' \in Seq(Goal) /\ Len(goals') = Len(goals)
  BY <1>1, <1>4, SeqByPoints
<1>6. \A j \in DOMAIN goals : goals'[j] = new(j)
  BY <1>3
<1>7. DOMAIN goals' = DOMAIN goals
  BY <1>3
<1>8. KeepsGoals
  BY <1>2, <1>5, <1>6, <1>7 DEF KeepsGoals
<1>9. QED
  BY <1>2, <1>6, <1>8 DEF Nav2Accepts

LEMMA SendFacts ==
  ASSUME TypeOK, NEW goal \in Goal, goals' = Append(goals, goal)
  PROVE  /\ goals' \in Seq(Goal) /\ Len(goals') = Len(goals) + 1
         /\ DOMAIN goals' = DOMAIN goals \cup {Len(goals) + 1}
         /\ Len(goals) + 1 \notin DOMAIN goals
         /\ goals'[Len(goals) + 1] = goal
         /\ \A i \in DOMAIN goals : goals'[i] = goals[i]
<1>1. goals \in Seq(Goal) /\ Len(goals) \in Nat /\ DOMAIN goals = 1..Len(goals)
  BY GoalFacts DEF TypeOK
<1>2. /\ goals' \in Seq(Goal) /\ Len(goals') = Len(goals) + 1
      /\ goals'[Len(goals) + 1] = goal
      /\ \A i \in 1..Len(goals) : goals'[i] = goals[i]
  BY <1>1, AppendFacts
<1>3. DOMAIN goals' = 1..Len(goals) + 1
  BY <1>1, <1>2, SeqFacts
<1>4. QED
  BY <1>1, <1>2, <1>3

-----------------------------------------------------------------------------
(* Generations and verdicts *)

LEMMA HistoryFacts ==
  ASSUME TypeOK
  PROVE  /\ nav_generation \in Nat /\ Generations = 1..nav_generation
         /\ DOMAIN requested = Generations /\ DOMAIN verdicts = Generations
         /\ \A g \in Generations : /\ requested[g] \in Targets \cup {"cancel", "abort"}
                                   /\ verdicts[g] \in Seq(Verdicts)
BY SeqFacts DEF TypeOK, Generations

LEMMA NextGenerationFacts ==
  ASSUME TypeOK, NEW what \in Targets \cup {"cancel", "abort"},
         NextGeneration(what)
  PROVE  /\ nav_generation' \in Nat /\ nav_generation' = nav_generation + 1
         /\ requested' \in Seq(Targets \cup {"cancel", "abort"})
         /\ Len(requested') = nav_generation'
         /\ verdicts' \in Seq(Seq(Verdicts)) /\ Len(verdicts') = nav_generation'
         /\ requested'[nav_generation'] = what
         /\ verdicts'[nav_generation'] = <<>>
         /\ Generations' = Generations \cup {nav_generation'}
         /\ nav_generation' \notin Generations
         /\ \A g \in Generations :
              requested'[g] = requested[g] /\ verdicts'[g] = verdicts[g]
<1>1. <<>> \in Seq(Verdicts)
  BY EmptySeq
<1>2. /\ requested \in Seq(Targets \cup {"cancel", "abort"})
      /\ verdicts \in Seq(Seq(Verdicts)) /\ nav_generation \in Nat
      /\ Len(requested) = nav_generation /\ Len(verdicts) = nav_generation
  BY DEF TypeOK
<1>3. /\ requested' = Append(requested, what)
      /\ verdicts' = Append(verdicts, <<>>)
      /\ nav_generation' = nav_generation + 1
  BY DEF NextGeneration
<1>4. /\ requested' \in Seq(Targets \cup {"cancel", "abort"})
      /\ Len(requested') = nav_generation + 1
      /\ requested'[nav_generation + 1] = what
      /\ \A g \in 1..nav_generation : requested'[g] = requested[g]
  BY <1>2, <1>3, AppendFacts
<1>5. /\ verdicts' \in Seq(Seq(Verdicts))
      /\ Len(verdicts') = nav_generation + 1
      /\ verdicts'[nav_generation + 1] = <<>>
      /\ \A g \in 1..nav_generation : verdicts'[g] = verdicts[g]
  BY <1>1, <1>2, <1>3, AppendFacts
<1>6. QED
  BY <1>2, <1>3, <1>4, <1>5 DEF Generations

-----------------------------------------------------------------------------
(* The invariant *)

\* What a job refers to exists.
JobsRefer ==
  \A t \in Threads :
    /\ job[t].generation <= nav_generation
    /\ job[t].step \in Dispatching \cup {"report_failure"} =>
         job[t].generation >= 1
    /\ job[t].step = "cancel" => job[t].handle \in DOMAIN goals

\* A goal belongs to a request; Nav2 responds to it before it can end, and
\* reports the end after it has ended.
GoalsRefer ==
  \A i \in DOMAIN goals :
    /\ goals[i].generation \in Generations
    /\ goals[i].server = "requested" => goals[i].told = "nothing"
    /\ goals[i].told = "result" => goals[i].server \in Ends

TypeInv == TypeOK /\ JobsRefer /\ GoalsRefer

\* What can still lead the current request to a verdict: a thread at work for
\* it, a goal Nav2 has more to say about, or the wait for a pose.
Working(t) ==
  /\ Current(job[t].generation)
  /\ job[t].step \in Dispatching \cup {"report_failure"}
Open(i) == Current(goals[i].generation) /\ ~Answered(i)
UnderWayNow ==
  \/ awaiting_final_validation
  \/ \E t \in Threads : Working(t)
  \/ \E i \in DOMAIN goals : Open(i)

\* The verdict of request g is out, or a thread has it to send.
Speaks(t, g) ==
  /\ job[t].step \in {"cancel", "broadcast"}
  /\ job[t].generation = g
  /\ job[t].message \in Verdicts
Given(g) == verdicts[g] # <<>> \/ \E t \in Threads : Speaks(t, g)

\* It is one of the three, once, and then it is about the current target.
OneHolder ==
  /\ \A t, u \in Threads : Working(t) /\ Working(u) => t = u
  /\ \A i, j \in DOMAIN goals : Open(i) /\ Open(j) => i = j
  /\ (\E t \in Threads : Working(t)) =>
       ~awaiting_final_validation /\ \A i \in DOMAIN goals : ~Open(i)
  /\ awaiting_final_validation => \A i \in DOMAIN goals : ~Open(i)
  /\ UnderWayNow =>
       nav_generation \in Generations /\ requested[nav_generation] = target

\* A verdict is sent once, and only when nothing can lead to another.
OneSpeaker ==
  \A g \in Generations :
    /\ \A t, u \in Threads : Speaks(t, g) /\ Speaks(u, g) => t = u
    /\ Len(verdicts[g]) <= 1
    /\ verdicts[g] # <<>> => \A t \in Threads : ~Speaks(t, g)
    /\ Current(g) /\ UnderWayNow => ~Given(g)

\* What the flags say is so.
FlagsTell ==
  /\ goal_request_pending =>
       \E i \in DOMAIN goals :
         Current(goals[i].generation) /\ goals[i].told = "nothing"
  /\ navigation_active <=> current_goal_handle # NoGoal
  /\ \A i \in DOMAIN goals :
       i = current_goal_handle <=> Open(i) /\ goals[i].told = "response"

\* Every goal was sent to the target of its request.
AimedRight ==
  \A i \in DOMAIN goals : goals[i].target = requested[goals[i].generation]

HolderInv == OneHolder /\ OneSpeaker /\ FlagsTell /\ AimedRight

\* Nav2 reached a goal of request g at its target, and has said so.
Reached(g) ==
  \E i \in DOMAIN goals : /\ goals[i].generation = g
                          /\ goals[i].server = "succeeded"
                          /\ goals[i].told = "result"

EarnedInv ==
  /\ awaiting_final_validation =>
       \A g \in Generations : Current(g) => Reached(g)
  /\ \A t \in Threads, g \in Generations :
       Speaks(t, g) /\ job[t].message = "succeeded" => Reached(g)
  /\ \A g \in Generations : verdicts[g] = <<"succeeded">> => Reached(g)

\* A thread that may yet send a goal of the current request.
Sending(t) == Current(job[t].generation) /\ job[t].step \in Dispatching

\* A goal about to be sent is paid for by a retry, or is the first.
RetryInv ==
  /\ retries_completed <= MaxRetries
  /\ \A g \in Generations :
       /\ Cardinality(GoalsOf(g)) <= 1 + MaxRetries
       /\ Current(g) => Cardinality(GoalsOf(g)) <= 1 + retries_completed
       /\ Current(g) /\ (\E t \in Threads : Sending(t)) =>
            Cardinality(GoalsOf(g)) <= retries_completed

\* A request after the goal of i that has not led to a goal Nav2 runs.
Unserved(g) ==
  \E h \in g + 1..nav_generation :
    /\ requested[h] \in Targets
    /\ \A j \in GoalsOf(h) : goals[j].server \in {"requested", "rejected"}

\* A thread has it to cancel.
Cancelling(i) ==
  \E t \in Threads : job[t].step = "cancel" /\ job[t].handle = i

\* Why a goal that runs is not forgotten.
Tracked(i) ==
  \/ i = current_goal_handle
  \/ goals[i].cancel
  \/ Cancelling(i)
  \/ Unserved(goals[i].generation)

TrackedInv == \A i \in DOMAIN goals : UnderWay(i) => Tracked(i)

-----------------------------------------------------------------------------
(* Types *)

NavTypeOK ==
  /\ target \in Targets
  /\ retries_completed \in Nat
  /\ goal_request_pending \in BOOLEAN
  /\ navigation_active \in BOOLEAN
  /\ awaiting_final_validation \in BOOLEAN
  /\ localization_failure_reported \in BOOLEAN
  /\ current_goal_handle \in 0..Len(goals)
  /\ validation_age \in 0..ValidationTimeout
  /\ user_messages \in 0..MaxUserMessages

HistoryTypeOK ==
  /\ nav_generation \in Nat
  /\ requested \in Seq(Targets \cup {"cancel", "abort"})
  /\ Len(requested) = nav_generation
  /\ verdicts \in Seq(Seq(Verdicts))
  /\ Len(verdicts) = nav_generation
  /\ shown \in Statuses \cup {NoMessage}

LEMMA TypeParts ==
  TypeInv <=> /\ NavTypeOK /\ HistoryTypeOK /\ job \in [Threads -> Job]
              /\ goals \in Seq(Goal) /\ JobsRefer /\ GoalsRefer
BY DEF TypeInv, TypeOK, NavTypeOK, HistoryTypeOK, JobsRefer

LEMMA TypePartsPrimed ==
  TypeInv' <=> /\ NavTypeOK' /\ HistoryTypeOK' /\ job' \in [Threads -> Job]
               /\ goals' \in Seq(Goal) /\ JobsRefer' /\ GoalsRefer'
BY DEF TypeInv, TypeOK, NavTypeOK, HistoryTypeOK, JobsRefer

LEMMA JobFacts ==
  ASSUME TypeInv, NEW t \in Threads
  PROVE  /\ job[t] \in Job /\ job[t].generation \in Nat
         /\ job[t].step \in Steps /\ job[t].handle \in Nat
         /\ job[t].is_retry \in BOOLEAN
         /\ job[t].message \in Statuses \cup {NoMessage}
         /\ job[t].generation <= nav_generation
         /\ job[t].generation # 0 => job[t].generation \in Generations
BY HistoryFacts DEF TypeInv, TypeOK, JobsRefer, Job

\* What a job that is replaced owes to the types.
LEMMA ContinueTypes ==
  ASSUME TypeInv, NEW t \in Threads, NEW next \in Job, Continue(t, next),
         nav_generation' \in Nat, nav_generation <= nav_generation',
         DOMAIN goals \subseteq DOMAIN goals',
         next.generation <= nav_generation',
         next.step \in Dispatching \cup {"report_failure"} =>
           next.generation >= 1,
         next.step = "cancel" => next.handle \in DOMAIN goals'
  PROVE  job' \in [Threads -> Job] /\ JobsRefer'
<1>1. /\ job' \in [Threads -> Job] /\ job'[t] = next
      /\ \A u \in Threads : u # t => job'[u] = job[u]
  BY ContinueFacts DEF TypeInv
<1>2. ASSUME NEW u \in Threads, u # t
      PROVE  /\ job'[u].generation <= nav_generation'
             /\ job'[u].step \in Dispatching \cup {"report_failure"} =>
                  job'[u].generation >= 1
             /\ job'[u].step = "cancel" => job'[u].handle \in DOMAIN goals'
  <2>1. job'[u] = job[u]
    BY <1>1, <1>2
  <2>2. job[u].generation \in Nat /\ nav_generation \in Nat
    BY JobFacts DEF TypeInv, TypeOK
  <2>3. QED
    BY <2>1, <2>2 DEF TypeInv, JobsRefer
<1>3. QED
  BY <1>1, <1>2 DEF JobsRefer

LEMMA GoalsReferStay ==
  ASSUME TypeInv, KeepsGoals, Generations \subseteq Generations',
         \A i \in DOMAIN goals :
           /\ goals'[i].server = "requested" => goals'[i].told = "nothing"
           /\ goals'[i].told = "result" => goals'[i].server \in Ends
  PROVE  GoalsRefer'
BY DEF KeepsGoals, TypeInv, GoalsRefer

LEMMA SameGoalsRefer ==
  ASSUME TypeInv, UNCHANGED goals, Generations \subseteq Generations'
  PROVE  KeepsGoals /\ GoalsRefer'
<1>1. KeepsGoals
  BY DEF KeepsGoals, TypeInv, TypeOK
<1>2. QED
  BY <1>1, GoalsReferStay DEF TypeInv, GoalsRefer

LEMMA CancelThenSays ==
  ASSUME TypeInv, NEW g \in Nat, NEW s \in Statuses, NEW next,
         next = CancelThen(current_goal_handle, Say(g, s))
  PROVE  /\ next \in Job /\ next.generation = g /\ next.message = s
         /\ next.step \in {"cancel", "broadcast"}
         /\ next.step = "cancel" =>
              next.handle = current_goal_handle /\ next.handle \in DOMAIN goals
         /\ current_goal_handle # NoGoal => next.step = "cancel"
<1>1. /\ current_goal_handle \in Nat
      /\ current_goal_handle # NoGoal => current_goal_handle \in DOMAIN goals
  BY GoalFacts DEF TypeInv, TypeOK, NoGoal
<1>2. /\ Say(g, s) \in Job /\ Say(g, s).generation = g
      /\ Say(g, s).message = s /\ Say(g, s).step = "broadcast"
  BY SayFacts
<1>3. QED
  BY <1>1, <1>2, CancelThenFacts

LEMMA BroadcastFacts ==
  ASSUME TypeInv, NEW t \in Threads, Broadcast(t)
  PROVE  /\ verdicts' \in Seq(Seq(Verdicts)) /\ Len(verdicts') = nav_generation
         /\ \A g \in Generations :
              verdicts'[g] = IF Speaks(t, g)
                               THEN Append(verdicts[g], job[t].message)
                               ELSE verdicts[g]
<1> DEFINE h == job[t].generation
           status == job[t].message
<1>1. /\ verdicts \in Seq(Seq(Verdicts)) /\ Len(verdicts) = nav_generation
      /\ nav_generation \in Nat /\ Generations = 1..nav_generation
  BY HistoryFacts DEF TypeInv, TypeOK
<1>2. job[t].step = "broadcast" /\ h \in Nat /\ h <= nav_generation
  BY JobFacts DEF Broadcast, At
<1>3. verdicts' = IF h # 0 /\ status \in Verdicts
                    THEN [verdicts EXCEPT ![h] = Append(@, status)]
                    ELSE verdicts
  BY DEF Broadcast
<1>4. \A g \in Generations : Speaks(t, g) <=> g = h /\ status \in Verdicts
  BY <1>2 DEF Speaks
<1> HIDE DEF h, status
<1>5. CASE h # 0 /\ status \in Verdicts
  <2>1. h \in 1..Len(verdicts)
    BY <1>1, <1>2, <1>5
  <2>2. verdicts[h] \in Seq(Verdicts)
    BY <1>1, <2>1, ElementOfSeq
  <2>3. Append(verdicts[h], status) \in Seq(Verdicts)
    BY <1>5, <2>2, AppendFacts
  <2>4. verdicts' = [verdicts EXCEPT ![h] = Append(verdicts[h], status)]
    BY <1>3, <1>5
  <2>5. /\ verdicts' \in Seq(Seq(Verdicts)) /\ Len(verdicts') = Len(verdicts)
        /\ \A g \in 1..Len(verdicts) :
             verdicts'[g] = IF g = h THEN Append(verdicts[h], status)
                                     ELSE verdicts[g]
    BY <1>1, <2>1, <2>3, <2>4, ExceptSeq
  <2>6. QED
    BY <1>1, <1>4, <1>5, <2>5 DEF status
<1>6. CASE ~(h # 0 /\ status \in Verdicts)
  <2>1. verdicts' = verdicts
    BY <1>3, <1>6
  <2>2. \A g \in Generations : ~Speaks(t, g)
    BY <1>1, <1>4, <1>6
  <2>3. QED
    BY <1>1, <2>1, <2>2
<1>7. QED
  BY <1>5, <1>6

LEMMA NoGoalType ==
  ASSUME TypeInv, UNCHANGED goals
  PROVE  NoGoal \in 0..Len(goals')
BY GoalFacts DEF TypeInv, NoGoal

LEMMA UserCounts ==
  ASSUME TypeInv, user_messages < MaxUserMessages
  PROVE  user_messages + 1 \in 0..MaxUserMessages
BY BridgeAssumption DEF TypeInv, TypeOK

LEMMA NavigateTypes ==
  ASSUME TypeInv, NEW t \in Targets, Navigate(t) PROVE TypeInv'
<1> DEFINE next == Dispatch(nav_generation + 1, FALSE)
<1>1. /\ NextGeneration(t) /\ ForgetGoal /\ Continue("io", next)
      /\ user_messages' = user_messages + 1 /\ user_messages < MaxUserMessages
      /\ UNCHANGED <<validation_age, goals, shown>>
      /\ target' = t /\ retries_completed' = 0
      /\ localization_failure_reported' = FALSE
  BY DEF Navigate, UserSends
<1>2. /\ nav_generation \in Nat /\ nav_generation' = nav_generation + 1
      /\ HistoryTypeOK' /\ Generations \subseteq Generations'
  BY <1>1, NextGenerationFacts DEF TypeInv, TypeOK, HistoryTypeOK
<1>3. /\ next \in Job /\ next.generation = nav_generation'
      /\ next.step = "wait_server"
  <2>1. nav_generation + 1 \in Nat
    BY <1>2
  <2>2. QED
    BY <1>2, <2>1, DispatchFacts
<1> HIDE DEF next
<1>4. job' \in [Threads -> Job] /\ JobsRefer'
  BY <1>1, <1>2, <1>3, ContinueTypes DEF Threads
<1>5. goals' \in Seq(Goal) /\ GoalsRefer'
  BY <1>1, <1>2, SameGoalsRefer, TypeParts
<1>6. NavTypeOK'
  BY <1>1, UserCounts, NoGoalType, TypeParts DEF ForgetGoal, NavTypeOK
<1>7. QED
  BY <1>2, <1>4, <1>5, <1>6, TypePartsPrimed

LEMMA CancelRequestedTypes == TypeInv /\ CancelRequested => TypeInv'
<1> SUFFICES ASSUME TypeInv, CancelRequested PROVE TypeInv'
  OBVIOUS
<1> DEFINE next == CancelThen(current_goal_handle, Say(0, "canceled"))
<1>1. /\ NextGeneration("cancel") /\ ForgetGoal /\ Continue("io", next)
      /\ user_messages' = user_messages + 1 /\ user_messages < MaxUserMessages
      /\ UNCHANGED <<target, retries_completed, validation_age, goals, shown>>
      /\ localization_failure_reported' = FALSE
  BY DEF CancelRequested, UserSends
<1>2. /\ nav_generation \in Nat /\ nav_generation' = nav_generation + 1
      /\ HistoryTypeOK' /\ Generations \subseteq Generations'
  BY <1>1, NextGenerationFacts DEF TypeInv, TypeOK, HistoryTypeOK
<1>3. /\ next \in Job /\ next.generation = 0
      /\ next.step \in {"cancel", "broadcast"}
      /\ next.step = "cancel" => next.handle \in DOMAIN goals
  BY CancelThenSays DEF Statuses
<1> HIDE DEF next
<1>4. job' \in [Threads -> Job] /\ JobsRefer'
  BY <1>1, <1>2, <1>3, ContinueTypes DEF Threads, Dispatching
<1>5. goals' \in Seq(Goal) /\ GoalsRefer'
  BY <1>1, <1>2, SameGoalsRefer, TypeParts
<1>6. NavTypeOK'
  BY <1>1, UserCounts, NoGoalType, TypeParts DEF ForgetGoal, NavTypeOK
<1>7. QED
  BY <1>2, <1>4, <1>5, <1>6, TypePartsPrimed

LEMMA AbortTypes == TypeInv /\ on_localization_abort => TypeInv'
<1> SUFFICES ASSUME TypeInv, on_localization_abort PROVE TypeInv'
  OBVIOUS
<1> DEFINE next == CancelThen(current_goal_handle,
                              Say(nav_generation, "localization_failed"))
<1>1. /\ NextGeneration("abort") /\ ForgetGoal /\ Continue("exec", next)
      /\ UNCHANGED <<target, retries_completed, validation_age, goals,
                     user_messages, shown>>
      /\ localization_failure_reported' = TRUE
  BY DEF on_localization_abort, Invalidate
<1>2. /\ nav_generation \in Nat /\ nav_generation' = nav_generation + 1
      /\ HistoryTypeOK' /\ Generations \subseteq Generations'
  BY <1>1, NextGenerationFacts DEF TypeInv, TypeOK, HistoryTypeOK
<1>3. /\ next \in Job /\ next.generation = nav_generation
      /\ next.step \in {"cancel", "broadcast"}
      /\ next.step = "cancel" => next.handle \in DOMAIN goals
  BY <1>2, CancelThenSays DEF Statuses
<1> HIDE DEF next
<1>4. job' \in [Threads -> Job] /\ JobsRefer'
  BY <1>1, <1>2, <1>3, ContinueTypes DEF Threads, Dispatching
<1>5. goals' \in Seq(Goal) /\ GoalsRefer'
  BY <1>1, <1>2, SameGoalsRefer, TypeParts
<1>6. NavTypeOK'
  BY <1>1, UserCounts, NoGoalType, TypeParts DEF ForgetGoal, NavTypeOK
<1>7. QED
  BY <1>2, <1>4, <1>5, <1>6, TypePartsPrimed

\* A thread goes on with another job, and the goals and generations stay.
LEMMA JobStepTypes ==
  ASSUME TypeInv, NEW t \in Threads, NEW next \in Job, Continue(t, next),
         UNCHANGED <<nav_generation, requested, verdicts, goals, shown>>,
         next.generation <= nav_generation,
         next.step \in Dispatching \cup {"report_failure"} =>
           next.generation >= 1,
         next.step # "cancel", NavTypeOK'
  PROVE  TypeInv'
<1>1. HistoryTypeOK' /\ nav_generation \in Nat
  BY TypeParts DEF HistoryTypeOK
<1>2. Generations' = Generations
  BY DEF Generations
<1>3. job' \in [Threads -> Job] /\ JobsRefer'
  BY <1>1, ContinueTypes
<1>4. goals' \in Seq(Goal) /\ GoalsRefer'
  BY <1>2, SameGoalsRefer, TypeParts
<1>5. QED
  BY <1>1, <1>3, <1>4, TypePartsPrimed

LEMMA ProceedTypes ==
  ASSUME TypeInv, NEW t \in Threads, Proceed(t) PROVE TypeInv'
<1> USE DEF navVars, flagVars, historyVars
<1> DEFINE g == job[t].generation
<1>1. /\ job[t] \in Job /\ g \in Nat /\ g <= nav_generation
      /\ job[t].message \in Statuses \cup {NoMessage}
      /\ nav_generation \in Nat
  BY JobFacts, HistoryFacts DEF TypeInv
<1>2. Idle \in Job /\ Idle.generation = 0 /\ Idle.step = "idle"
  BY IdleFacts
<1>3. job[t].step \in Dispatching \cup {"report_failure"} => g >= 1
  BY DEF TypeInv, JobsRefer
<1>4. \A s \in Statuses : /\ Say(g, s) \in Job
                          /\ Say(g, s).generation = g
                          /\ Say(g, s).step = "broadcast"
  BY <1>1, SayFacts
<1>5. NavTypeOK /\ HistoryTypeOK
  BY TypeParts
<1> HIDE DEF g
<1>6. CASE WaitServer(t)
  <2>1. PICK s \in {"read_target", "report_failure", "unavailable"} :
          Continue(t, [job[t] EXCEPT !.step = s])
    BY <1>6 DEF WaitServer, WhenUnavailable
  <2> DEFINE next == [job[t] EXCEPT !.step = s]
  <2>2. next \in Job /\ next.generation = g /\ next.step = s /\ g >= 1
    <3>1. s \in Steps
      BY DEF Steps
    <3>2. g >= 1
      BY <1>3, <1>6 DEF WaitServer, At, Dispatching
    <3>3. QED
      BY <1>1, <3>1, <3>2, StepFacts DEF g
  <2> HIDE DEF next
  <2>3. NavTypeOK' /\ Continue(t, next)
    BY <1>5, <1>6, <2>1 DEF WaitServer, NavTypeOK, next
  <2>4. QED
    BY <1>1, <1>6, <2>2, <2>3, JobStepTypes DEF WaitServer
<1>7. CASE ServerUnavailable(t)
  <2>1. NavTypeOK'
    BY <1>5, <1>7 DEF ServerUnavailable, NavTypeOK
  <2>2. Continue(t, Say(g, "server_unavailable")) \/ Continue(t, Idle)
    BY <1>7 DEF ServerUnavailable, g
  <2>3. QED
    BY <1>1, <1>2, <1>4, <1>7, <2>1, <2>2, JobStepTypes
    DEF ServerUnavailable, Statuses, Dispatching
<1>8. CASE ReadTarget(t)
  <2> DEFINE next == [job[t] EXCEPT !.step = "send_goal"]
  <2>1. next \in Job /\ next.generation = g /\ next.step = "send_goal" /\ g >= 1
    BY <1>1, <1>3, <1>8, StepFacts DEF Steps, Dispatching, ReadTarget, At, g
  <2>2. Continue(t, next) \/ Continue(t, Idle)
    BY <1>8 DEF ReadTarget
  <2> HIDE DEF next
  <2>3. NavTypeOK'
    BY <1>5, <1>8 DEF ReadTarget, NavTypeOK
  <2>4. QED
    BY <1>1, <1>2, <1>8, <2>1, <2>2, <2>3, JobStepTypes
    DEF ReadTarget, Dispatching
<1>9. CASE SendGoal(t)
  <2>1. CASE Current(g)
    <3> DEFINE goal == [generation |-> g, target |-> target,
                        is_retry |-> job[t].is_retry, server |-> "requested",
                        told |-> "nothing", cancel |-> FALSE]
    <3>1. /\ Continue(t, Idle) /\ goals' = Append(goals, goal)
          /\ goal_request_pending' = TRUE
          /\ UNCHANGED <<nav_generation, target, retries_completed,
                 navigation_active, awaiting_final_validation,
                 localization_failure_reported, current_goal_handle,
                 validation_age, user_messages, historyVars>>
      BY <1>9, <2>1 DEF SendGoal, g
    <3>2. /\ goal \in Goal /\ goal.generation = g /\ goal.target = target
          /\ goal.server = "requested" /\ goal.told = "nothing"
      BY <1>1, <1>5, JobFacts DEF NavTypeOK, Goal, Ends
    <3> HIDE DEF goal
    <3>3. /\ goals' \in Seq(Goal) /\ Len(goals') = Len(goals) + 1
          /\ DOMAIN goals' = DOMAIN goals \cup {Len(goals) + 1}
          /\ goals'[Len(goals) + 1] = goal
          /\ \A i \in DOMAIN goals : goals'[i] = goals[i]
      BY <3>1, <3>2, SendFacts DEF TypeInv
    <3>4. NavTypeOK'
      <4>1. current_goal_handle' \in 0..Len(goals')
        BY <1>5, <3>1, <3>3, GoalFacts DEF NavTypeOK, TypeInv
      <4>2. QED
        BY <1>5, <3>1, <4>1 DEF NavTypeOK
    <3>5. job' \in [Threads -> Job] /\ JobsRefer'
      BY <1>1, <1>2, <3>1, <3>3, ContinueTypes DEF Dispatching
    <3>6. GoalsRefer'
      <4>1. g >= 1 /\ g = nav_generation
        BY <1>3, <1>9, <2>1 DEF SendGoal, At, Dispatching, Current, g
      <4>2. QED
        BY <1>1, <3>1, <3>2, <3>3, <4>1
        DEF TypeInv, GoalsRefer, Generations
    <3>7. HistoryTypeOK'
      BY <1>5, <3>1 DEF HistoryTypeOK
    <3>8. QED
      BY <3>3, <3>4, <3>5, <3>6, <3>7, TypePartsPrimed
  <2>2. CASE ~Current(g)
    <3>1. NavTypeOK' /\ Continue(t, Idle) /\ UNCHANGED goals
      BY <1>5, <1>9, <2>2 DEF SendGoal, NavTypeOK, g
    <3>2. QED
      BY <1>1, <1>2, <1>9, <3>1, JobStepTypes DEF SendGoal, Dispatching
  <2>3. QED
    BY <2>1, <2>2
<1>10. CASE CancelGoal(t)
  <2>1. /\ job[t].step = "cancel" /\ job[t].handle \in DOMAIN goals
        /\ goals' = [goals EXCEPT ![job[t].handle].cancel = TRUE]
        /\ UNCHANGED <<navVars, user_messages, historyVars>>
    BY <1>10 DEF CancelGoal, At, TypeInv, JobsRefer
  <2>2. /\ KeepsGoals
        /\ \A i \in DOMAIN goals : /\ goals'[i].server = goals[i].server
                                    /\ goals'[i].told = goals[i].told
    BY <2>1, CancelFacts DEF TypeInv
  <2>3. PICK next \in Job : /\ Continue(t, next)
                            /\ next.generation <= nav_generation
                            /\ next.step \in {"idle", "broadcast"}
    BY <1>1, <1>2, <1>4, <1>10 DEF CancelGoal, NoMessage, g
  <2>4. job' \in [Threads -> Job] /\ JobsRefer'
    BY <1>1, <2>1, <2>2, <2>3, ContinueTypes DEF KeepsGoals, Dispatching
  <2>5. GoalsRefer'
    BY <2>1, <2>2, GoalsReferStay DEF TypeInv, GoalsRefer, Generations
  <2>6. NavTypeOK' /\ HistoryTypeOK' /\ goals' \in Seq(Goal)
    BY <1>5, <2>1, <2>2 DEF NavTypeOK, HistoryTypeOK, KeepsGoals
  <2>7. QED
    BY <2>4, <2>5, <2>6, TypePartsPrimed
<1>11. CASE FailureReport(t)
  <2>1. \/ Continue(t, Say(g, "localization_failed"))
        \/ Continue(t, Idle)
    BY <1>11 DEF FailureReport, g
  <2>2. NavTypeOK'
    BY <1>5, <1>11, NoGoalType DEF FailureReport, ForgetGoal, NavTypeOK
  <2>3. QED
    BY <1>1, <1>2, <1>4, <1>11, <2>1, <2>2, JobStepTypes
    DEF FailureReport, Statuses, Dispatching
<1>12. CASE Broadcast(t)
  <2>1. /\ Continue(t, Idle) /\ shown' = job[t].message
        /\ UNCHANGED <<navVars, goals, user_messages, requested>>
    BY <1>12 DEF Broadcast
  <2>2. HistoryTypeOK'
    BY <1>1, <1>5, <1>12, <2>1, BroadcastFacts DEF HistoryTypeOK
  <2>3. job' \in [Threads -> Job] /\ JobsRefer'
    BY <1>1, <1>2, <2>1, ContinueTypes DEF Dispatching
  <2>4. goals' \in Seq(Goal) /\ GoalsRefer' /\ NavTypeOK'
    BY <1>5, <2>1, SameGoalsRefer, TypeParts DEF Generations, NavTypeOK
  <2>5. QED
    BY <2>2, <2>3, <2>4, TypePartsPrimed
<1>13. QED
  BY <1>6, <1>7, <1>8, <1>9, <1>10, <1>11, <1>12 DEF Proceed

\* What the answer of Nav2 leaves the executor to do.
LEMMA ResponseJob ==
  ASSUME TypeInv, NEW i \in DOMAIN goals, on_goal_response(i)
  PROVE  \E next \in Job :
           /\ Continue("exec", next)
           /\ ~CurrentResponse(i) =>
                /\ next.generation = 0 /\ next.message = NoMessage
                /\ next.step \in {"idle", "cancel"}
                /\ Accepted(i) => next.step = "cancel"
                /\ next.step = "cancel" => next.handle = i
           /\ CurrentResponse(i) /\ Accepted(i) =>
                /\ next.generation \in {0, goals[i].generation}
                /\ next.step \in {"idle", "broadcast"}
                /\ next.message \in {NoMessage, "accepted"}
           /\ CurrentResponse(i) /\ ~Accepted(i) =>
                /\ next.generation = goals[i].generation
                /\ \/ next.step = "report_failure" /\ next.message = NoMessage
                   \/ next.step = "broadcast" /\ next.message = "rejected"
<1> DEFINE g == goals[i].generation
<1>1. g \in Nat /\ i # NoGoal /\ i \in Nat
  BY GoalFacts DEF TypeInv, Goal, NoGoal
<1>2. /\ Idle \in Job /\ Idle.step = "idle" /\ Idle.generation = 0
      /\ Idle.message = NoMessage
  BY IdleFacts
<1>3. /\ CancelThen(i, Idle) \in Job /\ CancelThen(i, Idle).step = "cancel"
      /\ CancelThen(i, Idle).handle = i /\ CancelThen(i, Idle).generation = 0
      /\ CancelThen(i, Idle).message = NoMessage
  BY <1>1, <1>2, CancelThenFacts
<1>4. \A s \in Statuses : /\ Say(g, s) \in Job /\ Say(g, s).step = "broadcast"
                          /\ Say(g, s).generation = g /\ Say(g, s).message = s
  BY <1>1, SayFacts
<1>5. /\ ReportFailure(g) \in Job /\ ReportFailure(g).step = "report_failure"
      /\ ReportFailure(g).generation = g
      /\ ReportFailure(g).message = NoMessage
  BY <1>1, ReportFacts
<1> HIDE DEF g
<1>6. CASE StaleResponse(i)
  <2>1. /\ ~CurrentResponse(i)
        /\ Continue("exec", IF Accepted(i) THEN CancelThen(i, Idle) ELSE Idle)
    BY <1>6 DEF StaleResponse
  <2>2. QED
    BY <1>2, <1>3, <2>1
<1>7. CASE GoalAccepted(i)
  <2>1. /\ CurrentResponse(i) /\ Accepted(i)
        /\ Continue("exec", Idle) \/ Continue("exec", Say(g, "accepted"))
    BY <1>7 DEF GoalAccepted, g
  <2>2. QED
    BY <1>2, <1>4, <2>1 DEF Statuses, g
<1>8. CASE GoalRejected(i)
  <2>1. /\ CurrentResponse(i) /\ ~Accepted(i)
        /\ \/ Continue("exec", ReportFailure(g))
           \/ Continue("exec", Say(g, "rejected"))
    BY <1>8 DEF GoalRejected, g
  <2>2. QED
    BY <1>4, <1>5, <2>1 DEF Statuses, g
<1>9. QED
  BY <1>6, <1>7, <1>8 DEF on_goal_response

LEMMA ResponseTypes ==
  ASSUME TypeInv, NEW i \in DOMAIN goals, on_goal_response(i)
  PROVE  TypeInv'
<1>1. /\ goals[i].told = "nothing" /\ goals[i].server # "requested"
      /\ Told(i, "response")
      /\ UNCHANGED <<nav_generation, user_messages, historyVars>>
  BY DEF on_goal_response, ResponseReady, StaleResponse, GoalAccepted,
         GoalRejected, navVars
<1>2. /\ KeepsGoals /\ goals'[i].server = goals[i].server
      /\ goals'[i].told = "response"
      /\ \A j \in DOMAIN goals : j # i => goals'[j] = goals[j]
  BY <1>1, ToldFacts DEF TypeInv
<1>3. PICK next \in Job :
        /\ Continue("exec", next)
        /\ next.generation \in {0, goals[i].generation}
        /\ next.step = "cancel" => next.handle = i
        /\ next.step = "report_failure" => next.generation = goals[i].generation
        /\ next.step \notin Dispatching
  BY ResponseJob DEF Dispatching
<1>4. /\ goals[i].generation \in 1..nav_generation /\ nav_generation \in Nat
      /\ DOMAIN goals' = DOMAIN goals
  BY <1>2, HistoryFacts DEF TypeInv, GoalsRefer, KeepsGoals
<1>5. job' \in [Threads -> Job] /\ JobsRefer'
  BY <1>1, <1>3, <1>4, ContinueTypes DEF Threads
<1>6. GoalsRefer' /\ goals' \in Seq(Goal)
  BY <1>1, <1>2, GoalsReferStay
  DEF TypeInv, GoalsRefer, Generations, KeepsGoals
<1>7. NavTypeOK'
  <2>1. i \in 0..Len(goals) /\ NavTypeOK /\ Len(goals') = Len(goals)
    BY <1>2, GoalFacts, TypeParts DEF TypeInv, KeepsGoals
  <2>2. QED
    BY <1>1, <2>1
    DEF on_goal_response, StaleResponse, GoalAccepted, GoalRejected, navVars,
        flagVars, NavTypeOK
<1>8. HistoryTypeOK'
  BY <1>1, TypeParts DEF HistoryTypeOK, historyVars
<1>9. QED
  BY <1>5, <1>6, <1>7, <1>8, TypePartsPrimed

LEMMA ResultTypes ==
  ASSUME TypeInv, NEW i \in DOMAIN goals, on_goal_result(i)
  PROVE  TypeInv'
<1>1. /\ goals[i].told = "response" /\ goals[i].server \in Ends
      /\ Told(i, "result")
      /\ UNCHANGED <<nav_generation, user_messages, historyVars>>
  BY DEF on_goal_result, ResultReady, StaleResult, Arrival, NavigationFailed,
         navVars
<1>2. /\ KeepsGoals /\ goals'[i].server = goals[i].server
      /\ goals'[i].told = "result"
      /\ \A j \in DOMAIN goals : j # i => goals'[j] = goals[j]
  BY <1>1, ToldFacts DEF TypeInv
<1>3. /\ goals[i].generation \in 1..nav_generation /\ nav_generation \in Nat
      /\ DOMAIN goals' = DOMAIN goals /\ goals[i].generation \in Nat
  BY <1>2, HistoryFacts DEF TypeInv, GoalsRefer, KeepsGoals
<1>4. job' \in [Threads -> Job] /\ JobsRefer'
  <2>1. CASE job' = job
    BY <1>1, <1>3, <2>1 DEF TypeInv, TypeOK, JobsRefer
  <2>2. CASE NavigationFailed(i)
    <3> DEFINE next == Say(goals[i].generation, goals[i].server)
    <3>1. /\ next \in Job /\ next.generation = goals[i].generation
          /\ next.step = "broadcast"
      BY <1>1, <1>3, SayFacts DEF Ends, Statuses
    <3>2. Continue("exec", next)
      BY <2>2 DEF NavigationFailed
    <3> HIDE DEF next
    <3>3. QED
      BY <1>1, <1>3, <3>1, <3>2, ContinueTypes DEF Threads, Dispatching
  <2>3. QED
    BY <2>1, <2>2 DEF on_goal_result, StaleResult, Arrival
<1>5. GoalsRefer' /\ goals' \in Seq(Goal)
  BY <1>1, <1>2, GoalsReferStay
  DEF TypeInv, GoalsRefer, Generations, KeepsGoals
<1>6. NavTypeOK'
  <2>1. /\ NoGoal \in 0..Len(goals) /\ NavTypeOK /\ Len(goals') = Len(goals)
        /\ 0 \in 0..ValidationTimeout
    BY <1>2, GoalFacts, TypeParts, BridgeAssumption
    DEF TypeInv, KeepsGoals, NoGoal
  <2>2. QED
    BY <1>1, <2>1
    DEF on_goal_result, StaleResult, Arrival, NavigationFailed, navVars,
        flagVars, NavTypeOK
<1>7. HistoryTypeOK'
  BY <1>1, TypeParts DEF HistoryTypeOK, historyVars
<1>8. QED
  BY <1>4, <1>5, <1>6, <1>7, TypePartsPrimed

\* What a pose within or outside the tolerance leads to.
LEMMA PoseJob ==
  ASSUME TypeInv, NEW age, NEW within \in BOOLEAN, on_lcode_pose(age, within)
  PROVE  \E next \in Job :
           /\ Continue("exec", next) /\ next.generation = nav_generation
           /\ \/ /\ next.step = "broadcast" /\ next.message = "succeeded"
                 /\ retries_completed' = retries_completed
              \/ /\ next.step = "wait_server" /\ next.message = NoMessage
                 /\ retries_completed < MaxRetries
                 /\ retries_completed' = retries_completed + 1
              \/ /\ next.step = "report_failure" /\ next.message = NoMessage
                 /\ retries_completed' = retries_completed
<1>1. nav_generation \in Nat
  BY HistoryFacts DEF TypeInv
<1>2. CASE Decision(within) = "SUCCEEDED"
  <2>1. Continue("exec", Say(nav_generation, "succeeded"))
    BY <1>2 DEF on_lcode_pose
  <2>2. retries_completed' = retries_completed
    BY <1>2 DEF on_lcode_pose
  <2>3. QED
    BY <1>1, <2>1, <2>2, SayFacts DEF Statuses
<1>3. CASE Decision(within) = "RETRY"
  <2>1. Continue("exec", Dispatch(nav_generation, TRUE))
    BY <1>3 DEF on_lcode_pose
  <2>2. retries_completed' = retries_completed + 1
    BY <1>3 DEF on_lcode_pose
  <2>3. retries_completed < MaxRetries
    BY <1>3 DEF Decision
  <2>4. QED
    BY <1>1, <2>1, <2>2, <2>3, DispatchFacts
<1>4. CASE Decision(within) = "FAILED"
  <2>1. Continue("exec", ReportFailure(nav_generation))
    BY <1>4 DEF on_lcode_pose
  <2>2. retries_completed' = retries_completed
    BY <1>4 DEF on_lcode_pose
  <2>3. QED
    BY <1>1, <2>1, <2>2, ReportFacts
<1>5. QED
  BY <1>2, <1>3, <1>4 DEF Decision

\* The wait for a pose ends, one way or the other, only for a request.
AwaitsForRequest == awaiting_final_validation => nav_generation >= 1

LEMMA PoseTypes ==
  ASSUME TypeInv, AwaitsForRequest, NEW age, NEW within \in BOOLEAN,
         on_lcode_pose(age, within)
  PROVE  TypeInv'
<1>1. PICK next \in Job :
        /\ Continue("exec", next) /\ next.generation = nav_generation
        /\ next.step # "cancel"
        /\ retries_completed' \in {retries_completed, retries_completed + 1}
  BY PoseJob
<1>2. NavTypeOK'
  <2>1. /\ awaiting_final_validation' = FALSE
        /\ UNCHANGED <<target, goal_request_pending, navigation_active,
                       localization_failure_reported, current_goal_handle,
                       validation_age, goals, user_messages>>
    BY DEF on_lcode_pose
  <2>2. retries_completed' \in Nat
    BY <1>1, TypeParts DEF NavTypeOK
  <2>3. QED
    BY <2>1, <2>2, TypeParts DEF NavTypeOK
<1>3. nav_generation \in Nat /\ nav_generation >= 1
  BY HistoryFacts DEF TypeInv, on_lcode_pose, ValidatesWith, AwaitsForRequest
<1>4. QED
  BY <1>1, <1>2, <1>3, JobStepTypes DEF on_lcode_pose, Threads, historyVars

LEMMA ValidationTimeoutTypes ==
  ASSUME TypeInv, AwaitsForRequest, check_validation_timeout
  PROVE  TypeInv'
<1> DEFINE next == ReportFailure(nav_generation)
<1>1. NavTypeOK'
  BY TypeParts DEF check_validation_timeout, NavTypeOK
<1>2. nav_generation \in Nat /\ nav_generation >= 1
  BY HistoryFacts DEF TypeInv, check_validation_timeout, AwaitsForRequest
<1>3. /\ next \in Job /\ next.generation = nav_generation
      /\ next.step = "report_failure"
  BY <1>2, ReportFacts
<1>4. Continue("exec", next)
  BY DEF check_validation_timeout
<1> HIDE DEF next
<1>5. QED
  BY <1>1, <1>2, <1>3, <1>4, JobStepTypes
  DEF check_validation_timeout, Threads, historyVars

\* Steps of Nav2, and of the clock, which give no thread a job.
LEMMA QuietStepTypes ==
  ASSUME TypeInv, KeepsGoals, NavTypeOK',
         UNCHANGED <<nav_generation, job, historyVars>>,
         \A i \in DOMAIN goals :
           /\ goals'[i].server = "requested" => goals'[i].told = "nothing"
           /\ goals'[i].told = "result" => goals'[i].server \in Ends
  PROVE  TypeInv'
<1>1. HistoryTypeOK' /\ job' \in [Threads -> Job] /\ Generations' = Generations
  BY TypeParts DEF HistoryTypeOK, historyVars, Generations
<1>2. JobsRefer'
  BY DEF TypeInv, JobsRefer, KeepsGoals
<1>3. GoalsRefer' /\ goals' \in Seq(Goal)
  BY <1>1, GoalsReferStay DEF KeepsGoals
<1>4. QED
  BY <1>1, <1>2, <1>3, TypePartsPrimed

LEMMA Nav2Types ==
  ASSUME TypeInv, NEW i \in DOMAIN goals,
         \/ Nav2Accepts(i)
         \/ Nav2Rejects(i)
         \/ \E how \in Ends : Nav2Ends(i, how)
  PROVE  TypeInv'
<1>1. /\ UNCHANGED <<navVars, job, user_messages, historyVars>>
      /\ NavTypeOK /\ GoalsRefer
  BY TypeParts DEF Nav2Accepts, Nav2Rejects, Nav2Ends
<1>2. KeepsGoals => NavTypeOK'
  BY <1>1 DEF NavTypeOK, KeepsGoals, navVars, flagVars
<1>3. \A j \in DOMAIN goals :
        /\ goals[j].server \in {"requested", "running", "rejected"} \cup Ends
        /\ goals[j].told \in {"nothing", "response", "result"}
  BY GoalFacts DEF TypeInv, Goal
<1>4. CASE Nav2Accepts(i)
  BY <1>1, <1>2, <1>3, <1>4, AcceptFacts, QuietStepTypes
  DEF TypeInv, GoalsRefer, navVars, Ends
<1>5. CASE Nav2Rejects(i)
  <2>1. /\ KeepsGoals
        /\ goals'[i].server = "rejected" /\ goals'[i].told = goals[i].told
        /\ \A j \in DOMAIN goals : j # i => goals'[j] = goals[j]
    BY <1>5, ServerFacts DEF Nav2Rejects, TypeInv
  <2>2. goals[i].server = "requested"
    BY <1>5 DEF Nav2Rejects
  <2>3. QED
    BY <1>1, <1>2, <2>1, <2>2, QuietStepTypes DEF GoalsRefer, navVars, Ends
<1>6. ASSUME NEW how \in Ends, Nav2Ends(i, how) PROVE TypeInv'
  <2>1. /\ KeepsGoals
        /\ goals'[i].server = how /\ goals'[i].told = goals[i].told
        /\ \A j \in DOMAIN goals : j # i => goals'[j] = goals[j]
    BY <1>6, ServerFacts DEF Nav2Ends, TypeInv
  <2>2. QED
    BY <1>1, <1>2, <2>1, QuietStepTypes DEF GoalsRefer, navVars, Ends
<1>7. QED
  BY <1>4, <1>5, <1>6

LEMMA TickTypes == TypeInv /\ Tick => TypeInv'
<1> SUFFICES ASSUME TypeInv, Tick PROVE TypeInv'
  OBVIOUS
<1>1. validation_age' \in 0..ValidationTimeout
  BY BridgeAssumption DEF Tick, TypeInv, TypeOK
<1>2. NavTypeOK'
  BY <1>1, TypeParts DEF Tick, NavTypeOK, flagVars
<1>3. UNCHANGED <<nav_generation, job, goals, historyVars>>
  BY DEF Tick
<1>4. KeepsGoals
  BY <1>3, SameGoalsRefer DEF Generations
<1>5. QED
  BY <1>2, <1>3, <1>4, QuietStepTypes DEF TypeInv, GoalsRefer

LEMMA StutterTypes == TypeInv /\ UNCHANGED vars => TypeInv'
<1> SUFFICES ASSUME TypeInv, UNCHANGED vars PROVE TypeInv'
  OBVIOUS
<1>1. UNCHANGED <<navVars, user_messages, nav_generation, job, goals, historyVars>>
  BY DEF vars, navVars
<1>2. NavTypeOK'
  BY <1>1, TypeParts DEF NavTypeOK, navVars, flagVars
<1>3. KeepsGoals
  BY <1>1, SameGoalsRefer DEF Generations
<1>4. QED
  BY <1>1, <1>2, <1>3, QuietStepTypes DEF TypeInv, GoalsRefer

LEMMA InitTypes == Init => TypeInv
<1> SUFFICES ASSUME Init PROVE TypeInv
  OBVIOUS
<1>1. Len(goals) = 0 /\ DOMAIN goals = {} /\ goals \in Seq(Goal)
  BY EmptySeq DEF Init
<1>2. NavTypeOK
  <2>1. /\ 0 \in 0..ValidationTimeout /\ 0 \in 0..MaxUserMessages
        /\ NoGoal \in 0..Len(goals)
    BY <1>1, BridgeAssumption DEF NoGoal
  <2>2. QED
    BY <2>1 DEF Init, NavTypeOK
<1>3. HistoryTypeOK
  BY EmptySeq DEF Init, HistoryTypeOK
<1>4. job \in [Threads -> Job] /\ JobsRefer
  BY IdleFacts DEF Init, JobsRefer, Dispatching
<1>5. QED
  BY <1>1, <1>2, <1>3, <1>4, TypeParts DEF GoalsRefer

\* Stated for a step from a state in which the wait belongs to a request: that
\* it does is part of the next invariant.
LEMMA NextKeepsTypes == TypeInv /\ AwaitsForRequest /\ [Next]_vars => TypeInv'
<1> SUFFICES ASSUME TypeInv, AwaitsForRequest, [Next]_vars PROVE TypeInv'
  OBVIOUS
<1>1. CASE AppSilent \/ UNCHANGED vars
  BY <1>1, StutterTypes DEF AppSilent
<1>2. ASSUME NEW t \in Targets, Navigate(t) PROVE TypeInv'
  BY <1>2, NavigateTypes
<1>3. CASE CancelRequested
  BY <1>3, CancelRequestedTypes
<1>4. ASSUME NEW t \in Threads, Proceed(t) PROVE TypeInv'
  BY <1>4, ProceedTypes
<1>5. ASSUME NEW i \in DOMAIN goals, on_goal_response(i) PROVE TypeInv'
  BY <1>5, ResponseTypes
<1>6. ASSUME NEW i \in DOMAIN goals, on_goal_result(i) PROVE TypeInv'
  BY <1>6, ResultTypes
<1>7. ASSUME NEW i \in DOMAIN goals,
             \/ Nav2Accepts(i)
             \/ Nav2Rejects(i)
             \/ \E how \in Ends : Nav2Ends(i, how)
      PROVE  TypeInv'
  BY <1>7, Nav2Types
<1>8. ASSUME NEW age, NEW within \in BOOLEAN, on_lcode_pose(age, within)
      PROVE  TypeInv'
  BY <1>8, PoseTypes
<1>9. CASE on_localization_abort
  BY <1>9, AbortTypes
<1>10. CASE check_validation_timeout
  BY <1>10, ValidationTimeoutTypes
<1>11. CASE Tick
  BY <1>11, TickTypes
<1>12. QED
  BY <1>1, <1>2, <1>3, <1>4, <1>5, <1>6, <1>7, <1>8, <1>9, <1>10, <1>11
  DEF Next

-----------------------------------------------------------------------------
(* One holder, one verdict *)

LEMMA StatusFacts ==
  /\ NoMessage \notin Verdicts /\ "accepted" \notin Verdicts
  /\ Verdicts \subseteq Statuses
BY DEF Verdicts, Statuses, NoMessage

\* What a thread's new job makes of it, in the same generation.
LEMMA JobTokens ==
  ASSUME TypeInv, NEW t \in Threads, NEW next \in Job, Continue(t, next),
         UNCHANGED nav_generation
  PROVE  /\ \A u \in Threads : u # t =>
              /\ Working(u)' <=> Working(u)
              /\ \A g \in Nat : Speaks(u, g)' <=> Speaks(u, g)
         /\ Working(t)' <=> /\ Current(next.generation)
                            /\ next.step \in Dispatching \cup {"report_failure"}
         /\ \A g \in Nat :
              Speaks(t, g)' <=> /\ next.step \in {"cancel", "broadcast"}
                                /\ next.generation = g
                                /\ next.message \in Verdicts
<1>1. job'[t] = next /\ \A u \in Threads : u # t => job'[u] = job[u]
  BY ContinueFacts DEF TypeInv
<1>2. QED
  BY <1>1 DEF Working, Speaks, Current

LEMMA SameJobTokens ==
  ASSUME UNCHANGED <<job, nav_generation>>
  PROVE  /\ \A u \in Threads : Working(u)' <=> Working(u)
         /\ \A u \in Threads, g \in Nat : Speaks(u, g)' <=> Speaks(u, g)
BY DEF Working, Speaks, Current

\* A goal is open until Nav2 has told the end of it.
LEMMA OpenFacts ==
  ASSUME TypeInv, NEW i \in DOMAIN goals
  PROVE  /\ Open(i) => nav_generation \in Generations
         /\ goals[i].told = "nothing" => (Open(i) <=> Current(goals[i].generation))
BY DEF TypeInv, GoalsRefer, Open, Current, Answered

LEMMA OpenSame ==
  ASSUME TypeInv, KeepsGoals, UNCHANGED nav_generation, NEW i \in DOMAIN goals,
         goals'[i].told = goals[i].told,
         goals'[i].server = "rejected" <=> goals[i].server = "rejected"
  PROVE  Open(i)' <=> Open(i)
BY DEF KeepsGoals, Open, Current, Answered, Accepted

LEMMA SameGoalsOpen ==
  ASSUME TypeInv, UNCHANGED <<goals, nav_generation>>
  PROVE  \A i \in DOMAIN goals : Open(i)' <=> Open(i)
BY DEF Open, Current, Answered, Accepted

\* Who holds the current request, and that there is one.
LEMMA HeldRequest ==
  ASSUME TypeInv, OneHolder, UnderWayNow
  PROVE  nav_generation \in Generations /\ requested[nav_generation] = target
BY DEF OneHolder

\* The holder stays, or gives the request up.
LEMMA HoldersStay ==
  ASSUME OneHolder, UNCHANGED <<nav_generation, target, requested>>,
         DOMAIN goals' = DOMAIN goals,
         \A u \in Threads : Working(u)' => Working(u),
         \A i \in DOMAIN goals : Open(i)' => Open(i),
         awaiting_final_validation' => awaiting_final_validation
  PROVE  OneHolder' /\ (UnderWayNow' => UnderWayNow)
<1>1. UnderWayNow' => UnderWayNow
  BY DEF UnderWayNow
<1>2. OneHolder'
  BY <1>1 DEF OneHolder, Generations
<1>3. QED
  BY <1>1, <1>2

\* A thread has a verdict to give: it had it before, or took it from the holder.
LEMMA SpeakersStay ==
  ASSUME TypeInv, OneSpeaker, NEW t \in Threads,
         UNCHANGED <<nav_generation, verdicts>>,
         \A u \in Threads : u # t =>
           \A g \in Nat : Speaks(u, g)' <=> Speaks(u, g),
         UnderWayNow' => UnderWayNow,
         \A g \in Generations :
           Speaks(t, g)' => \/ Speaks(t, g)
                            \/ Current(g) /\ UnderWayNow /\ ~UnderWayNow'
  PROVE  OneSpeaker'
<1>1. Generations' = Generations /\ Generations \subseteq Nat
      /\ \A g \in Generations : Current(g)' <=> Current(g)
  BY HistoryFacts DEF TypeInv, Generations, Current
<1>2. ASSUME NEW g \in Generations
      PROVE  /\ \A u, v \in Threads : Speaks(u, g)' /\ Speaks(v, g)' => u = v
             /\ Len(verdicts'[g]) <= 1
             /\ verdicts'[g] # <<>> => \A u \in Threads : ~Speaks(u, g)'
             /\ Current(g)' /\ UnderWayNow' => ~Given(g)'
  <2>1. /\ \A u, v \in Threads : Speaks(u, g) /\ Speaks(v, g) => u = v
        /\ Len(verdicts[g]) <= 1 /\ verdicts'[g] = verdicts[g]
        /\ verdicts[g] # <<>> => \A u \in Threads : ~Speaks(u, g)
        /\ Current(g) /\ UnderWayNow => ~Given(g)
        /\ Current(g)' <=> Current(g)
    BY <1>1 DEF OneSpeaker
  <2>2. /\ \A u \in Threads : u # t => (Speaks(u, g)' <=> Speaks(u, g))
        /\ Speaks(t, g)' => \/ Speaks(t, g)
                            \/ Current(g) /\ UnderWayNow /\ ~UnderWayNow'
    BY <1>1
  <2>3. CASE Speaks(t, g)' => Speaks(t, g)
    BY <2>1, <2>2, <2>3 DEF Given
  <2>4. CASE Current(g) /\ UnderWayNow /\ ~UnderWayNow'
    BY <2>1, <2>2, <2>4 DEF Given
  <2>5. QED
    BY <2>2, <2>3, <2>4
<1>3. QED
  BY <1>1, <1>2 DEF OneSpeaker

LEMMA AimedStay ==
  ASSUME TypeInv, AimedRight, KeepsGoals,
         \A g \in Generations : requested'[g] = requested[g]
  PROVE  AimedRight'
BY DEF AimedRight, KeepsGoals, TypeInv, GoalsRefer

\* Nothing is open while a thread is at work, or a pose is awaited: then the
\* bridge holds no goal and waits for no answer.
LEMMA FlagsDown ==
  ASSUME TypeInv, FlagsTell, \A i \in DOMAIN goals : ~Open(i)
  PROVE  /\ goal_request_pending = FALSE /\ navigation_active = FALSE
         /\ current_goal_handle = NoGoal
<1>1. current_goal_handle # NoGoal => current_goal_handle \in DOMAIN goals
  BY GoalFacts DEF TypeInv, TypeOK, NoGoal
<1>2. /\ goal_request_pending \in BOOLEAN /\ navigation_active \in BOOLEAN
  BY DEF TypeInv, TypeOK
<1>3. QED
  BY <1>1, <1>2, OpenFacts DEF FlagsTell

LEMMA FlagsAreDown ==
  ASSUME TypeInv', goal_request_pending' = FALSE, navigation_active' = FALSE,
         current_goal_handle' = NoGoal,
         \A i \in DOMAIN goals' : ~Open(i)'
  PROVE  FlagsTell'
<1>1. \A i \in DOMAIN goals' : i # NoGoal
  <2>1. Len(goals') \in Nat /\ DOMAIN goals' = 1..Len(goals')
    BY SeqFacts DEF TypeInv, TypeOK
  <2>2. QED
    BY <2>1 DEF NoGoal
<1>2. QED
  BY <1>1 DEF FlagsTell

LEMMA FlagsStay ==
  ASSUME TypeInv, FlagsTell, KeepsGoals,
         UNCHANGED <<nav_generation, goal_request_pending, navigation_active,
                     current_goal_handle>>,
         \A i \in DOMAIN goals :
           goals'[i].told = goals[i].told /\ (Open(i)' <=> Open(i))
  PROVE  FlagsTell'
BY DEF FlagsTell, KeepsGoals, Current

\* A new request, or none: whatever was under way for the old one is over.
LEMMA NewGenerationHolds ==
  ASSUME TypeInv, HolderInv, TypeInv', NEW what \in Targets \cup {"cancel", "abort"},
         NextGeneration(what), ForgetGoal, UNCHANGED goals,
         NEW t \in Threads, NEW next \in Job, Continue(t, next),
         next.generation = nav_generation + 1 =>
           next.step = "wait_server" /\ target' = what,
         \A g \in Generations :
           /\ next.step \in {"cancel", "broadcast"}
           /\ next.generation = g
           => ~Given(g)
  PROVE  HolderInv'
<1>1. /\ nav_generation \in Nat /\ nav_generation' = nav_generation + 1
      /\ requested'[nav_generation'] = what /\ verdicts'[nav_generation'] = <<>>
      /\ Generations' = Generations \cup {nav_generation'}
      /\ nav_generation' \notin Generations /\ Generations = 1..nav_generation
      /\ \A g \in Generations :
           requested'[g] = requested[g] /\ verdicts'[g] = verdicts[g]
  BY NextGenerationFacts, HistoryFacts DEF TypeInv
<1>2. job'[t] = next /\ \A u \in Threads : u # t => job'[u] = job[u]
  BY ContinueFacts DEF TypeInv
<1>3. \A u \in Threads : job[u].generation \in Nat /\ job[u].generation <= nav_generation
  BY JobFacts
<1>4. \A i \in DOMAIN goals' : ~Open(i)'
  BY <1>1 DEF Open, Current, TypeInv, GoalsRefer
<1>5. /\ goal_request_pending' = FALSE /\ navigation_active' = FALSE
      /\ awaiting_final_validation' = FALSE /\ current_goal_handle' = NoGoal
  BY DEF ForgetGoal
<1>6. \A u \in Threads : Working(u)' => u = t /\ target' = what
  BY <1>1, <1>2, <1>3 DEF Working, Current
<1>7. OneHolder'
  BY <1>1, <1>4, <1>5, <1>6 DEF OneHolder, UnderWayNow
<1>8. FlagsTell'
  BY <1>4, <1>5, FlagsAreDown
<1>9. AimedRight'
  BY <1>1, SameGoalsRefer, AimedStay DEF HolderInv
<1>10. OneSpeaker'
  <2>1. ASSUME NEW g \in Generations
        PROVE  /\ \A u, v \in Threads : Speaks(u, g)' /\ Speaks(v, g)' => u = v
               /\ Len(verdicts'[g]) <= 1
               /\ verdicts'[g] # <<>> => \A u \in Threads : ~Speaks(u, g)'
               /\ ~Current(g)'
    <3>1. /\ \A u, v \in Threads : Speaks(u, g) /\ Speaks(v, g) => u = v
          /\ Len(verdicts[g]) <= 1 /\ verdicts'[g] = verdicts[g]
          /\ verdicts[g] # <<>> => \A u \in Threads : ~Speaks(u, g)
      BY <1>1 DEF HolderInv, OneSpeaker
    <3>2. \A u \in Threads : u # t => (Speaks(u, g)' <=> Speaks(u, g))
      BY <1>2 DEF Speaks
    <3>3. Speaks(t, g)' => ~Given(g)
      BY <1>2 DEF Speaks
    <3>4. ~Current(g)'
      BY <1>1 DEF Current
    <3>5. QED
      BY <3>1, <3>2, <3>3, <3>4 DEF Given
  <2>2. \A u \in Threads :
          job'[u].generation = nav_generation' =>
            job'[u].step \notin {"cancel", "broadcast"}
    <3>1. ASSUME NEW u \in Threads, u # t
          PROVE  job'[u].generation # nav_generation'
      <4>1. job'[u] = job[u] /\ job[u].generation \in Nat
            /\ job[u].generation <= nav_generation
        BY <1>2, <1>3, <3>1
      <4>2. QED
        BY <1>1, <4>1
    <3>2. job'[t].generation = nav_generation' =>
            job'[t].step \notin {"cancel", "broadcast"}
      BY <1>1, <1>2
    <3>3. QED
      BY <3>1, <3>2
  <2>3. Len(verdicts'[nav_generation']) <= 1
    BY <1>1
  <2>4. ASSUME NEW g \in Generations'
        PROVE  /\ \A u, v \in Threads : Speaks(u, g)' /\ Speaks(v, g)' => u = v
               /\ Len(verdicts'[g]) <= 1
               /\ verdicts'[g] # <<>> => \A u \in Threads : ~Speaks(u, g)'
               /\ Current(g)' /\ UnderWayNow' => ~Given(g)'
    <3>1. CASE g \in Generations
      BY <2>1, <3>1
    <3>2. CASE g = nav_generation'
      <4>1. \A u \in Threads : ~Speaks(u, g)'
        BY <2>2, <3>2 DEF Speaks
      <4>2. QED
        BY <1>1, <2>3, <3>2, <4>1 DEF Given
    <3>3. QED
      BY <1>1, <3>1, <3>2
  <2>5. QED
    BY <2>4 DEF OneSpeaker
<1>11. QED
  BY <1>7, <1>8, <1>9, <1>10 DEF HolderInv

LEMMA NavigateHolds ==
  ASSUME TypeInv, HolderInv, TypeInv', NEW t \in Targets, Navigate(t)
  PROVE  HolderInv'
<1> DEFINE next == Dispatch(nav_generation + 1, FALSE)
<1>1. /\ NextGeneration(t) /\ ForgetGoal /\ UNCHANGED goals
      /\ Continue("io", next) /\ target' = t
  BY DEF Navigate
<1>2. next \in Job /\ next.step = "wait_server"
  <2>1. nav_generation + 1 \in Nat
    BY DEF TypeInv, TypeOK
  <2>2. QED
    BY <2>1, DispatchFacts
<1> HIDE DEF next
<1>3. QED
  BY <1>1, <1>2, NewGenerationHolds DEF Threads

LEMMA CancelRequestedHolds ==
  TypeInv /\ HolderInv /\ TypeInv' /\ CancelRequested => HolderInv'
<1> SUFFICES ASSUME TypeInv, HolderInv, TypeInv', CancelRequested
             PROVE  HolderInv'
  OBVIOUS
<1> DEFINE next == CancelThen(current_goal_handle, Say(0, "canceled"))
<1>1. /\ NextGeneration("cancel") /\ ForgetGoal /\ UNCHANGED goals
      /\ Continue("io", next)
  BY DEF CancelRequested
<1>2. next \in Job /\ next.generation = 0
  BY CancelThenSays DEF Statuses
<1> HIDE DEF next
<1>3. next.generation # nav_generation + 1 /\ 0 \notin Generations
  BY <1>2, HistoryFacts DEF TypeInv
<1>4. QED
  BY <1>1, <1>2, <1>3, NewGenerationHolds DEF Threads

\* The flags show a goal asked for, running or awaiting its pose, so the
\* request has not had its verdict.
LEMMA AbortHolds ==
  TypeInv /\ HolderInv /\ TypeInv' /\ on_localization_abort => HolderInv'
<1> SUFFICES ASSUME TypeInv, HolderInv, TypeInv', on_localization_abort
             PROVE  HolderInv'
  OBVIOUS
<1> DEFINE next == CancelThen(current_goal_handle,
                              Say(nav_generation, "localization_failed"))
<1>1. /\ NextGeneration("abort") /\ ForgetGoal /\ UNCHANGED goals
      /\ Continue("exec", next)
      /\ goal_request_pending \/ navigation_active \/ awaiting_final_validation
  BY DEF on_localization_abort, Invalidate, AbortConcerns
<1>2. /\ nav_generation \in Nat
      /\ current_goal_handle # NoGoal => current_goal_handle \in DOMAIN goals
  BY GoalFacts DEF TypeInv, TypeOK, NoGoal
<1>3. next \in Job /\ next.generation = nav_generation
  BY <1>2, CancelThenSays DEF Statuses
<1> HIDE DEF next
<1>4. UnderWayNow
  <2>1. CASE goal_request_pending
    BY <2>1, OpenFacts DEF HolderInv, FlagsTell, UnderWayNow
  <2>2. CASE navigation_active
    BY <1>2, <2>2 DEF HolderInv, FlagsTell, UnderWayNow
  <2>3. CASE awaiting_final_validation
    BY <2>3 DEF UnderWayNow
  <2>4. QED
    BY <1>1, <2>1, <2>2, <2>3
<1>5. \A g \in Generations : g = nav_generation => ~Given(g)
  BY <1>4 DEF HolderInv, OneSpeaker, Current
<1>6. next.generation # nav_generation + 1
  BY <1>2, <1>3
<1>7. QED
  BY <1>1, <1>3, <1>5, <1>6, NewGenerationHolds DEF Threads

\* A thread steps on, and nothing else changes: it works on for the request,
\* gives it up, or ends it with a verdict.
LEMMA ThreadStepHolds ==
  ASSUME TypeInv, HolderInv, NEW t \in Threads, NEW next \in Job,
         Continue(t, next), UNCHANGED <<navVars, goals, requested, verdicts>>,
         Current(next.generation)
           /\ next.step \in Dispatching \cup {"report_failure"} => Working(t),
         \A g \in Generations :
           /\ next.step \in {"cancel", "broadcast"}
           /\ next.generation = g
           /\ next.message \in Verdicts
           => /\ Current(g) /\ Working(t)
              /\ next.step \notin Dispatching \cup {"report_failure"}
  PROVE  HolderInv'
<1>1. /\ UNCHANGED <<nav_generation, target, awaiting_final_validation,
                     goal_request_pending, navigation_active,
                     current_goal_handle>>
      /\ KeepsGoals
  <2>1. UNCHANGED nav_generation
    BY DEF navVars
  <2>2. QED
    BY <2>1, SameGoalsRefer DEF navVars, flagVars, Generations
<1>2. /\ \A u \in Threads : u # t =>
           /\ Working(u)' <=> Working(u)
           /\ \A g \in Nat : Speaks(u, g)' <=> Speaks(u, g)
      /\ Working(t)' <=> /\ Current(next.generation)
                         /\ next.step \in Dispatching \cup {"report_failure"}
      /\ \A g \in Nat : Speaks(t, g)' <=> /\ next.step \in {"cancel", "broadcast"}
                                          /\ next.generation = g
                                          /\ next.message \in Verdicts
  BY <1>1, JobTokens
<1>3. \A i \in DOMAIN goals : Open(i)' <=> Open(i)
  BY <1>1, SameGoalsOpen
<1>4. OneHolder' /\ (UnderWayNow' => UnderWayNow)
  BY <1>1, <1>2, <1>3, HoldersStay DEF HolderInv
<1>5. Generations \subseteq Nat
  BY HistoryFacts DEF TypeInv
<1>6. ASSUME NEW g \in Generations, Speaks(t, g)'
      PROVE  Current(g) /\ UnderWayNow /\ ~UnderWayNow'
  <2>1. /\ Current(g) /\ Working(t) /\ ~Working(t)'
    BY <1>2, <1>5, <1>6
  <2>2. /\ ~awaiting_final_validation /\ \A i \in DOMAIN goals : ~Open(i)
        /\ \A u \in Threads : u # t => ~Working(u)
    BY <2>1 DEF HolderInv, OneHolder
  <2>3. ~UnderWayNow'
    BY <1>1, <1>2, <1>3, <2>1, <2>2 DEF UnderWayNow
  <2>4. QED
    BY <2>1, <2>3 DEF UnderWayNow
<1>7. OneSpeaker'
  BY <1>1, <1>2, <1>4, <1>6, SpeakersStay DEF HolderInv
<1>8. FlagsTell'
  BY <1>1, <1>3, FlagsStay DEF HolderInv
<1>9. AimedRight'
  BY <1>1, AimedStay DEF HolderInv
<1>10. QED
  BY <1>4, <1>7, <1>8, <1>9 DEF HolderInv

LEMMA DispatchHolds ==
  ASSUME TypeInv, HolderInv, NEW t \in Threads,
         WaitServer(t) \/ ServerUnavailable(t) \/ ReadTarget(t)
  PROVE  HolderInv'
<1> DEFINE g == job[t].generation
<1>1. /\ job[t] \in Job /\ g \in Nat /\ job[t].message \in Statuses \cup {NoMessage}
  BY JobFacts
<1>2. UNCHANGED <<navVars, goals, requested, verdicts>>
  BY DEF WaitServer, ServerUnavailable, ReadTarget, historyVars
<1>3. /\ job[t].step \in Dispatching /\ (Current(g) => Working(t))
  BY DEF WaitServer, ServerUnavailable, ReadTarget, At, Dispatching, Working
<1>4. Idle \in Job /\ Idle.step = "idle"
  BY IdleFacts
<1> HIDE DEF g
<1>5. CASE WaitServer(t) \/ ReadTarget(t)
  <2>1. \E s \in {"read_target", "report_failure", "unavailable", "send_goal"} :
          \/ Continue(t, [job[t] EXCEPT !.step = s])
          \/ Continue(t, Idle)
    BY <1>5 DEF WaitServer, WhenUnavailable, ReadTarget
  <2>2. PICK s \in {"read_target", "report_failure", "unavailable", "send_goal"} :
          \/ Continue(t, [job[t] EXCEPT !.step = s])
          \/ Continue(t, Idle)
    BY <2>1
  <2> DEFINE next == [job[t] EXCEPT !.step = s]
  <2>3. next \in Job /\ next.generation = g /\ next.step = s
    <3>1. s \in Steps
      BY DEF Steps
    <3>2. QED
      BY <1>1, <3>1, StepFacts DEF g
  <2>4. Continue(t, next) \/ Continue(t, Idle)
    BY <2>2
  <2> HIDE DEF next
  <2>5. s \notin {"cancel", "broadcast"}
    OBVIOUS
  <2>6. QED
    BY <1>2, <1>3, <1>4, <2>3, <2>4, <2>5, ThreadStepHolds DEF Dispatching
<1>6. CASE ServerUnavailable(t)
  <2> DEFINE next == Say(g, "server_unavailable")
  <2>1. next \in Job /\ next.generation = g /\ next.step = "broadcast"
    BY <1>1, SayFacts DEF Statuses
  <2>2. (Current(g) /\ Continue(t, next)) \/ Continue(t, Idle)
    BY <1>6 DEF ServerUnavailable, g
  <2> HIDE DEF next
  <2>3. QED
    BY <1>2, <1>3, <1>4, <2>1, <2>2, ThreadStepHolds DEF Dispatching
<1>7. QED
  BY <1>5, <1>6

\* The thread hands the request over to Nav2.
LEMMA SendHolds ==
  ASSUME TypeInv, HolderInv, TypeInv', NEW t \in Threads, SendGoal(t)
  PROVE  HolderInv'
<1> DEFINE g == job[t].generation
<1>1. /\ Continue(t, Idle)
      /\ UNCHANGED <<nav_generation, target, navigation_active,
                     awaiting_final_validation, current_goal_handle,
                     requested, verdicts>>
  BY DEF SendGoal, historyVars
<1>2. Idle \in Job /\ Idle.step = "idle"
  BY IdleFacts
<1>3. /\ \A u \in Threads : u # t =>
           /\ Working(u)' <=> Working(u)
           /\ \A h \in Nat : Speaks(u, h)' <=> Speaks(u, h)
      /\ ~Working(t)' /\ \A h \in Nat : ~Speaks(t, h)'
  BY <1>1, <1>2, JobTokens DEF Dispatching
<1>4. CASE ~Current(g)
  <2>1. UNCHANGED <<navVars, goals, requested, verdicts>>
    BY <1>1, <1>4 DEF SendGoal, g, navVars, flagVars
  <2>2. QED
    BY <1>1, <1>2, <2>1, ThreadStepHolds DEF Dispatching
<1>5. CASE Current(g)
  <2> PICK n \in Nat : n = Len(goals) + 1
    BY GoalFacts DEF TypeInv
  <2> DEFINE goal == [generation |-> g, target |-> target,
                      is_retry |-> job[t].is_retry, server |-> "requested",
                      told |-> "nothing", cancel |-> FALSE]
  <2>1. goals' = Append(goals, goal) /\ goal_request_pending' = TRUE
    BY <1>5 DEF SendGoal, g
  <2>2. goal \in Goal /\ goal.generation = g /\ goal.target = target
        /\ goal.server = "requested" /\ goal.told = "nothing"
    BY JobFacts, TypeParts DEF NavTypeOK, Goal, Ends
  <2> HIDE DEF goal
  <2>3. /\ DOMAIN goals' = DOMAIN goals \cup {n} /\ n \notin DOMAIN goals
        /\ goals'[n] = goal /\ \A i \in DOMAIN goals : goals'[i] = goals[i]
    BY <2>1, <2>2, SendFacts DEF TypeInv
  <2>4. Working(t)
    BY <1>5 DEF SendGoal, At, Working, Dispatching, g
  <2>5. /\ ~awaiting_final_validation /\ \A i \in DOMAIN goals : ~Open(i)
        /\ \A u \in Threads : u # t => ~Working(u)
        /\ nav_generation \in Generations /\ requested[nav_generation] = target
    BY <2>4, HeldRequest DEF HolderInv, OneHolder, UnderWayNow
  <2>6. \A i \in DOMAIN goals : ~Open(i)'
    BY <1>1, <2>3, <2>5 DEF Open, Current, Answered, Accepted
  <2>7. Open(n)'
    BY <1>1, <1>5, <2>2, <2>3 DEF Open, Current, Answered, Accepted
  <2>8. \A u \in Threads : ~Working(u)'
    BY <1>3, <2>5
  <2>9. OneHolder'
    BY <1>1, <2>3, <2>5, <2>6, <2>8 DEF OneHolder, UnderWayNow, Generations
  <2>10. OneSpeaker'
    <3>1. UnderWayNow /\ Generations' = Generations /\ Generations \subseteq Nat
      BY <1>1, <2>4, HistoryFacts DEF UnderWayNow, Generations, TypeInv
    <3>2. ASSUME NEW h \in Generations
          PROVE  /\ verdicts'[h] = verdicts[h] /\ (Current(h)' => Current(h))
                 /\ \A u \in Threads : Speaks(u, h)' => Speaks(u, h)
      BY <1>1, <1>3, <3>1 DEF Current
    <3>3. QED
      BY <3>1, <3>2 DEF HolderInv, OneSpeaker, Given
  <2>11. FlagsTell'
    <3>1. navigation_active = FALSE /\ current_goal_handle = NoGoal
      BY <2>5, FlagsDown DEF HolderInv
    <3>2. n # NoGoal /\ \A i \in DOMAIN goals : i # NoGoal
      BY GoalFacts DEF TypeInv, NoGoal
    <3>3. Current(goals[n].generation)' /\ goals'[n].told = "nothing"
      BY <1>1, <1>5, <2>2, <2>3 DEF Current
    <3>4. QED
      BY <1>1, <2>3, <2>6, <3>1, <3>2, <3>3 DEF FlagsTell
  <2>12. AimedRight'
    <3>1. g = nav_generation
      BY <1>5 DEF Current
    <3>2. QED
      BY <1>1, <2>2, <2>3, <2>5, <3>1 DEF HolderInv, AimedRight
  <2>13. QED
    BY <2>9, <2>10, <2>11, <2>12 DEF HolderInv
<1>6. QED
  BY <1>4, <1>5

LEMMA CancelGoalHolds ==
  ASSUME TypeInv, HolderInv, NEW t \in Threads, CancelGoal(t)
  PROVE  HolderInv'
<1> DEFINE g == job[t].generation
           next == IF job[t].message = NoMessage THEN Idle
                   ELSE Say(g, job[t].message)
<1>1. /\ job[t].step = "cancel" /\ Continue(t, next)
      /\ goals' = [goals EXCEPT ![job[t].handle].cancel = TRUE]
      /\ UNCHANGED <<nav_generation, target, awaiting_final_validation,
                     goal_request_pending, navigation_active,
                     current_goal_handle, requested, verdicts>>
  BY DEF CancelGoal, At, navVars, flagVars, historyVars
<1>2. g \in Nat /\ job[t].message \in Statuses \cup {NoMessage}
  BY JobFacts
<1>3. /\ next \in Job /\ next.step \in {"idle", "broadcast"}
      /\ next.step = "broadcast" =>
           next.generation = g /\ next.message = job[t].message
  BY <1>2, IdleFacts, SayFacts
<1>4. \A h \in Nat : Speaks(t, h) <=> g = h /\ job[t].message \in Verdicts
  BY <1>1 DEF Speaks
<1> HIDE DEF next, g
<1>5. /\ \A u \in Threads : u # t =>
           /\ Working(u)' <=> Working(u)
           /\ \A h \in Nat : Speaks(u, h)' <=> Speaks(u, h)
      /\ ~Working(t)' /\ \A h \in Nat : Speaks(t, h)' => Speaks(t, h)
  BY <1>1, <1>3, <1>4, JobTokens DEF Dispatching
<1>6. job[t].handle \in DOMAIN goals
  BY <1>1 DEF TypeInv, JobsRefer
<1>7. KeepsGoals /\ \A i \in DOMAIN goals : /\ goals'[i].told = goals[i].told
                                            /\ goals'[i].server = goals[i].server
  BY <1>1, <1>6, CancelFacts DEF TypeInv
<1>8. \A i \in DOMAIN goals : Open(i)' <=> Open(i)
  BY <1>1, <1>7, OpenSame
<1>9. OneHolder' /\ (UnderWayNow' => UnderWayNow)
  BY <1>1, <1>5, <1>7, <1>8, HoldersStay DEF HolderInv, KeepsGoals
<1>10. OneSpeaker'
  <2>1. Generations \subseteq Nat
    BY HistoryFacts DEF TypeInv
  <2>2. QED
    BY <1>1, <1>5, <1>9, <2>1, SpeakersStay DEF HolderInv
<1>11. FlagsTell' /\ AimedRight'
  BY <1>1, <1>7, <1>8, FlagsStay, AimedStay DEF HolderInv
<1>12. QED
  BY <1>9, <1>10, <1>11 DEF HolderInv

LEMMA FailureReportHolds ==
  ASSUME TypeInv, HolderInv, NEW t \in Threads, FailureReport(t)
  PROVE  HolderInv'
<1> DEFINE g == job[t].generation
           next == Say(g, "localization_failed")
<1>1. /\ job[t].step = "report_failure" /\ g \in Nat
      /\ UNCHANGED <<nav_generation, target, retries_completed, validation_age,
                     goals, requested, verdicts>>
  BY JobFacts DEF FailureReport, At, historyVars
<1>2. Idle \in Job /\ Idle.step = "idle"
  BY IdleFacts
<1>3. next \in Job /\ next.generation = g /\ next.step = "broadcast"
  BY <1>1, SayFacts DEF Statuses
<1>4. CASE ~ReportsFailure(g)
  <2>1. Continue(t, Idle) /\ UNCHANGED <<navVars, goals, requested, verdicts>>
    BY <1>1, <1>4 DEF FailureReport, navVars
  <2>2. QED
    BY <1>2, <2>1, ThreadStepHolds DEF Dispatching
<1>5. CASE ReportsFailure(g)
  <2>1. /\ ForgetGoal /\ Continue(t, next) /\ Current(g)
    BY <1>5 DEF FailureReport, ReportsFailure
  <2> HIDE DEF next, g
  <2>2. Working(t)
    BY <1>1, <2>1 DEF Working, g
  <2>3. /\ awaiting_final_validation = FALSE /\ \A i \in DOMAIN goals : ~Open(i)
        /\ \A u \in Threads : u # t => ~Working(u)
    BY <2>2 DEF HolderInv, OneHolder, TypeInv, TypeOK
  <2>4. /\ goal_request_pending = FALSE /\ navigation_active = FALSE
        /\ current_goal_handle = NoGoal
    BY <2>3, FlagsDown DEF HolderInv
  <2>5. /\ KeepsGoals
        /\ \A i \in DOMAIN goals : Open(i)' <=> Open(i)
        /\ UNCHANGED <<awaiting_final_validation, goal_request_pending,
                       navigation_active, current_goal_handle>>
    BY <1>1, <2>1, <2>3, <2>4, SameGoalsOpen, SameGoalsRefer
    DEF ForgetGoal, Generations
  <2>6. /\ \A u \in Threads : u # t =>
             /\ Working(u)' <=> Working(u)
             /\ \A h \in Nat : Speaks(u, h)' <=> Speaks(u, h)
        /\ ~Working(t)'
        /\ \A h \in Nat : Speaks(t, h)' => h = g
    BY <1>1, <1>3, <2>1, JobTokens DEF Dispatching
  <2>7. OneHolder' /\ UnderWayNow /\ ~UnderWayNow'
    BY <1>1, <2>2, <2>3, <2>5, <2>6, HoldersStay DEF HolderInv, UnderWayNow
  <2>8. OneSpeaker'
    <3>1. Generations \subseteq Nat
      BY HistoryFacts DEF TypeInv
    <3>2. QED
      BY <1>1, <2>1, <2>6, <2>7, <3>1, SpeakersStay DEF HolderInv
  <2>9. FlagsTell' /\ AimedRight'
    BY <1>1, <2>5, FlagsStay, AimedStay DEF HolderInv
  <2>10. QED
    BY <2>7, <2>8, <2>9 DEF HolderInv
<1>6. QED
  BY <1>4, <1>5

LEMMA BroadcastHolds ==
  ASSUME TypeInv, HolderInv, NEW t \in Threads, Broadcast(t)
  PROVE  HolderInv'
<1>1. /\ Continue(t, Idle) /\ job[t].step = "broadcast"
      /\ UNCHANGED <<nav_generation, target, awaiting_final_validation,
                     goal_request_pending, navigation_active,
                     current_goal_handle, goals, requested>>
  BY DEF Broadcast, At, navVars, flagVars
<1>2. Idle \in Job /\ Idle.step = "idle"
  BY IdleFacts
<1>3. /\ \A u \in Threads : u # t =>
           /\ Working(u)' <=> Working(u)
           /\ \A h \in Nat : Speaks(u, h)' <=> Speaks(u, h)
      /\ ~Working(t)' /\ \A h \in Nat : ~Speaks(t, h)'
  BY <1>1, <1>2, JobTokens DEF Dispatching
<1>4. KeepsGoals /\ \A i \in DOMAIN goals : Open(i)' <=> Open(i)
  BY <1>1, SameGoalsOpen, SameGoalsRefer DEF Generations
<1>5. OneHolder' /\ (UnderWayNow' => UnderWayNow)
  BY <1>1, <1>3, <1>4, HoldersStay DEF HolderInv
<1>6. OneSpeaker'
  <2>1. /\ Generations' = Generations /\ Generations \subseteq Nat
        /\ \A g \in Generations : /\ verdicts[g] \in Seq(Verdicts)
                                  /\ Current(g)' <=> Current(g)
    BY <1>1, HistoryFacts DEF TypeInv, Generations, Current
  <2>2. ASSUME NEW g \in Generations
        PROVE  /\ \A u, v \in Threads : Speaks(u, g)' /\ Speaks(v, g)' => u = v
               /\ Len(verdicts'[g]) <= 1
               /\ verdicts'[g] # <<>> => \A u \in Threads : ~Speaks(u, g)'
               /\ Current(g)' /\ UnderWayNow' => ~Given(g)'
    <3>1. /\ \A u, v \in Threads : Speaks(u, g) /\ Speaks(v, g) => u = v
          /\ Len(verdicts[g]) <= 1
          /\ verdicts[g] # <<>> => \A u \in Threads : ~Speaks(u, g)
          /\ Current(g) /\ UnderWayNow => ~Given(g)
          /\ Current(g)' <=> Current(g)
      BY <2>1 DEF HolderInv, OneSpeaker
    <3>2. verdicts'[g] = IF Speaks(t, g) THEN Append(verdicts[g], job[t].message)
                                         ELSE verdicts[g]
      BY BroadcastFacts
    <3>3. /\ \A u \in Threads : u # t => (Speaks(u, g)' <=> Speaks(u, g))
          /\ ~Speaks(t, g)'
      BY <1>3, <2>1
    <3>4. CASE ~Speaks(t, g)
      BY <1>5, <3>1, <3>2, <3>3, <3>4 DEF Given
    <3>5. CASE Speaks(t, g)
      <4>1. verdicts[g] = <<>> /\ job[t].message \in Verdicts
        BY <3>1, <3>5 DEF Speaks
      <4>2. Append(<<>>, job[t].message) = <<job[t].message>>
        OBVIOUS
      <4>3. Len(verdicts'[g]) = 1
        BY <3>2, <3>5, <4>1, <4>2
      <4>4. \A u \in Threads : ~Speaks(u, g)'
        BY <3>1, <3>3, <3>5
      <4>5. ~(Current(g)' /\ UnderWayNow')
        BY <1>5, <3>1, <3>5 DEF Given
      <4>6. QED
        BY <4>3, <4>4, <4>5
    <3>6. QED
      BY <3>4, <3>5
  <2>3. QED
    BY <2>1, <2>2 DEF OneSpeaker
<1>7. FlagsTell' /\ AimedRight'
  BY <1>1, <1>4, FlagsStay, AimedStay DEF HolderInv
<1>8. QED
  BY <1>5, <1>6, <1>7 DEF HolderInv

LEMMA ProceedHolds ==
  ASSUME TypeInv, HolderInv, TypeInv', NEW t \in Threads, Proceed(t)
  PROVE  HolderInv'
BY DispatchHolds, SendHolds, CancelGoalHolds, FailureReportHolds, BroadcastHolds
DEF Proceed

\* The executor takes the request back from Nav2, or from the wait for a pose:
\* to work on it, or to end it.
LEMMA HandBackHolds ==
  ASSUME TypeInv, HolderInv, TypeInv',
         UnderWayNow, \A u \in Threads : ~Working(u),
         NEW next \in Job, Continue("exec", next),
         Current(next.generation), Free("exec"),
         UNCHANGED <<nav_generation, target, requested, verdicts>>,
         KeepsGoals, \A i \in DOMAIN goals : ~Open(i)',
         goal_request_pending' = FALSE, navigation_active' = FALSE,
         current_goal_handle' = NoGoal, awaiting_final_validation' = FALSE
  PROVE  HolderInv'
<1>1. /\ \A u \in Threads : u # "exec" =>
           /\ Working(u)' <=> Working(u)
           /\ \A h \in Nat : Speaks(u, h)' <=> Speaks(u, h)
      /\ Working("exec")' <=> /\ Current(next.generation)
                              /\ next.step \in Dispatching \cup {"report_failure"}
      /\ \A h \in Nat :
           Speaks("exec", h)' <=> /\ next.step \in {"cancel", "broadcast"}
                                  /\ next.generation = h
                                  /\ next.message \in Verdicts
  BY JobTokens DEF Threads
<1>2. DOMAIN goals' = DOMAIN goals
  BY DEF KeepsGoals
<1>3. nav_generation \in Generations /\ requested[nav_generation] = target
  BY HeldRequest DEF HolderInv
<1>4. OneHolder'
  BY <1>1, <1>2, <1>3 DEF OneHolder, UnderWayNow, Generations
<1>5. OneSpeaker'
  <2>1. /\ Generations \subseteq Nat /\ \A g \in Nat : Speaks("exec", g)' => Current(g)
    BY <1>1, HistoryFacts DEF TypeInv, Current
  <2>2. UnderWayNow' => ~\E g \in Nat : Speaks("exec", g)'
    BY <1>1, <1>2 DEF UnderWayNow, Dispatching
  <2>3. \A g \in Generations :
          Speaks("exec", g)' => Current(g) /\ UnderWayNow /\ ~UnderWayNow'
    BY <2>1, <2>2
  <2>4. QED
    BY <1>1, <2>3, SpeakersStay DEF HolderInv, Threads
<1>6. FlagsTell'
  BY <1>2, FlagsAreDown
<1>7. AimedRight'
  BY AimedStay DEF HolderInv
<1>8. QED
  BY <1>4, <1>5, <1>6, <1>7 DEF HolderInv

\* What is told of goal i leaves the other goals as they were.
LEMMA ToldOpen ==
  ASSUME TypeInv, NEW i \in DOMAIN goals, NEW w \in {"response", "result"},
         Told(i, w), UNCHANGED nav_generation
  PROVE  /\ KeepsGoals /\ goals'[i].told = w
         /\ \A j \in DOMAIN goals : j # i => /\ goals'[j].told = goals[j].told
                                             /\ Open(j)' <=> Open(j)
         /\ Open(i)' <=> /\ Current(goals[i].generation)
                         /\ ~(IF Accepted(i) THEN w = "result" ELSE w = "response")
<1>1. /\ KeepsGoals /\ goals'[i].told = w
      /\ goals'[i].server = goals[i].server
      /\ \A j \in DOMAIN goals : j # i => goals'[j] = goals[j]
  BY ToldFacts DEF TypeInv
<1>2. \A j \in DOMAIN goals : j # i => (Open(j)' <=> Open(j))
  BY <1>1 DEF Open, Current, Answered, Accepted
<1>3. Open(i)' <=> /\ Current(goals[i].generation)
                   /\ ~(IF Accepted(i) THEN w = "result" ELSE w = "response")
  BY <1>1 DEF Open, Current, Answered, Accepted, KeepsGoals
<1>4. QED
  BY <1>1, <1>2, <1>3

LEMMA ResponseHolds ==
  ASSUME TypeInv, HolderInv, TypeInv', NEW i \in DOMAIN goals,
         on_goal_response(i)
  PROVE  HolderInv'
<1> DEFINE g == goals[i].generation
<1>1. /\ goals[i].told = "nothing" /\ Told(i, "response") /\ Free("exec")
      /\ UNCHANGED <<nav_generation, target, awaiting_final_validation,
                     requested, verdicts>>
  BY DEF on_goal_response, ResponseReady, StaleResponse, GoalAccepted,
         GoalRejected, navVars, flagVars, historyVars
<1>2. /\ KeepsGoals /\ goals'[i].told = "response"
      /\ \A j \in DOMAIN goals : j # i => /\ goals'[j].told = goals[j].told
                                          /\ Open(j)' <=> Open(j)
      /\ Open(i)' <=> Current(g) /\ Accepted(i)
  BY <1>1, ToldOpen
<1>3. Open(i) <=> Current(g)
  BY <1>1, OpenFacts
<1>4. /\ CurrentResponse(i) <=> Current(g)
      /\ DOMAIN goals' = DOMAIN goals /\ goals'[i].generation = goals[i].generation
      /\ Generations \subseteq Nat /\ 0 \notin Generations
      /\ nav_generation \in Nat
  BY <1>2, HistoryFacts DEF CurrentResponse, KeepsGoals, TypeInv
<1>5. AimedRight'
  BY <1>1, <1>2, AimedStay DEF HolderInv
<1> HIDE DEF g
<1>6. PICK next \in Job :
           /\ Continue("exec", next)
           /\ ~CurrentResponse(i) =>
                /\ next.generation = 0 /\ next.message = NoMessage
                /\ next.step \in {"idle", "cancel"}
           /\ CurrentResponse(i) /\ Accepted(i) =>
                /\ next.step \in {"idle", "broadcast"}
                /\ next.message \in {NoMessage, "accepted"}
           /\ CurrentResponse(i) /\ ~Accepted(i) => next.generation = g
  BY ResponseJob DEF g
<1>7. /\ \A u \in Threads : u # "exec" =>
           /\ Working(u)' <=> Working(u)
           /\ \A h \in Nat : Speaks(u, h)' <=> Speaks(u, h)
      /\ Working("exec")' <=> /\ Current(next.generation)
                              /\ next.step \in Dispatching \cup {"report_failure"}
      /\ \A h \in Nat :
           Speaks("exec", h)' <=> /\ next.step \in {"cancel", "broadcast"}
                                  /\ next.generation = h
                                  /\ next.message \in Verdicts
  BY <1>1, <1>6, JobTokens DEF Threads
<1>8. (Current(g) => Accepted(i)) => OneHolder' /\ OneSpeaker'
  <2> SUFFICES ASSUME Current(g) => Accepted(i)
               PROVE  OneHolder' /\ OneSpeaker'
    OBVIOUS
  <2>1. ~Working("exec")' /\ \A h \in Nat : ~Speaks("exec", h)'
    BY <1>4, <1>6, <1>7, StatusFacts DEF Dispatching
  <2>2. \A j \in DOMAIN goals : Open(j)' => Open(j)
    BY <1>2, <1>3
  <2>3. OneHolder' /\ (UnderWayNow' => UnderWayNow)
    BY <1>1, <1>4, <1>7, <2>1, <2>2, HoldersStay DEF HolderInv
  <2>4. QED
    BY <1>1, <1>4, <1>7, <2>1, <2>3, SpeakersStay DEF HolderInv, Threads
<1>9. CASE ~Current(g)
  <2>1. UNCHANGED <<goal_request_pending, navigation_active, current_goal_handle>>
    BY <1>4, <1>9 DEF on_goal_response, StaleResponse, GoalAccepted,
                      GoalRejected, navVars, flagVars
  <2>2. FlagsTell'
    BY <1>1, <1>2, <1>3, <1>4, <1>9, <2>1
    DEF HolderInv, FlagsTell, KeepsGoals, Current, g
  <2>3. QED
    BY <1>5, <1>8, <1>9, <2>2 DEF HolderInv
<1>10. CASE Current(g) /\ Accepted(i)
  <2>1. /\ goal_request_pending' = FALSE /\ current_goal_handle' = i
        /\ navigation_active' = TRUE
    BY <1>4, <1>10 DEF on_goal_response, StaleResponse, GoalAccepted,
                       GoalRejected
  <2>2. i # NoGoal
    BY GoalFacts DEF TypeInv, NoGoal
  <2>3. \A j \in DOMAIN goals : Open(j) => j = i
    BY <1>3, <1>10 DEF HolderInv, OneHolder
  <2>4. FlagsTell'
    BY <1>2, <1>4, <1>10, <2>1, <2>2, <2>3 DEF FlagsTell
  <2>5. QED
    BY <1>5, <1>8, <1>10, <2>4 DEF HolderInv
<1>11. CASE Current(g) /\ ~Accepted(i)
  <2>1. /\ goal_request_pending' = FALSE /\ navigation_active' = FALSE
        /\ current_goal_handle' = current_goal_handle
    BY <1>4, <1>11 DEF on_goal_response, StaleResponse, GoalAccepted,
                       GoalRejected
  <2>2. /\ Open(i) /\ UnderWayNow /\ \A j \in DOMAIN goals : Open(j) => j = i
        /\ \A u \in Threads : ~Working(u)
        /\ awaiting_final_validation = FALSE
    BY <1>3, <1>11 DEF HolderInv, OneHolder, UnderWayNow, TypeInv, TypeOK
  <2>3. current_goal_handle \notin DOMAIN goals
    BY <1>1, <2>2 DEF HolderInv, FlagsTell
  <2>4. current_goal_handle = NoGoal
    BY <2>3, GoalFacts DEF TypeInv, TypeOK, NoGoal
  <2>5. \A j \in DOMAIN goals : ~Open(j)'
    BY <1>2, <1>11, <2>2
  <2>6. Current(next.generation)
    BY <1>4, <1>6, <1>11
  <2>7. QED
    BY <1>1, <1>2, <1>6, <2>1, <2>2, <2>4, <2>5, <2>6, HandBackHolds
<1>12. QED
  BY <1>9, <1>10, <1>11

LEMMA ResultHolds ==
  ASSUME TypeInv, HolderInv, TypeInv', NEW i \in DOMAIN goals,
         on_goal_result(i)
  PROVE  HolderInv'
<1> DEFINE g == goals[i].generation
<1>1. /\ goals[i].told = "response" /\ goals[i].server \in Ends
      /\ Told(i, "result") /\ Free("exec")
      /\ UNCHANGED <<nav_generation, target, requested, verdicts>>
  BY DEF on_goal_result, ResultReady, StaleResult, Arrival,
         NavigationFailed, navVars, flagVars, historyVars
<1>2. /\ KeepsGoals /\ goals'[i].told = "result"
      /\ \A j \in DOMAIN goals : j # i => /\ goals'[j].told = goals[j].told
                                          /\ Open(j)' <=> Open(j)
      /\ ~Open(i)'
  BY <1>1, ToldOpen DEF Accepted, Ends
<1>3. Open(i) <=> Current(g)
  BY <1>1 DEF Open, Answered, Accepted, Ends
<1>4. /\ CurrentResult(i) <=> Current(g)
      /\ DOMAIN goals' = DOMAIN goals /\ Generations \subseteq Nat
  BY <1>2, HistoryFacts DEF CurrentResult, KeepsGoals, TypeInv
<1>5. AimedRight'
  BY <1>1, <1>2, AimedStay DEF HolderInv
<1> HIDE DEF g
<1>6. CASE StaleResult(i)
  <2>1. UNCHANGED <<navVars, job>> /\ ~Open(i)
    BY <1>3, <1>4, <1>6 DEF StaleResult
  <2>2. UNCHANGED <<goal_request_pending, navigation_active,
                    current_goal_handle, awaiting_final_validation>>
    BY <2>1 DEF navVars, flagVars
  <2>3. /\ \A u \in Threads : Working(u)' <=> Working(u)
        /\ \A u \in Threads, h \in Nat : Speaks(u, h)' <=> Speaks(u, h)
    BY <1>1, <2>1, SameJobTokens
  <2>4. OneHolder' /\ (UnderWayNow' => UnderWayNow)
    BY <1>1, <1>2, <1>4, <2>2, <2>3, HoldersStay DEF HolderInv
  <2>5. OneSpeaker'
    BY <1>1, <1>4, <2>3, <2>4, SpeakersStay DEF HolderInv, Threads
  <2>6. FlagsTell'
    BY <1>1, <1>2, <1>4, <2>1, <2>2
    DEF HolderInv, FlagsTell, KeepsGoals, Current
  <2>7. QED
    BY <1>5, <2>4, <2>5, <2>6 DEF HolderInv
<1>7. ASSUME Current(g)
      PROVE  /\ UnderWayNow /\ awaiting_final_validation = FALSE
             /\ \A u \in Threads : ~Working(u)
             /\ \A j \in DOMAIN goals : ~Open(j)'
  BY <1>2, <1>3, <1>7 DEF HolderInv, OneHolder, UnderWayNow, TypeInv, TypeOK
<1>8. CASE Arrival(i)
  <2>1. /\ Current(g) /\ UNCHANGED job /\ awaiting_final_validation' = TRUE
        /\ goal_request_pending' = FALSE /\ navigation_active' = FALSE
        /\ current_goal_handle' = NoGoal
    BY <1>4, <1>8 DEF Arrival
  <2>2. /\ \A u \in Threads : Working(u)' <=> Working(u)
        /\ \A u \in Threads, h \in Nat : Speaks(u, h)' <=> Speaks(u, h)
    BY <1>1, <2>1, SameJobTokens
  <2>3. nav_generation \in Generations /\ requested[nav_generation] = target
    BY <1>7, <2>1, HeldRequest DEF HolderInv
  <2>4. OneHolder'
    BY <1>1, <1>4, <1>7, <2>1, <2>2, <2>3 DEF OneHolder, Generations
  <2>5. OneSpeaker'
    BY <1>1, <1>4, <1>7, <2>1, <2>2, SpeakersStay DEF HolderInv, Threads
  <2>6. FlagsTell'
    BY <1>4, <1>7, <2>1, FlagsAreDown
  <2>7. QED
    BY <1>5, <2>4, <2>5, <2>6 DEF HolderInv
<1>9. CASE NavigationFailed(i)
  <2> DEFINE next == Say(g, goals[i].server)
  <2>1. /\ Current(g) /\ UNCHANGED awaiting_final_validation
        /\ goal_request_pending' = FALSE /\ navigation_active' = FALSE
        /\ current_goal_handle' = NoGoal /\ Continue("exec", next)
    BY <1>4, <1>9 DEF NavigationFailed, g
  <2>2. next \in Job /\ next.generation = g
    <3>1. g \in Nat /\ goals[i].server \in Statuses
      BY <1>1, GoalFacts DEF TypeInv, Goal, Ends, Statuses, g
    <3>2. QED
      BY <3>1, SayFacts
  <2> HIDE DEF next
  <2>3. awaiting_final_validation' = FALSE
    BY <1>7, <2>1
  <2>4. QED
    BY <1>1, <1>2, <1>7, <2>1, <2>2, <2>3, HandBackHolds
<1>10. QED
  BY <1>6, <1>8, <1>9 DEF on_goal_result

\* The wait for a pose has nobody else at work.
LEMMA AwaitAlone ==
  ASSUME TypeInv, HolderInv, awaiting_final_validation
  PROVE  /\ UnderWayNow /\ \A u \in Threads : ~Working(u)
         /\ \A i \in DOMAIN goals : ~Open(i)
         /\ goal_request_pending = FALSE /\ navigation_active = FALSE
         /\ current_goal_handle = NoGoal
<1>1. UnderWayNow /\ \A u \in Threads : ~Working(u)
  BY DEF HolderInv, OneHolder, UnderWayNow
<1>2. \A i \in DOMAIN goals : ~Open(i)
  BY DEF HolderInv, OneHolder
<1>3. QED
  BY <1>1, <1>2, FlagsDown DEF HolderInv

LEMMA PoseHolds ==
  ASSUME TypeInv, HolderInv, TypeInv', NEW age, NEW within \in BOOLEAN,
         on_lcode_pose(age, within)
  PROVE  HolderInv'
<1>1. /\ Free("exec") /\ awaiting_final_validation
      /\ awaiting_final_validation' = FALSE
      /\ UNCHANGED <<nav_generation, target, goal_request_pending,
                     navigation_active, current_goal_handle, goals,
                     requested, verdicts>>
  BY DEF on_lcode_pose, ValidatesWith, historyVars
<1>2. PICK next \in Job :
        Continue("exec", next) /\ next.generation = nav_generation
  BY PoseJob
<1>3. KeepsGoals /\ \A i \in DOMAIN goals : Open(i)' <=> Open(i)
  BY <1>1, SameGoalsOpen, SameGoalsRefer DEF Generations
<1>4. QED
  BY <1>1, <1>2, <1>3, AwaitAlone, HandBackHolds DEF Current

LEMMA ValidationTimeoutHolds ==
  TypeInv /\ HolderInv /\ TypeInv' /\ check_validation_timeout => HolderInv'
<1> SUFFICES ASSUME TypeInv, HolderInv, TypeInv', check_validation_timeout
             PROVE  HolderInv'
  OBVIOUS
<1> DEFINE next == ReportFailure(nav_generation)
<1>1. /\ Free("exec") /\ awaiting_final_validation
      /\ awaiting_final_validation' = FALSE
      /\ UNCHANGED <<nav_generation, target, goal_request_pending,
                     navigation_active, current_goal_handle, goals,
                     requested, verdicts>>
      /\ Continue("exec", next)
  BY DEF check_validation_timeout, historyVars
<1>2. next \in Job /\ next.generation = nav_generation
  BY ReportFacts, HistoryFacts DEF TypeInv
<1>3. KeepsGoals /\ \A i \in DOMAIN goals : Open(i)' <=> Open(i)
  BY <1>1, SameGoalsOpen, SameGoalsRefer DEF Generations
<1> HIDE DEF next
<1>4. QED
  BY <1>1, <1>2, <1>3, AwaitAlone, HandBackHolds DEF Current

\* Steps in which the bridge takes no part.
LEMMA QuietStepHolds ==
  ASSUME TypeInv, HolderInv, KeepsGoals,
         UNCHANGED <<nav_generation, target, goal_request_pending,
                     navigation_active, current_goal_handle,
                     awaiting_final_validation, job, requested, verdicts>>,
         \A i \in DOMAIN goals :
           /\ goals'[i].told = goals[i].told
           /\ goals[i].told # "nothing" =>
                (goals'[i].server = "rejected" <=> goals[i].server = "rejected")
  PROVE  HolderInv'
<1>1. \A i \in DOMAIN goals : Open(i)' <=> Open(i)
  BY DEF KeepsGoals, Open, Current, Answered, Accepted
<1>2. /\ \A u \in Threads : Working(u)' <=> Working(u)
      /\ \A u \in Threads, h \in Nat : Speaks(u, h)' <=> Speaks(u, h)
  BY SameJobTokens
<1>3. OneHolder' /\ (UnderWayNow' => UnderWayNow)
  BY <1>1, <1>2, HoldersStay DEF HolderInv, KeepsGoals
<1>4. OneSpeaker'
  <2>1. Generations \subseteq Nat
    BY HistoryFacts DEF TypeInv
  <2>2. QED
    BY <1>2, <1>3, <2>1, SpeakersStay DEF HolderInv, Threads
<1>5. FlagsTell' /\ AimedRight'
  BY <1>1, FlagsStay, AimedStay DEF HolderInv
<1>6. QED
  BY <1>3, <1>4, <1>5 DEF HolderInv

LEMMA Nav2Holds ==
  ASSUME TypeInv, HolderInv, NEW i \in DOMAIN goals,
         \/ Nav2Accepts(i)
         \/ Nav2Rejects(i)
         \/ \E how \in Ends : Nav2Ends(i, how)
  PROVE  HolderInv'
<1>1. UNCHANGED <<nav_generation, target, goal_request_pending,
                  navigation_active, current_goal_handle,
                  awaiting_final_validation, job, requested, verdicts>>
  BY DEF Nav2Accepts, Nav2Rejects, Nav2Ends, navVars, flagVars, historyVars
<1>2. CASE Nav2Accepts(i)
  BY <1>1, <1>2, AcceptFacts, QuietStepHolds DEF TypeInv
<1>3. CASE Nav2Rejects(i)
  <2>1. /\ KeepsGoals
        /\ goals'[i].server = "rejected" /\ goals'[i].told = goals[i].told
        /\ \A j \in DOMAIN goals : j # i => goals'[j] = goals[j]
    BY <1>3, ServerFacts DEF Nav2Rejects, TypeInv
  <2>2. goals[i].told = "nothing"
    BY <1>3 DEF Nav2Rejects, TypeInv, GoalsRefer
  <2>3. QED
    BY <1>1, <2>1, <2>2, QuietStepHolds
<1>4. ASSUME NEW how \in Ends, Nav2Ends(i, how) PROVE HolderInv'
  <2>1. /\ KeepsGoals
        /\ goals'[i].server = how /\ goals'[i].told = goals[i].told
        /\ \A j \in DOMAIN goals : j # i => goals'[j] = goals[j]
    BY <1>4, ServerFacts DEF Nav2Ends, TypeInv
  <2>2. goals[i].server = "running" /\ how # "rejected"
    BY <1>4 DEF Nav2Ends, Ends
  <2>3. QED
    BY <1>1, <2>1, <2>2, QuietStepHolds
<1>5. QED
  BY <1>2, <1>3, <1>4

LEMMA IdleStepHolds ==
  TypeInv /\ HolderInv /\ (Tick \/ UNCHANGED vars) => HolderInv'
<1> SUFFICES ASSUME TypeInv, HolderInv, Tick \/ UNCHANGED vars
             PROVE  HolderInv'
  OBVIOUS
<1>1. UNCHANGED <<nav_generation, target, goal_request_pending,
                  navigation_active, current_goal_handle, goals,
                  awaiting_final_validation, job, requested, verdicts>>
  BY DEF Tick, vars, navVars, flagVars, historyVars
<1>2. KeepsGoals
  BY <1>1, SameGoalsRefer DEF Generations
<1>3. QED
  BY <1>1, <1>2, QuietStepHolds

LEMMA InitHolds == Init => HolderInv
<1> SUFFICES ASSUME Init PROVE HolderInv
  OBVIOUS
<1>1. DOMAIN goals = {} /\ Generations = {} /\ \A t \in Threads : ~Working(t)
  BY IdleFacts DEF Init, Generations, Working, Dispatching
<1>2. QED
  BY <1>1 DEF Init, HolderInv, OneHolder, OneSpeaker, FlagsTell, AimedRight,
              UnderWayNow

LEMMA AwaitsForOne == TypeInv /\ HolderInv => AwaitsForRequest
BY HistoryFacts DEF TypeInv, HolderInv, OneHolder, UnderWayNow, AwaitsForRequest

\* The two invariants carry each other.
LEMMA NextKeepsHolder ==
  TypeInv /\ HolderInv /\ [Next]_vars => TypeInv' /\ HolderInv'
<1> SUFFICES ASSUME TypeInv, HolderInv, [Next]_vars
             PROVE  TypeInv' /\ HolderInv'
  OBVIOUS
<1>1. TypeInv'
  BY AwaitsForOne, NextKeepsTypes
<1>2. CASE AppSilent \/ Tick \/ UNCHANGED vars
  BY <1>1, <1>2, IdleStepHolds DEF AppSilent
<1>3. ASSUME NEW t \in Targets, Navigate(t) PROVE HolderInv'
  BY <1>1, <1>3, NavigateHolds
<1>4. CASE CancelRequested \/ on_localization_abort \/ check_validation_timeout
  BY <1>1, <1>4, CancelRequestedHolds, AbortHolds, ValidationTimeoutHolds
<1>5. ASSUME NEW t \in Threads, Proceed(t) PROVE HolderInv'
  BY <1>1, <1>5, ProceedHolds
<1>6. ASSUME NEW i \in DOMAIN goals, on_goal_response(i) PROVE HolderInv'
  BY <1>1, <1>6, ResponseHolds
<1>7. ASSUME NEW i \in DOMAIN goals, on_goal_result(i) PROVE HolderInv'
  BY <1>1, <1>7, ResultHolds
<1>8. ASSUME NEW i \in DOMAIN goals,
             \/ Nav2Accepts(i)
             \/ Nav2Rejects(i)
             \/ \E how \in Ends : Nav2Ends(i, how)
      PROVE  HolderInv'
  BY <1>8, Nav2Holds
<1>9. ASSUME NEW age, NEW within \in BOOLEAN, on_lcode_pose(age, within)
      PROVE  HolderInv'
  BY <1>1, <1>9, PoseHolds
<1>10. QED
  BY <1>1, <1>2, <1>3, <1>4, <1>5, <1>6, <1>7, <1>8, <1>9 DEF Next

LEMMA HolderAlways == Spec => [](TypeInv /\ HolderInv)
<1>1. Init => TypeInv /\ HolderInv
  BY InitTypes, InitHolds
<1>2. QED
  BY <1>1, NextKeepsHolder, PTL DEF Spec

-----------------------------------------------------------------------------
(* What follows from one holder *)

\* Every state of the bridge has its type, and no step refers to a goal or a
\* generation that does not exist.
THEOREM TypeCorrect == Spec => []TypeOK
<1>1. TypeInv => TypeOK
  BY DEF TypeInv
<1>2. QED
  BY <1>1, HolderAlways, PTL

\* One request is answered once, however the io thread, the executor, Nav2
\* and the driver's aborts interleave.
THEOREM OneVerdict == Spec => []OneVerdictPerRequest
<1>1. HolderInv => OneVerdictPerRequest
  BY DEF HolderInv, OneSpeaker, OneVerdictPerRequest
<1>2. QED
  BY <1>1, HolderAlways, PTL

\* The four flags and the handle agree on one phase of the current request.
THEOREM OnePhase == Spec => []OnePhaseAtATime
<1>1. TypeInv /\ HolderInv => OnePhaseAtATime
  <2> SUFFICES ASSUME TypeInv, HolderInv PROVE OnePhaseAtATime
    OBVIOUS
  <2>1. current_goal_handle # NoGoal => current_goal_handle \in DOMAIN goals
    BY GoalFacts DEF TypeInv, TypeOK, NoGoal
  <2>2. navigation_active =>
          \E i \in DOMAIN goals : /\ i = current_goal_handle /\ Open(i)
                                  /\ goals[i].told = "response"
    BY <2>1 DEF HolderInv, FlagsTell
  <2>3. goal_request_pending =>
          \E i \in DOMAIN goals : Open(i) /\ goals[i].told = "nothing"
    BY OpenFacts DEF HolderInv, FlagsTell
  <2>4. ~(goal_request_pending /\ navigation_active)
    BY <2>2, <2>3 DEF HolderInv, OneHolder
  <2>5. ~(awaiting_final_validation /\ (goal_request_pending \/ navigation_active))
    BY AwaitAlone
  <2>6. navigation_active => Current(goals[current_goal_handle].generation)
    BY <2>2 DEF Open
  <2>7. navigation_active <=> current_goal_handle # NoGoal
    BY DEF HolderInv, FlagsTell
  <2>8. QED
    BY <2>4, <2>5, <2>6, <2>7 DEF OnePhaseAtATime
<1>2. QED
  BY <1>1, HolderAlways, PTL

-----------------------------------------------------------------------------
(* What Nav2 has said stays said *)

\* A goal keeps its request and its target, a cancel is not taken back, and
\* the end of it is final.
GoalsProgress ==
  \A i \in DOMAIN goals :
    /\ i \in DOMAIN goals'
    /\ goals'[i].generation = goals[i].generation
    /\ goals'[i].target = goals[i].target
    /\ goals[i].cancel => goals'[i].cancel
    /\ goals[i].told = "result" => /\ goals'[i].told = "result"
                                   /\ goals'[i].server = goals[i].server

LEMMA SameGoalsProgress == UNCHANGED goals => GoalsProgress
BY DEF GoalsProgress

LEMMA ProceedProgress ==
  ASSUME TypeInv, NEW t \in Threads, Proceed(t) PROVE GoalsProgress
<1>1. CASE SendGoal(t)
  <2>1. CASE Current(job[t].generation)
    <3> DEFINE goal == [generation |-> job[t].generation, target |-> target,
                        is_retry |-> job[t].is_retry, server |-> "requested",
                        told |-> "nothing", cancel |-> FALSE]
    <3>1. goals' = Append(goals, goal)
      BY <1>1, <2>1 DEF SendGoal
    <3>2. goal \in Goal
      BY JobFacts, TypeParts DEF NavTypeOK, Goal, Ends
    <3> HIDE DEF goal
    <3>3. QED
      BY <3>1, <3>2, SendFacts DEF TypeInv, GoalsProgress
  <2>2. CASE ~Current(job[t].generation)
    BY <1>1, <2>2, SameGoalsProgress DEF SendGoal
  <2>3. QED
    BY <2>1, <2>2
<1>2. CASE CancelGoal(t)
  <2>1. /\ job[t].handle \in DOMAIN goals
        /\ goals' = [goals EXCEPT ![job[t].handle].cancel = TRUE]
    BY <1>2 DEF CancelGoal, At, TypeInv, JobsRefer
  <2>2. QED
    BY <2>1, CancelFacts DEF TypeInv, GoalsProgress, KeepsGoals
<1>3. CASE \/ WaitServer(t) \/ ServerUnavailable(t) \/ ReadTarget(t)
           \/ FailureReport(t) \/ Broadcast(t)
  BY <1>3, SameGoalsProgress
  DEF WaitServer, ServerUnavailable, ReadTarget, FailureReport, Broadcast
<1>4. QED
  BY <1>1, <1>2, <1>3 DEF Proceed

LEMMA CallbackProgress ==
  ASSUME TypeInv, NEW i \in DOMAIN goals,
         on_goal_response(i) \/ on_goal_result(i)
  PROVE  GoalsProgress
<1>1. \/ Told(i, "response") /\ goals[i].told = "nothing"
      \/ Told(i, "result")
  BY DEF on_goal_response, ResponseReady, on_goal_result
<1>2. CASE Told(i, "response") /\ goals[i].told = "nothing"
  BY <1>2, ToldFacts DEF TypeInv, GoalsProgress, KeepsGoals
<1>3. CASE Told(i, "result")
  BY <1>3, ToldFacts DEF TypeInv, GoalsProgress, KeepsGoals
<1>4. QED
  BY <1>1, <1>2, <1>3

LEMMA Nav2Progress ==
  ASSUME TypeInv, NEW i \in DOMAIN goals,
         \/ Nav2Accepts(i)
         \/ Nav2Rejects(i)
         \/ \E how \in Ends : Nav2Ends(i, how)
  PROVE  GoalsProgress
<1>1. \A j \in DOMAIN goals : goals[j].told = "result" => goals[j].server \in Ends
  BY DEF TypeInv, GoalsRefer
<1>2. CASE Nav2Accepts(i)
  BY <1>1, <1>2, AcceptFacts DEF TypeInv, GoalsProgress, KeepsGoals, Ends
<1>3. CASE Nav2Rejects(i)
  <2>1. goals[i].server = "requested"
    BY <1>3 DEF Nav2Rejects
  <2>2. QED
    BY <1>1, <1>3, <2>1, ServerFacts
    DEF Nav2Rejects, TypeInv, GoalsProgress, KeepsGoals, Ends
<1>4. ASSUME NEW how \in Ends, Nav2Ends(i, how) PROVE GoalsProgress
  <2>1. goals[i].server = "running"
    BY <1>4 DEF Nav2Ends
  <2>2. QED
    BY <1>1, <1>4, <2>1, ServerFacts
    DEF Nav2Ends, TypeInv, GoalsProgress, KeepsGoals, Ends
<1>5. QED
  BY <1>2, <1>3, <1>4

LEMMA NextProgress ==
  ASSUME TypeInv, [Next]_vars PROVE GoalsProgress
<1>1. CASE UNCHANGED goals
  BY <1>1, SameGoalsProgress
<1>2. ASSUME NEW t \in Threads, Proceed(t) PROVE GoalsProgress
  BY <1>2, ProceedProgress
<1>3. ASSUME NEW i \in DOMAIN goals, on_goal_response(i) \/ on_goal_result(i)
      PROVE  GoalsProgress
  BY <1>3, CallbackProgress
<1>4. ASSUME NEW i \in DOMAIN goals,
             \/ Nav2Accepts(i)
             \/ Nav2Rejects(i)
             \/ \E how \in Ends : Nav2Ends(i, how)
      PROVE  GoalsProgress
  BY <1>4, Nav2Progress
<1>5. ASSUME \/ AppSilent \/ UNCHANGED vars \/ CancelRequested \/ Tick
             \/ on_localization_abort \/ check_validation_timeout
             \/ \E t \in Targets : Navigate(t)
             \/ \E age \in 0..MaxPoseDelay, within \in BOOLEAN :
                  on_lcode_pose(age, within)
      PROVE  UNCHANGED goals
  BY <1>5 DEF AppSilent, vars, CancelRequested, Tick, on_localization_abort,
              check_validation_timeout, Navigate, on_lcode_pose
<1>6. QED
  BY <1>1, <1>2, <1>3, <1>4, <1>5 DEF Next

-----------------------------------------------------------------------------
(* Success is earned *)

LEMMA ReachedStays ==
  ASSUME GoalsProgress, NEW g, Reached(g) PROVE Reached(g)'
BY DEF GoalsProgress, Reached

\* A thread is about to say that request g has succeeded.
Claims(t, g) == Speaks(t, g) /\ job[t].message = "succeeded"

\* A job that says something else makes no claim.
LEMMA ClaimsNothing ==
  ASSUME TypeInv, NEW t \in Threads, NEW next \in Job, Continue(t, next),
         next.message # "succeeded" \/ next.step \notin {"cancel", "broadcast"}
  PROVE  \A u \in Threads, g \in Nat : Claims(u, g)' => Claims(u, g)
<1>1. job'[t] = next /\ \A u \in Threads : u # t => job'[u] = job[u]
  BY ContinueFacts DEF TypeInv
<1>2. QED
  BY <1>1 DEF Claims, Speaks

LEMMA SameClaims ==
  ASSUME UNCHANGED job
  PROVE  \A u \in Threads, g \in Nat : Claims(u, g)' => Claims(u, g)
BY DEF Claims, Speaks

LEMMA ProceedClaims ==
  ASSUME TypeInv, NEW t \in Threads, Proceed(t)
  PROVE  \A u \in Threads, g \in Nat : Claims(u, g)' => Claims(u, g)
<1> DEFINE h == job[t].generation
<1>1. job[t] \in Job /\ h \in Nat /\ job[t].message \in Statuses \cup {NoMessage}
  BY JobFacts
<1>2. Idle \in Job /\ Idle.step = "idle"
  BY IdleFacts
<1>3. \A s \in Statuses :
        /\ Say(h, s) \in Job /\ Say(h, s).message = s
        /\ Say(h, s).generation = h
  BY <1>1, SayFacts
<1>4. "server_unavailable" \in Statuses /\ "localization_failed" \in Statuses
  BY DEF Statuses
<1> HIDE DEF h
<1>5. CASE WaitServer(t) \/ ReadTarget(t)
  <2>1. PICK s \in {"read_target", "report_failure", "unavailable", "send_goal"} :
          \/ Continue(t, [job[t] EXCEPT !.step = s])
          \/ Continue(t, Idle)
    BY <1>5 DEF WaitServer, WhenUnavailable, ReadTarget
  <2> DEFINE next == [job[t] EXCEPT !.step = s]
  <2>2. next \in Job /\ next.step = s /\ s \notin {"cancel", "broadcast"}
    <3>1. s \in Steps
      BY DEF Steps
    <3>2. QED
      BY <1>1, <3>1, StepFacts
  <2>3. Continue(t, next) \/ Continue(t, Idle)
    BY <2>1
  <2> HIDE DEF next
  <2>4. QED
    BY <1>2, <2>2, <2>3, ClaimsNothing
<1>6. CASE ServerUnavailable(t) \/ SendGoal(t) \/ FailureReport(t) \/ Broadcast(t)
  <2>1. \/ Continue(t, Say(h, "server_unavailable"))
        \/ Continue(t, Say(h, "localization_failed"))
        \/ Continue(t, Idle)
    BY <1>6 DEF ServerUnavailable, SendGoal, FailureReport, Broadcast, h
  <2>2. QED
    BY <1>2, <1>3, <1>4, <2>1, ClaimsNothing
<1>7. CASE CancelGoal(t)
  <2> DEFINE next == IF job[t].message = NoMessage THEN Idle
                     ELSE Say(h, job[t].message)
  <2>1. Continue(t, next) /\ job[t].step = "cancel"
    BY <1>7 DEF CancelGoal, At, h
  <2>2. /\ next \in Job
        /\ next.step # "idle" => /\ next.message = job[t].message
                                 /\ next.generation = h
    BY <1>1, <1>2, <1>3
  <2> HIDE DEF next
  <2>3. job'[t] = next /\ \A u \in Threads : u # t => job'[u] = job[u]
    BY <2>1, <2>2, ContinueFacts DEF TypeInv
  <2>4. \A g \in Nat : Claims(t, g)' => Claims(t, g)
    BY <2>1, <2>2, <2>3 DEF Claims, Speaks, h
  <2>5. QED
    BY <2>3, <2>4 DEF Claims, Speaks
<1>8. QED
  BY <1>5, <1>6, <1>7 DEF Proceed

Awaited(g) == awaiting_final_validation /\ Current(g)

\* Only a pose that ends the wait within the tolerance makes a new claim.
LEMMA NextClaims ==
  ASSUME TypeInv, [Next]_vars, NEW u \in Threads, NEW g \in Nat, Claims(u, g)'
  PROVE  Claims(u, g) \/ Awaited(g)
<1>1. ASSUME AppSilent \/ UNCHANGED vars \/ Tick PROVE Claims(u, g)
  BY <1>1, SameClaims DEF AppSilent, vars, Tick
<1>2. ASSUME NEW t \in Targets, Navigate(t) PROVE Claims(u, g)
  <2>1. nav_generation + 1 \in Nat
    BY DEF TypeInv, TypeOK
  <2>2. QED
    BY <1>2, <2>1, DispatchFacts, ClaimsNothing DEF Navigate, Threads
<1>3. ASSUME CancelRequested PROVE Claims(u, g)
  <2> DEFINE next == CancelThen(current_goal_handle, Say(0, "canceled"))
  <2>1. Continue("io", next) /\ next \in Job /\ next.message = "canceled"
    BY <1>3, CancelThenSays DEF CancelRequested, Statuses
  <2> HIDE DEF next
  <2>2. QED
    BY <2>1, ClaimsNothing DEF Threads
<1>4. ASSUME on_localization_abort PROVE Claims(u, g)
  <2> DEFINE next == CancelThen(current_goal_handle,
                                Say(nav_generation, "localization_failed"))
  <2>1. nav_generation \in Nat
    BY DEF TypeInv, TypeOK
  <2>2. /\ Continue("exec", next)
        /\ next \in Job /\ next.message = "localization_failed"
    BY <1>4, <2>1, CancelThenSays DEF on_localization_abort, Statuses
  <2> HIDE DEF next
  <2>3. QED
    BY <2>2, ClaimsNothing DEF Threads
<1>5. ASSUME NEW t \in Threads, Proceed(t) PROVE Claims(u, g)
  BY <1>5, ProceedClaims
<1>6. ASSUME NEW i \in DOMAIN goals, on_goal_response(i) PROVE Claims(u, g)
  <2>1. PICK next \in Job :
          /\ Continue("exec", next)
          /\ next.message \in {NoMessage, "accepted", "rejected"}
    BY <1>6, ResponseJob
  <2>2. next.message # "succeeded"
    BY <2>1 DEF NoMessage
  <2>3. QED
    BY <2>1, <2>2, ClaimsNothing DEF Threads
<1>7. ASSUME NEW i \in DOMAIN goals, on_goal_result(i) PROVE Claims(u, g)
  <2>1. CASE UNCHANGED job
    BY <2>1, SameClaims
  <2>2. CASE NavigationFailed(i)
    <3> DEFINE next == Say(goals[i].generation, goals[i].server)
    <3>1. /\ goals[i].generation \in Nat /\ goals[i].server \in Statuses
          /\ goals[i].server # "succeeded" /\ Continue("exec", next)
      BY <1>7, <2>2, GoalFacts
      DEF on_goal_result, ResultReady, NavigationFailed, TypeInv, Goal, Ends,
          Statuses
    <3>2. next \in Job /\ next.message = goals[i].server
      BY <3>1, SayFacts
    <3> HIDE DEF next
    <3>3. QED
      BY <3>1, <3>2, ClaimsNothing DEF Threads
  <2>3. QED
    BY <1>7, <2>1, <2>2 DEF on_goal_result, StaleResult, Arrival
<1>8. ASSUME NEW i \in DOMAIN goals,
             \/ Nav2Accepts(i)
             \/ Nav2Rejects(i)
             \/ \E how \in Ends : Nav2Ends(i, how)
      PROVE  Claims(u, g)
  BY <1>8, SameClaims DEF Nav2Accepts, Nav2Rejects, Nav2Ends
<1>9. ASSUME NEW age, NEW within \in BOOLEAN, on_lcode_pose(age, within)
      PROVE  Claims(u, g) \/ Awaited(g)
  <2>1. PICK next \in Job :
          Continue("exec", next) /\ next.generation = nav_generation
    BY <1>9, PoseJob
  <2>2. job'["exec"] = next /\ \A t \in Threads : t # "exec" => job'[t] = job[t]
    BY <2>1, ContinueFacts DEF TypeInv, Threads
  <2>3. CASE u = "exec"
    BY <1>9, <2>1, <2>2, <2>3
    DEF Claims, Speaks, Current, on_lcode_pose, ValidatesWith, Awaited
  <2>4. CASE u # "exec"
    BY <2>2, <2>4 DEF Claims, Speaks
  <2>5. QED
    BY <2>3, <2>4
<1>10. ASSUME check_validation_timeout PROVE Claims(u, g)
  <2>1. nav_generation \in Nat
    BY DEF TypeInv, TypeOK
  <2>2. QED
    BY <1>10, <2>1, ReportFacts, ClaimsNothing
    DEF check_validation_timeout, Threads
<1>11. QED
  BY <1>1, <1>2, <1>3, <1>4, <1>5, <1>6, <1>7, <1>8, <1>9, <1>10 DEF Next

\* Only a goal of the current request that Nav2 reached begins the wait.
LEMMA NextAwaits ==
  ASSUME TypeInv, HolderInv, [Next]_vars, awaiting_final_validation'
  PROVE  /\ nav_generation' = nav_generation
         /\ \A g \in Generations : Current(g) =>
              awaiting_final_validation \/ Reached(g)'
<1>1. CASE awaiting_final_validation /\ nav_generation' = nav_generation
  BY <1>1
<1>2. ASSUME NEW i \in DOMAIN goals, on_goal_result(i), Arrival(i)
      PROVE  /\ nav_generation' = nav_generation
             /\ \A g \in Generations : Current(g) => Reached(g)'
  <2>1. Told(i, "result") /\ goals[i].server = "succeeded"
        /\ nav_generation' = nav_generation /\ goals[i].generation = nav_generation
    BY <1>2 DEF on_goal_result, Arrival, CurrentResult, Current
  <2>2. /\ DOMAIN goals' = DOMAIN goals /\ goals'[i].told = "result"
        /\ goals'[i].server = "succeeded" /\ goals'[i].generation = nav_generation
    BY <2>1, ToldFacts DEF TypeInv, KeepsGoals
  <2>3. QED
    BY <2>1, <2>2 DEF Reached, Current
<1>3. CASE AppSilent \/ UNCHANGED vars \/ Tick
  BY <1>1, <1>3 DEF AppSilent, vars, navVars, flagVars, Tick
<1>4. ~(\E t \in Targets : Navigate(t)) /\ ~CancelRequested
      /\ ~on_localization_abort /\ ~check_validation_timeout
      /\ ~\E age \in 0..MaxPoseDelay, within \in BOOLEAN : on_lcode_pose(age, within)
  BY DEF Navigate, CancelRequested, on_localization_abort, ForgetGoal,
         check_validation_timeout, on_lcode_pose
<1>5. ASSUME NEW t \in Threads, Proceed(t)
      PROVE  awaiting_final_validation /\ nav_generation' = nav_generation
  BY <1>5 DEF Proceed, WaitServer, ServerUnavailable, ReadTarget, SendGoal,
              CancelGoal, FailureReport, Broadcast, ForgetGoal, navVars, flagVars
<1>6. ASSUME NEW i \in DOMAIN goals, on_goal_response(i)
      PROVE  awaiting_final_validation /\ nav_generation' = nav_generation
  BY <1>6 DEF on_goal_response, StaleResponse, GoalAccepted, GoalRejected,
              navVars, flagVars
<1>7. ASSUME NEW i \in DOMAIN goals, on_goal_result(i), ~Arrival(i)
      PROVE  awaiting_final_validation /\ nav_generation' = nav_generation
  BY <1>7 DEF on_goal_result, StaleResult, NavigationFailed, navVars, flagVars
<1>8. ASSUME NEW i \in DOMAIN goals,
             \/ Nav2Accepts(i)
             \/ Nav2Rejects(i)
             \/ \E how \in Ends : Nav2Ends(i, how)
      PROVE  awaiting_final_validation /\ nav_generation' = nav_generation
  BY <1>8 DEF Nav2Accepts, Nav2Rejects, Nav2Ends, navVars, flagVars
<1>9. QED
  BY <1>1, <1>2, <1>3, <1>4, <1>5, <1>6, <1>7, <1>8 DEF Next

\* The verdict of a request is what a thread had to say of it.
LEMMA NextVerdicts ==
  ASSUME TypeInv, HolderInv, [Next]_vars, NEW g \in Generations',
         verdicts'[g] = <<"succeeded">>
  PROVE  /\ g \in Generations
         /\ verdicts[g] = <<"succeeded">> \/ \E t \in Threads : Claims(t, g)
<1>1. ASSUME NEW what \in Targets \cup {"cancel", "abort"}, NextGeneration(what)
      PROVE  g \in Generations /\ verdicts[g] = <<"succeeded">>
  <2>1. /\ Generations' = Generations \cup {nav_generation'}
        /\ verdicts'[nav_generation'] = <<>>
        /\ \A h \in Generations : verdicts'[h] = verdicts[h]
    BY <1>1, NextGenerationFacts DEF TypeInv
  <2>2. <<"succeeded">> # <<>>
    OBVIOUS
  <2>3. QED
    BY <2>1, <2>2
<1>2. ASSUME NEW t \in Threads, Broadcast(t)
      PROVE  /\ g \in Generations
             /\ verdicts[g] = <<"succeeded">> \/ \E u \in Threads : Claims(u, g)
  <2>1. Generations' = Generations
    BY <1>2 DEF Broadcast, navVars, Generations
  <2>2. /\ verdicts[g] \in Seq(Verdicts) /\ Len(verdicts[g]) <= 1
        /\ verdicts[g] # <<>> => ~Speaks(t, g)
    BY <2>1, HistoryFacts DEF TypeInv, HolderInv, OneSpeaker
  <2>3. verdicts'[g] = IF Speaks(t, g) THEN Append(verdicts[g], job[t].message)
                                       ELSE verdicts[g]
    BY <1>2, <2>1, BroadcastFacts
  <2>4. CASE Speaks(t, g)
    <3>1. verdicts[g] = <<>>
      BY <2>2, <2>4
    <3>2. Append(<<>>, job[t].message) = <<job[t].message>>
      OBVIOUS
    <3>3. <<job[t].message>> = <<"succeeded">>
      BY <2>3, <2>4, <3>1, <3>2
    <3>4. job[t].message = "succeeded"
      BY <3>3
    <3>5. QED
      BY <2>1, <2>4, <3>4 DEF Claims
  <2>5. CASE ~Speaks(t, g)
    BY <2>1, <2>3, <2>5
  <2>6. QED
    BY <2>4, <2>5
<1>3. CASE UNCHANGED <<nav_generation, verdicts>>
  BY <1>3 DEF Generations
<1>4. ASSUME NEW t \in Threads, Proceed(t), ~Broadcast(t)
      PROVE  UNCHANGED <<nav_generation, verdicts>>
  BY <1>4 DEF Proceed, WaitServer, ServerUnavailable, ReadTarget, SendGoal,
              CancelGoal, FailureReport, navVars, historyVars
<1>5. ASSUME NEW i \in DOMAIN goals,
             \/ on_goal_response(i) \/ on_goal_result(i)
             \/ Nav2Accepts(i) \/ Nav2Rejects(i)
             \/ \E how \in Ends : Nav2Ends(i, how)
      PROVE  UNCHANGED <<nav_generation, verdicts>>
  <2>1. CASE on_goal_response(i)
    BY <2>1 DEF on_goal_response, StaleResponse, GoalAccepted, GoalRejected,
                navVars, historyVars
  <2>2. CASE on_goal_result(i)
    BY <2>2 DEF on_goal_result, StaleResult, Arrival, NavigationFailed,
                navVars, historyVars
  <2>3. QED
    BY <1>5, <2>1, <2>2
    DEF Nav2Accepts, Nav2Rejects, Nav2Ends, navVars, historyVars
<1>6. ASSUME \/ AppSilent \/ UNCHANGED vars \/ Tick \/ check_validation_timeout
             \/ \E age \in 0..MaxPoseDelay, within \in BOOLEAN :
                  on_lcode_pose(age, within)
      PROVE  UNCHANGED <<nav_generation, verdicts>>
  BY <1>6 DEF AppSilent, vars, Tick, check_validation_timeout, on_lcode_pose,
              navVars, historyVars
<1>7. ASSUME \/ CancelRequested \/ on_localization_abort
             \/ \E t \in Targets : Navigate(t)
      PROVE  \E what \in Targets \cup {"cancel", "abort"} : NextGeneration(what)
  BY <1>7 DEF CancelRequested, on_localization_abort, Invalidate, Navigate
<1>8. QED
  BY <1>1, <1>2, <1>3, <1>4, <1>5, <1>6, <1>7 DEF Next

\* A generation the step did not make.
LEMMA OldGenerations ==
  ASSUME TypeInv, TypeInv', NEW t \in Threads, NEW g \in Generations',
         Speaks(t, g), [Next]_vars
  PROVE  g \in Generations
BY JobFacts, HistoryFacts DEF Speaks, TypeInv, Generations

LEMMA InitEarned == Init => EarnedInv
BY DEF Init, EarnedInv, Generations

LEMMA NextKeepsEarned ==
  TypeInv /\ HolderInv /\ EarnedInv /\ TypeInv' /\ [Next]_vars => EarnedInv'
<1> SUFFICES ASSUME TypeInv, HolderInv, EarnedInv, TypeInv', [Next]_vars
             PROVE  EarnedInv'
  OBVIOUS
<1>1. \A g : Reached(g) => Reached(g)'
  BY NextProgress, ReachedStays
<1>2. \A g \in Generations : Awaited(g) => Reached(g)
  BY DEF EarnedInv, Awaited
<1>3. awaiting_final_validation' =>
        \A g \in Generations' : Current(g)' => Reached(g)'
  <2> SUFFICES ASSUME awaiting_final_validation', NEW g \in Generations',
                      Current(g)'
               PROVE  Reached(g)'
    OBVIOUS
  <2>1. nav_generation' = nav_generation
    BY NextAwaits
  <2>2. g \in Generations /\ Current(g)
    BY <2>1 DEF Generations, Current
  <2>3. awaiting_final_validation \/ Reached(g)'
    BY <2>2, NextAwaits
  <2>4. awaiting_final_validation => Reached(g)
    BY <2>2 DEF EarnedInv
  <2>5. QED
    BY <1>1, <2>3, <2>4
<1>4. ASSUME NEW t \in Threads, NEW g \in Generations',
             Speaks(t, g)', job'[t].message = "succeeded"
      PROVE  Reached(g)'
  <2>1. g \in Nat /\ Claims(t, g)'
    BY <1>4, HistoryFacts DEF Claims, Generations, TypeInv, TypeOK
  <2>2. CASE Claims(t, g)
    <3>1. g \in Generations
      BY <2>2, OldGenerations DEF Claims
    <3>2. Reached(g)
      BY <2>2, <3>1 DEF Claims, EarnedInv
    <3>3. QED
      BY <1>1, <3>2
  <2>3. CASE Awaited(g)
    <3>1. g \in Generations
      BY <2>3, HeldRequest DEF Awaited, Current, HolderInv, UnderWayNow
    <3>2. QED
      BY <1>1, <1>2, <2>3, <3>1
  <2>4. QED
    BY <2>1, <2>2, <2>3, NextClaims
<1>5. ASSUME NEW g \in Generations', verdicts'[g] = <<"succeeded">>
      PROVE  Reached(g)'
  <2>1. /\ g \in Generations
        /\ verdicts[g] = <<"succeeded">> \/ \E t \in Threads : Claims(t, g)
    BY <1>5, NextVerdicts
  <2>2. Reached(g)
    BY <2>1 DEF EarnedInv, Claims
  <2>3. QED
    BY <1>1, <2>2
<1>6. QED
  BY <1>3, <1>4, <1>5 DEF EarnedInv

\* The app is told "succeeded" only for a request Nav2 carried out: the goal
\* was sent for that very request, to the target the user asked for.
THEOREM Earned == Spec => []SuccessIsEarned
<1>1. Init => TypeInv /\ HolderInv /\ EarnedInv
  BY InitTypes, InitHolds, InitEarned
<1>2. TypeInv /\ HolderInv /\ EarnedInv /\ [Next]_vars
        => TypeInv' /\ HolderInv' /\ EarnedInv'
  BY NextKeepsHolder, NextKeepsEarned
<1>3. TypeInv /\ HolderInv /\ EarnedInv => SuccessIsEarned
  <2> SUFFICES ASSUME TypeInv, HolderInv, EarnedInv, NEW g \in Generations,
                      verdicts[g] = <<"succeeded">>
               PROVE  \E i \in GoalsOf(g) : /\ goals[i].server = "succeeded"
                                            /\ goals[i].told = "result"
                                            /\ goals[i].target = requested[g]
    BY DEF SuccessIsEarned
  <2>1. PICK i \in DOMAIN goals : /\ goals[i].generation = g
                                  /\ goals[i].server = "succeeded"
                                  /\ goals[i].told = "result"
    BY DEF EarnedInv, Reached
  <2>2. goals[i].target = requested[g] /\ i \in GoalsOf(g)
    BY <2>1 DEF HolderInv, AimedRight, GoalsOf
  <2>3. QED
    BY <2>1, <2>2
<1>4. QED
  BY <1>1, <1>2, <1>3, PTL DEF Spec

-----------------------------------------------------------------------------
(* Retries are bounded *)

LEMMA GoalsOfFinite ==
  ASSUME TypeInv, NEW g
  PROVE  IsFiniteSet(GoalsOf(g)) /\ Cardinality(GoalsOf(g)) \in Nat
<1>1. IsFiniteSet(DOMAIN goals)
  BY GoalFacts, FS_Interval DEF TypeInv
<1>2. GoalsOf(g) \subseteq DOMAIN goals
  BY DEF GoalsOf
<1>3. QED
  BY <1>1, <1>2, FS_Subset, FS_CardinalityType

LEMMA SameGoalsOf ==
  ASSUME GoalsProgress, DOMAIN goals' = DOMAIN goals, NEW g
  PROVE  GoalsOf(g)' = GoalsOf(g)
BY DEF GoalsProgress, GoalsOf

\* Every step but SendGoal leaves the goals that were sent.
LEMMA GoalsSent ==
  ASSUME TypeInv, [Next]_vars, \A t \in Threads : ~SendGoal(t)
  PROVE  DOMAIN goals' = DOMAIN goals
<1>1. CASE UNCHANGED goals
  BY <1>1
<1>2. ASSUME NEW t \in Threads, Proceed(t), ~UNCHANGED goals
      PROVE  DOMAIN goals' = DOMAIN goals
  <2>1. CancelGoal(t)
    BY <1>2 DEF Proceed, WaitServer, ServerUnavailable, ReadTarget,
                FailureReport, Broadcast
  <2>2. /\ job[t].handle \in DOMAIN goals
        /\ goals' = [goals EXCEPT ![job[t].handle].cancel = TRUE]
    BY <2>1 DEF CancelGoal, At, TypeInv, JobsRefer
  <2>3. QED
    BY <2>2
<1>3. ASSUME NEW i \in DOMAIN goals,
             \/ on_goal_response(i) \/ on_goal_result(i)
             \/ Nav2Accepts(i) \/ Nav2Rejects(i)
             \/ \E how \in Ends : Nav2Ends(i, how)
      PROVE  DOMAIN goals' = DOMAIN goals
  BY <1>3 DEF on_goal_response, on_goal_result, Told, Nav2Accepts,
              Nav2Rejects, Nav2Ends
<1>4. ASSUME \/ AppSilent \/ UNCHANGED vars \/ CancelRequested \/ Tick
             \/ on_localization_abort \/ check_validation_timeout
             \/ \E t \in Targets : Navigate(t)
             \/ \E age \in 0..MaxPoseDelay, within \in BOOLEAN :
                  on_lcode_pose(age, within)
      PROVE  UNCHANGED goals
  BY <1>4 DEF AppSilent, vars, CancelRequested, Tick, on_localization_abort,
              check_validation_timeout, Navigate, on_lcode_pose
<1>5. QED
  BY <1>1, <1>2, <1>3, <1>4 DEF Next

LEMMA RetryFacts ==
  ASSUME TypeInv, RetryInv, NEW g \in Generations
  PROVE  /\ Cardinality(GoalsOf(g)) <= 1 + MaxRetries
         /\ Current(g) => Cardinality(GoalsOf(g)) <= 1 + retries_completed
         /\ Current(g) /\ (\E t \in Threads : Sending(t)) =>
              Cardinality(GoalsOf(g)) <= retries_completed
BY DEF RetryInv

\* No goal is sent, and no thread sets out to send one.
LEMMA RetryStays ==
  ASSUME TypeInv, RetryInv, UNCHANGED <<nav_generation, retries_completed>>,
         \A g \in Generations : GoalsOf(g)' = GoalsOf(g),
         \A u \in Threads : Sending(u)' => Sending(u)
  PROVE  RetryInv'
<1>1. Generations' = Generations
  BY DEF Generations
<1>2. ASSUME NEW g \in Generations
      PROVE  /\ Cardinality(GoalsOf(g))' <= 1 + MaxRetries
             /\ Current(g)' => Cardinality(GoalsOf(g))' <= 1 + retries_completed
             /\ Current(g)' /\ (\E t \in Threads : Sending(t)') =>
                  Cardinality(GoalsOf(g))' <= retries_completed
  <2>1. Cardinality(GoalsOf(g))' = Cardinality(GoalsOf(g))
        /\ (Current(g)' <=> Current(g))
    BY DEF Current
  <2>2. QED
    BY <2>1, RetryFacts
<1>3. retries_completed' <= MaxRetries
  BY DEF RetryInv
<1>4. QED
  BY <1>1, <1>2, <1>3 DEF RetryInv

\* A new generation has no goal yet, and none has been retried for it.
LEMMA RetryRenewed ==
  ASSUME TypeInv, RetryInv, TypeInv', UNCHANGED goals,
         nav_generation' = nav_generation + 1,
         retries_completed' \in {0, retries_completed}
  PROVE  RetryInv'
<1>1. /\ nav_generation \in Nat /\ retries_completed \in Nat
      /\ MaxRetries \in Nat
      /\ Generations = 1..nav_generation /\ Generations' = 1..nav_generation + 1
  BY BridgeAssumption DEF TypeInv, TypeOK, Generations
<1>2. retries_completed' \in Nat /\ retries_completed' <= MaxRetries
  BY <1>1 DEF RetryInv
<1>3. ASSUME NEW g \in Generations'
      PROVE  /\ Cardinality(GoalsOf(g))' <= 1 + MaxRetries
             /\ Current(g)' => Cardinality(GoalsOf(g))' <= retries_completed'
  <2>1. GoalsOf(g)' = GoalsOf(g)
    BY DEF GoalsOf
  <2>2. CASE g \in Generations
    <3>1. ~Current(g)'
      BY <1>1, <2>2 DEF Current
    <3>2. QED
      BY <2>1, <2>2, <3>1, RetryFacts
  <2>3. CASE g = nav_generation + 1
    <3>1. GoalsOf(g) = {}
      BY <1>1, <2>3 DEF GoalsOf, TypeInv, GoalsRefer
    <3>2. Cardinality(GoalsOf(g))' = 0
      BY <2>1, <3>1, FS_EmptySet
    <3>3. QED
      BY <1>1, <1>2, <3>2
  <2>4. QED
    BY <1>1, <2>2, <2>3
<1>4. ASSUME NEW g \in Generations'
      PROVE  Cardinality(GoalsOf(g))' \in Nat
  <2>1. Len(goals') \in Nat /\ DOMAIN goals' = 1..Len(goals')
    BY SeqFacts DEF TypeInv, TypeOK
  <2>2. IsFiniteSet(DOMAIN goals') /\ GoalsOf(g)' \subseteq DOMAIN goals'
    BY <2>1, FS_Interval DEF GoalsOf
  <2>3. QED
    BY <2>2, FS_Subset, FS_CardinalityType
<1>5. QED
  BY <1>2, <1>3, <1>4 DEF RetryInv

LEMMA OneJobSends ==
  ASSUME TypeInv, NEW t \in Threads, NEW next \in Job, Continue(t, next),
         UNCHANGED nav_generation,
         next.step \in Dispatching /\ Current(next.generation) => Sending(t)
  PROVE  \A u \in Threads : Sending(u)' => Sending(u)
<1>1. job'[t] = next /\ \A u \in Threads : u # t => job'[u] = job[u]
  BY ContinueFacts DEF TypeInv
<1>2. QED
  BY <1>1 DEF Sending, Current

LEMMA SameJobSends ==
  ASSUME UNCHANGED <<job, nav_generation>>
  PROVE  \A u \in Threads : Sending(u)' => Sending(u)
BY DEF Sending, Current

LEMMA ProceedSends ==
  ASSUME TypeInv, NEW t \in Threads, Proceed(t)
  PROVE  \A u \in Threads : Sending(u)' => Sending(u)
<1> DEFINE h == job[t].generation
<1>1. /\ job[t] \in Job /\ h \in Nat /\ job[t].message \in Statuses \cup {NoMessage}
  BY JobFacts
<1>2. Idle \in Job /\ Idle.step = "idle"
  BY IdleFacts
<1>3. \A s \in Statuses : Say(h, s) \in Job /\ Say(h, s).step = "broadcast"
  BY <1>1, SayFacts
<1>4. UNCHANGED nav_generation
  BY DEF Proceed, WaitServer, ServerUnavailable, ReadTarget, SendGoal,
         CancelGoal, FailureReport, Broadcast, navVars
<1> HIDE DEF h
<1>5. CASE WaitServer(t) \/ ReadTarget(t)
  <2>1. PICK s \in {"read_target", "report_failure", "unavailable", "send_goal"} :
          \/ Continue(t, [job[t] EXCEPT !.step = s])
          \/ Continue(t, Idle)
    BY <1>5 DEF WaitServer, WhenUnavailable, ReadTarget
  <2> DEFINE next == [job[t] EXCEPT !.step = s]
  <2>2. next \in Job /\ next.generation = h
    <3>1. s \in Steps
      BY DEF Steps
    <3>2. QED
      BY <1>1, <3>1, StepFacts DEF h
  <2>3. Continue(t, next) \/ Continue(t, Idle)
    BY <2>1
  <2>4. Current(h) => Sending(t)
    BY <1>5 DEF WaitServer, ReadTarget, At, Sending, Dispatching, h
  <2> HIDE DEF next
  <2>5. QED
    BY <1>2, <1>4, <2>2, <2>3, <2>4, OneJobSends DEF Dispatching
<1>6. CASE \/ ServerUnavailable(t) \/ SendGoal(t) \/ FailureReport(t)
           \/ CancelGoal(t) \/ Broadcast(t)
  <2>1. Continue(t, Idle) \/ \E s \in Statuses : Continue(t, Say(h, s))
    <3>1. CASE CancelGoal(t)
      BY <1>1, <3>1 DEF CancelGoal, h
    <3>2. CASE \/ ServerUnavailable(t) \/ SendGoal(t) \/ FailureReport(t)
               \/ Broadcast(t)
      BY <3>2 DEF ServerUnavailable, SendGoal, FailureReport, Broadcast, h,
                  Statuses
    <3>3. QED
      BY <1>6, <3>1, <3>2
  <2>2. QED
    BY <1>2, <1>3, <1>4, <2>1, OneJobSends DEF Dispatching
<1>7. QED
  BY <1>5, <1>6 DEF Proceed

\* The goal sent uses up what was set aside for it.
LEMMA SendRetries ==
  ASSUME TypeInv, HolderInv, RetryInv, NEW t \in Threads, SendGoal(t),
         Current(job[t].generation)
  PROVE  RetryInv'
<1> PICK n \in Nat : n = Len(goals) + 1
  BY GoalFacts DEF TypeInv
<1> DEFINE goal == [generation |-> job[t].generation, target |-> target,
                    is_retry |-> job[t].is_retry, server |-> "requested",
                    told |-> "nothing", cancel |-> FALSE]
<1>1. /\ goals' = Append(goals, goal) /\ Continue(t, Idle)
      /\ UNCHANGED <<nav_generation, retries_completed>>
  BY DEF SendGoal
<1>2. goal \in Goal /\ goal.generation = nav_generation
  BY JobFacts, TypeParts DEF NavTypeOK, Goal, Ends, Current
<1> HIDE DEF goal
<1>3. /\ DOMAIN goals' = DOMAIN goals \cup {n} /\ n \notin DOMAIN goals
      /\ goals'[n] = goal /\ \A i \in DOMAIN goals : goals'[i] = goals[i]
  BY <1>1, <1>2, SendFacts DEF TypeInv
<1>4. Sending(t) /\ Working(t)
  BY DEF SendGoal, At, Sending, Working, Dispatching
<1>5. \A u \in Threads : ~Sending(u)'
  <2>1. \A u \in Threads : u # t => ~Working(u)
    BY <1>4 DEF HolderInv, OneHolder
  <2>2. \A u \in Threads : u # t => ~Sending(u)
    BY <2>1 DEF Sending, Working
  <2>3. job'[t] = Idle /\ \A u \in Threads : u # t => job'[u] = job[u]
    BY <1>1, IdleFacts, ContinueFacts DEF TypeInv
  <2>4. QED
    BY <1>1, <2>2, <2>3, IdleFacts DEF Sending, Current, Dispatching
<1>6. /\ Generations' = Generations /\ retries_completed \in Nat
      /\ MaxRetries \in Nat /\ retries_completed <= MaxRetries
  BY <1>1, BridgeAssumption DEF Generations, TypeInv, TypeOK, RetryInv
<1>7. ASSUME NEW g \in Generations
      PROVE  /\ Cardinality(GoalsOf(g))' <= 1 + MaxRetries
             /\ Current(g)' => Cardinality(GoalsOf(g))' <= 1 + retries_completed
  <2>1. CASE Current(g)
    <3>1. GoalsOf(g)' = GoalsOf(g) \cup {n} /\ n \notin GoalsOf(g)
      BY <1>2, <1>3, <2>1 DEF GoalsOf, Current
    <3>2. Cardinality(GoalsOf(g))' = Cardinality(GoalsOf(g)) + 1
      BY <3>1, GoalsOfFinite, FS_AddElement
    <3>3. Cardinality(GoalsOf(g)) <= retries_completed
      BY <1>4, <2>1, RetryFacts
    <3>4. QED
      BY <1>6, <3>2, <3>3, GoalsOfFinite
  <2>2. CASE ~Current(g)
    <3>1. GoalsOf(g)' = GoalsOf(g) /\ ~Current(g)'
      BY <1>1, <1>2, <1>3, <2>2 DEF GoalsOf, Current
    <3>2. QED
      BY <3>1, RetryFacts
  <2>3. QED
    BY <2>1, <2>2
<1>8. QED
  BY <1>1, <1>5, <1>6, <1>7 DEF RetryInv

\* A retry is counted before it is sent.
LEMMA PoseRetries ==
  ASSUME TypeInv, HolderInv, RetryInv, NEW age, NEW within \in BOOLEAN,
         on_lcode_pose(age, within)
  PROVE  RetryInv'
<1>1. UNCHANGED <<nav_generation, goals>>
  BY DEF on_lcode_pose
<1>2. Generations' = Generations /\ \A g \in Generations : GoalsOf(g)' = GoalsOf(g)
  BY <1>1 DEF Generations, GoalsOf
<1>3. PICK next \in Job :
        /\ Continue("exec", next) /\ next.generation = nav_generation
        /\ \/ /\ next.step \notin Dispatching
              /\ retries_completed' = retries_completed
           \/ /\ retries_completed < MaxRetries
              /\ retries_completed' = retries_completed + 1
  BY PoseJob DEF Dispatching
<1>4. CASE next.step \notin Dispatching /\ UNCHANGED retries_completed
  <2>1. \A u \in Threads : Sending(u)' => Sending(u)
    BY <1>1, <1>3, <1>4, OneJobSends DEF Threads
  <2>2. QED
    BY <1>1, <1>2, <1>4, <2>1, RetryStays
<1>5. CASE retries_completed < MaxRetries
           /\ retries_completed' = retries_completed + 1
  <2>1. retries_completed \in Nat /\ MaxRetries \in Nat
    BY BridgeAssumption DEF TypeInv, TypeOK
  <2>2. ASSUME NEW g \in Generations
        PROVE  /\ Cardinality(GoalsOf(g))' <= 1 + MaxRetries
               /\ Cardinality(GoalsOf(g))' \in Nat
               /\ Current(g)' => Cardinality(GoalsOf(g))' <= retries_completed'
    <3>1. Cardinality(GoalsOf(g))' = Cardinality(GoalsOf(g))
          /\ (Current(g)' <=> Current(g))
      BY <1>1, <1>2 DEF Current
    <3>2. Cardinality(GoalsOf(g)) \in Nat
      BY GoalsOfFinite
    <3>3. /\ Cardinality(GoalsOf(g)) <= 1 + MaxRetries
          /\ Current(g) => Cardinality(GoalsOf(g)) <= 1 + retries_completed
      BY RetryFacts
    <3>4. QED
      BY <1>5, <2>1, <3>1, <3>2, <3>3
  <2>3. QED
    BY <1>2, <1>5, <2>1, <2>2 DEF RetryInv
<1>6. QED
  BY <1>3, <1>4, <1>5

LEMMA InitRetries == Init => RetryInv
BY BridgeAssumption DEF Init, RetryInv, Generations

\* Steps that neither send a goal nor set out to.
LEMMA OtherSteps ==
  ASSUME TypeInv, [Next]_vars,
         ~\E t \in Targets : Navigate(t), ~CancelRequested,
         ~on_localization_abort, ~\E t \in Threads : Proceed(t),
         ~\E age \in 0..MaxPoseDelay, within \in BOOLEAN :
            on_lcode_pose(age, within)
  PROVE  /\ UNCHANGED <<nav_generation, retries_completed>>
         /\ \A u \in Threads : Sending(u)' => Sending(u)
<1>1. ASSUME NEW i \in DOMAIN goals, on_goal_response(i)
      PROVE  /\ UNCHANGED <<nav_generation, retries_completed>>
             /\ \A u \in Threads : Sending(u)' => Sending(u)
  <2>1. UNCHANGED <<nav_generation, retries_completed>>
    BY <1>1 DEF on_goal_response, StaleResponse, GoalAccepted, GoalRejected,
                navVars
  <2>2. PICK next \in Job :
          Continue("exec", next) /\ next.step \notin Dispatching
    BY <1>1, ResponseJob DEF Dispatching
  <2>3. QED
    BY <2>1, <2>2, OneJobSends DEF Threads
<1>2. ASSUME NEW i \in DOMAIN goals, on_goal_result(i)
      PROVE  /\ UNCHANGED <<nav_generation, retries_completed>>
             /\ \A u \in Threads : Sending(u)' => Sending(u)
  <2>1. UNCHANGED <<nav_generation, retries_completed>>
    BY <1>2 DEF on_goal_result, StaleResult, Arrival, NavigationFailed, navVars
  <2>2. CASE UNCHANGED job
    BY <2>1, <2>2, SameJobSends
  <2>3. CASE NavigationFailed(i)
    <3> DEFINE next == Say(goals[i].generation, goals[i].server)
    <3>1. /\ goals[i].generation \in Nat /\ goals[i].server \in Statuses
          /\ Continue("exec", next)
      BY <1>2, <2>3, GoalFacts
      DEF on_goal_result, ResultReady, NavigationFailed, TypeInv, Goal, Ends,
          Statuses
    <3>2. next \in Job /\ next.step = "broadcast"
      BY <3>1, SayFacts
    <3> HIDE DEF next
    <3>3. QED
      BY <2>1, <3>1, <3>2, OneJobSends DEF Threads, Dispatching
  <2>4. QED
    BY <1>2, <2>2, <2>3 DEF on_goal_result, StaleResult, Arrival
<1>3. ASSUME \/ AppSilent \/ UNCHANGED vars \/ Tick
             \/ \E i \in DOMAIN goals :
                  \/ Nav2Accepts(i) \/ Nav2Rejects(i)
                  \/ \E how \in Ends : Nav2Ends(i, how)
      PROVE  UNCHANGED <<nav_generation, retries_completed, job>>
  BY <1>3 DEF AppSilent, vars, navVars, Tick, Nav2Accepts, Nav2Rejects, Nav2Ends
<1>4. CASE check_validation_timeout
  <2> DEFINE next == ReportFailure(nav_generation)
  <2>1. /\ Continue("exec", next)
        /\ UNCHANGED <<nav_generation, retries_completed>>
    BY <1>4 DEF check_validation_timeout
  <2>2. next \in Job /\ next.step = "report_failure"
    BY ReportFacts DEF TypeInv, TypeOK
  <2> HIDE DEF next
  <2>3. QED
    BY <2>1, <2>2, OneJobSends DEF Threads, Dispatching
<1>5. QED
  BY <1>1, <1>2, <1>3, <1>4, SameJobSends DEF Next

LEMMA NextKeepsRetries ==
  TypeInv /\ HolderInv /\ RetryInv /\ TypeInv' /\ [Next]_vars => RetryInv'
<1> SUFFICES ASSUME TypeInv, HolderInv, RetryInv, TypeInv', [Next]_vars
             PROVE  RetryInv'
  OBVIOUS
<1>1. CASE \/ \E t \in Targets : Navigate(t)
           \/ CancelRequested \/ on_localization_abort
  BY <1>1, RetryRenewed
  DEF Navigate, CancelRequested, on_localization_abort, Invalidate,
      NextGeneration
<1>2. ASSUME NEW age \in 0..MaxPoseDelay, NEW within \in BOOLEAN,
             on_lcode_pose(age, within)
      PROVE  RetryInv'
  BY <1>2, PoseRetries
<1>3. ASSUME NEW t \in Threads, SendGoal(t), Current(job[t].generation)
      PROVE  RetryInv'
  BY <1>3, SendRetries
<1>4. ASSUME NEW t \in Threads, Proceed(t),
             ~(SendGoal(t) /\ Current(job[t].generation))
      PROVE  RetryInv'
  <2>1. UNCHANGED <<nav_generation, retries_completed>>
        /\ \A u \in Threads : Sending(u)' => Sending(u)
    BY <1>4, ProceedSends
    DEF Proceed, WaitServer, ServerUnavailable, ReadTarget, SendGoal,
        CancelGoal, FailureReport, Broadcast, navVars
  <2>2. DOMAIN goals' = DOMAIN goals
    BY <1>4, CancelFacts
    DEF Proceed, WaitServer, ServerUnavailable, ReadTarget, SendGoal,
        CancelGoal, FailureReport, Broadcast
  <2>3. QED
    BY <2>1, <2>2, NextProgress, SameGoalsOf, RetryStays
<1>5. CASE /\ ~\E t \in Targets : Navigate(t)
           /\ ~CancelRequested /\ ~on_localization_abort
           /\ ~\E t \in Threads : Proceed(t)
           /\ ~\E age \in 0..MaxPoseDelay, within \in BOOLEAN :
                 on_lcode_pose(age, within)
  <2>1. DOMAIN goals' = DOMAIN goals
    BY <1>5, GoalsSent DEF Proceed
  <2>2. QED
    BY <1>5, <2>1, OtherSteps, NextProgress, SameGoalsOf, RetryStays
<1>6. QED
  BY <1>1, <1>2, <1>3, <1>4, <1>5

\* No request leads to more than its first goal and MaxRetries retries.
THEOREM RetryBound == Spec => []RetriesBounded
<1>1. Init => TypeInv /\ HolderInv /\ RetryInv
  BY InitTypes, InitHolds, InitRetries
<1>2. TypeInv /\ HolderInv /\ RetryInv /\ [Next]_vars
        => TypeInv' /\ HolderInv' /\ RetryInv'
  BY NextKeepsHolder, NextKeepsRetries
<1>3. RetryInv => RetriesBounded
  BY DEF RetryInv, RetriesBounded
<1>4. QED
  BY <1>1, <1>2, <1>3, PTL DEF Spec

-----------------------------------------------------------------------------
(* Nothing runs untracked *)

Waiting == {"requested", "rejected"}

LEMMA ProceedServers ==
  ASSUME TypeInv, NEW t \in Threads, Proceed(t)
  PROVE  /\ \A j \in DOMAIN goals : /\ goals'[j].server = goals[j].server
                                    /\ goals'[j].told = goals[j].told
         /\ \A j \in DOMAIN goals' \ DOMAIN goals :
              goals'[j].server = "requested" /\ goals'[j].told = "nothing"
<1>1. CASE SendGoal(t) /\ Current(job[t].generation)
  <2> DEFINE goal == [generation |-> job[t].generation, target |-> target,
                      is_retry |-> job[t].is_retry, server |-> "requested",
                      told |-> "nothing", cancel |-> FALSE]
  <2>1. goals' = Append(goals, goal)
    BY <1>1 DEF SendGoal
  <2>2. /\ goal \in Goal /\ goal.server = "requested"
        /\ goal.told = "nothing"
    BY JobFacts, TypeParts DEF NavTypeOK, Goal, Ends
  <2> HIDE DEF goal
  <2>3. QED
    BY <2>1, <2>2, SendFacts DEF TypeInv
<1>2. CASE CancelGoal(t)
  <2>1. /\ job[t].handle \in DOMAIN goals
        /\ goals' = [goals EXCEPT ![job[t].handle].cancel = TRUE]
    BY <1>2 DEF CancelGoal, At, TypeInv, JobsRefer
  <2>2. QED
    BY <2>1, CancelFacts DEF TypeInv, KeepsGoals
<1>3. CASE UNCHANGED goals
  BY <1>3
<1>4. QED
  BY <1>1, <1>2, <1>3
  DEF Proceed, WaitServer, ServerUnavailable, ReadTarget, SendGoal,
      FailureReport, Broadcast

\* Nav2 starts a goal when it accepts it, and the bridge hears of it in the
\* response.
LEMMA NextServers ==
  ASSUME TypeInv, [Next]_vars
  PROVE  /\ \A j \in DOMAIN goals :
              /\ goals'[j].server = "running" =>
                   goals[j].server = "running" \/ Nav2Accepts(j)
              /\ goals[j].server \in Waiting =>
                   goals'[j].server \in Waiting \/ Nav2Accepts(j)
              /\ goals'[j].told = "response" =>
                   goals[j].told = "response" \/ on_goal_response(j)
         /\ \A j \in DOMAIN goals' \ DOMAIN goals :
              goals'[j].server = "requested" /\ goals'[j].told = "nothing"
<1>1. CASE UNCHANGED goals
  BY <1>1
<1>2. ASSUME NEW t \in Threads, Proceed(t)
      PROVE  /\ \A j \in DOMAIN goals : /\ goals'[j].server = goals[j].server
                                        /\ goals'[j].told = goals[j].told
             /\ \A j \in DOMAIN goals' \ DOMAIN goals :
                  goals'[j].server = "requested" /\ goals'[j].told = "nothing"
  BY <1>2, ProceedServers
<1>3. ASSUME NEW i \in DOMAIN goals, on_goal_response(i) \/ on_goal_result(i)
      PROVE  /\ DOMAIN goals' = DOMAIN goals
             /\ \A j \in DOMAIN goals :
                  /\ goals'[j].server = goals[j].server
                  /\ goals'[j].told = "response" =>
                       goals[j].told = "response" \/ on_goal_response(j)
  <2>1. CASE on_goal_response(i)
    BY <2>1, ToldFacts DEF on_goal_response, TypeInv, KeepsGoals
  <2>2. CASE on_goal_result(i)
    BY <2>2, ToldFacts DEF on_goal_result, TypeInv, KeepsGoals
  <2>3. QED
    BY <1>3, <2>1, <2>2
<1>4. ASSUME NEW i \in DOMAIN goals,
             \/ Nav2Accepts(i)
             \/ Nav2Rejects(i)
             \/ \E how \in Ends : Nav2Ends(i, how)
      PROVE  /\ DOMAIN goals' = DOMAIN goals
             /\ \A j \in DOMAIN goals :
                  /\ goals'[j].server = "running" =>
                       goals[j].server = "running" \/ Nav2Accepts(j)
                  /\ goals[j].server \in Waiting =>
                       goals'[j].server \in Waiting \/ Nav2Accepts(j)
                  /\ goals'[j].told = goals[j].told
  <2>1. CASE Nav2Accepts(i)
    BY <2>1, AcceptFacts DEF TypeInv, KeepsGoals, Waiting
  <2>2. CASE Nav2Rejects(i)
    BY <2>2, ServerFacts DEF Nav2Rejects, TypeInv, KeepsGoals, Waiting
  <2>3. ASSUME NEW how \in Ends, Nav2Ends(i, how)
        PROVE  /\ KeepsGoals
               /\ \A j \in DOMAIN goals :
                    /\ goals'[j].server = "running" => goals[j].server = "running"
                    /\ goals[j].server \in Waiting => goals'[j].server \in Waiting
                    /\ goals'[j].told = goals[j].told
    <3>1. /\ goals[i].server = "running" /\ how # "running"
          /\ goals' = [goals EXCEPT ![i].server = how]
      BY <2>3 DEF Nav2Ends, Ends
    <3>2. QED
      BY <3>1, ServerFacts DEF TypeInv, Waiting
  <2>4. QED
    BY <1>4, <2>1, <2>2, <2>3 DEF KeepsGoals
<1>5. ASSUME \/ AppSilent \/ UNCHANGED vars \/ CancelRequested \/ Tick
             \/ on_localization_abort \/ check_validation_timeout
             \/ \E t \in Targets : Navigate(t)
             \/ \E age \in 0..MaxPoseDelay, within \in BOOLEAN :
                  on_lcode_pose(age, within)
      PROVE  UNCHANGED goals
  BY <1>5 DEF AppSilent, vars, CancelRequested, Tick, on_localization_abort,
              check_validation_timeout, Navigate, on_lcode_pose
<1>6. QED
  BY <1>1, <1>2, <1>3, <1>4, <1>5 DEF Next

\* A step grows the history, and rewrites none of it.
LEMMA NextHistory ==
  ASSUME TypeInv, [Next]_vars
  PROVE  /\ nav_generation' \in {nav_generation, nav_generation + 1}
         /\ \A g \in Generations : requested'[g] = requested[g]
<1>1. CASE UNCHANGED <<nav_generation, requested>>
  BY <1>1
<1>2. ASSUME NEW what \in Targets \cup {"cancel", "abort"}, NextGeneration(what)
      PROVE  /\ nav_generation' \in {nav_generation, nav_generation + 1}
             /\ \A g \in Generations : requested'[g] = requested[g]
  BY <1>2, NextGenerationFacts DEF TypeInv
<1>3. ASSUME NEW t \in Threads, Proceed(t)
      PROVE  UNCHANGED <<nav_generation, requested>>
  BY <1>3 DEF Proceed, WaitServer, ServerUnavailable, ReadTarget, SendGoal,
              CancelGoal, FailureReport, Broadcast, navVars, historyVars
<1>4. ASSUME NEW i \in DOMAIN goals,
             \/ on_goal_response(i) \/ on_goal_result(i)
             \/ Nav2Accepts(i) \/ Nav2Rejects(i)
             \/ \E how \in Ends : Nav2Ends(i, how)
      PROVE  UNCHANGED <<nav_generation, requested>>
  <2>1. CASE on_goal_response(i)
    BY <2>1 DEF on_goal_response, StaleResponse, GoalAccepted, GoalRejected,
                navVars, historyVars
  <2>2. CASE on_goal_result(i)
    BY <2>2 DEF on_goal_result, StaleResult, Arrival, NavigationFailed,
                navVars, historyVars
  <2>3. QED
    BY <1>4, <2>1, <2>2
    DEF Nav2Accepts, Nav2Rejects, Nav2Ends, navVars, historyVars
<1>5. ASSUME \/ AppSilent \/ UNCHANGED vars \/ Tick \/ check_validation_timeout
             \/ \E age \in 0..MaxPoseDelay, within \in BOOLEAN :
                  on_lcode_pose(age, within)
      PROVE  UNCHANGED <<nav_generation, requested>>
  BY <1>5 DEF AppSilent, vars, Tick, check_validation_timeout, on_lcode_pose,
              navVars, historyVars
<1>6. ASSUME \/ CancelRequested \/ on_localization_abort
             \/ \E t \in Targets : Navigate(t)
      PROVE  \E what \in Targets \cup {"cancel", "abort"} : NextGeneration(what)
  BY <1>6 DEF CancelRequested, on_localization_abort, Invalidate, Navigate
<1>7. QED
  BY <1>1, <1>2, <1>3, <1>4, <1>5, <1>6 DEF Next

\* A request stays unserved until Nav2 accepts a goal of it.
LEMMA UnservedStays ==
  ASSUME TypeInv, TypeInv', [Next]_vars,
         \A j \in DOMAIN goals : ~Nav2Accepts(j),
         NEW g \in Nat, Unserved(g)
  PROVE  Unserved(g)'
<1>1. PICK h \in g + 1..nav_generation :
        /\ requested[h] \in Targets
        /\ \A j \in GoalsOf(h) : goals[j].server \in Waiting
  BY DEF Unserved, Waiting
<1>2. nav_generation \in Nat /\ h \in Generations
  BY HistoryFacts DEF TypeInv
<1>3. h \in g + 1..nav_generation' /\ requested'[h] \in Targets
  BY <1>1, <1>2, NextHistory
<1>4. ASSUME NEW j \in GoalsOf(h)' PROVE goals'[j].server \in Waiting
  <2>1. j \in DOMAIN goals' /\ goals'[j].generation = h
    BY DEF GoalsOf
  <2>2. CASE j \in DOMAIN goals
    <3>1. j \in GoalsOf(h)
      BY <2>1, <2>2, NextProgress DEF GoalsProgress, GoalsOf
    <3>2. QED
      BY <1>1, <2>2, <3>1, NextServers
  <2>3. CASE j \notin DOMAIN goals
    BY <2>1, <2>3, NextServers DEF Waiting
  <2>4. QED
    BY <2>2, <2>3
<1>5. QED
  BY <1>3, <1>4 DEF Unserved, Waiting

\* A thread with a goal to cancel does so before anything else.
LEMMA JobGone ==
  ASSUME TypeInv, [Next]_vars, NEW t \in Threads, job[t].step = "cancel"
  PROVE  job'[t] = job[t] \/ CancelGoal(t)
<1>1. ASSUME NEW u \in Threads, NEW next, Continue(u, next),
             job[u].step # "cancel"
      PROVE  job'[t] = job[t]
  BY <1>1 DEF Continue, TypeInv, TypeOK
<1>2. ASSUME NEW u \in Threads, Proceed(u)
      PROVE  job'[t] = job[t] \/ CancelGoal(t)
  <2>1. CASE CancelGoal(u)
    <3>1. CASE u # t
      BY <2>1, <3>1 DEF CancelGoal, Continue, TypeInv, TypeOK
    <3>2. QED
      BY <2>1, <3>1
  <2>2. CASE \/ WaitServer(u) \/ ServerUnavailable(u) \/ ReadTarget(u)
             \/ SendGoal(u) \/ FailureReport(u) \/ Broadcast(u)
    <3>1. job[u].step # "cancel" /\ \E next : Continue(u, next)
      BY <2>2 DEF WaitServer, ServerUnavailable, ReadTarget, SendGoal,
                  FailureReport, Broadcast, At
    <3>2. QED
      BY <1>1, <3>1
  <2>3. QED
    BY <1>2, <2>1, <2>2 DEF Proceed
<1>3. ASSUME \/ \E r \in Targets : Navigate(r)
             \/ CancelRequested
      PROVE  job["io"].step # "cancel" /\ \E next : Continue("io", next)
  BY <1>3 DEF Navigate, CancelRequested, UserSends, Free, At
<1>4. ASSUME ~UNCHANGED job,
             \/ \E i \in DOMAIN goals :
                  \/ on_goal_response(i)
                  \/ on_goal_result(i)
             \/ \E age \in 0..MaxPoseDelay, within \in BOOLEAN :
                  on_lcode_pose(age, within)
             \/ on_localization_abort
             \/ check_validation_timeout
      PROVE  job["exec"].step # "cancel" /\ \E next : Continue("exec", next)
  BY <1>4 DEF on_goal_response, on_goal_result, on_lcode_pose,
              on_localization_abort, check_validation_timeout, Free, At,
              StaleResponse, GoalAccepted, GoalRejected, StaleResult, Arrival,
              NavigationFailed
<1>5. ASSUME \/ AppSilent \/ UNCHANGED vars \/ Tick
             \/ \E i \in DOMAIN goals :
                  \/ Nav2Accepts(i) \/ Nav2Rejects(i)
                  \/ \E how \in Ends : Nav2Ends(i, how)
      PROVE  UNCHANGED job
  BY <1>5 DEF AppSilent, vars, Tick, Nav2Accepts, Nav2Rejects, Nav2Ends
<1>6. "io" \in Threads /\ "exec" \in Threads
  BY DEF Threads
<1>7. QED
  BY <1>1, <1>2, <1>3, <1>4, <1>5, <1>6 DEF Next

LEMMA CancellingStays ==
  ASSUME TypeInv, [Next]_vars, NEW i \in DOMAIN goals, Cancelling(i)
  PROVE  Cancelling(i)' \/ goals'[i].cancel = TRUE
<1>1. PICK t \in Threads : job[t].step = "cancel" /\ job[t].handle = i
  BY DEF Cancelling
<1>2. CASE job'[t] = job[t]
  BY <1>1, <1>2 DEF Cancelling
<1>3. CASE CancelGoal(t)
  <2>1. goals' = [goals EXCEPT ![i].cancel = TRUE]
    BY <1>1, <1>3 DEF CancelGoal
  <2>2. QED
    BY <2>1, CancelFacts DEF TypeInv
<1>4. QED
  BY <1>1, <1>2, <1>3, JobGone

\* The handle is dropped for a new request, with a cancel, or at the end.
LEMMA HandleDropped ==
  ASSUME TypeInv, HolderInv, [Next]_vars, NEW i \in DOMAIN goals,
         i = current_goal_handle
  PROVE  \/ i = current_goal_handle'
         \/ \E r \in Targets : Navigate(r)
         \/ Cancelling(i)'
         \/ goals'[i].told = "result"
<1>1. i # NoGoal /\ nav_generation \in Nat
  BY GoalFacts DEF TypeInv, TypeOK, NoGoal
<1>2. Open(i) /\ goals[i].told = "response"
  BY DEF HolderInv, FlagsTell
<1>3. CASE UNCHANGED current_goal_handle
  BY <1>3
<1>4. ASSUME NEW t \in Threads, Proceed(t)
      PROVE  i = current_goal_handle'
  <2>1. CASE FailureReport(t) /\ ReportsFailure(job[t].generation)
    <3>1. Working(t)
      BY <2>1 DEF FailureReport, ReportsFailure, At, Working
    <3>2. QED
      BY <1>2, <3>1 DEF HolderInv, OneHolder
  <2>2. CASE ~(FailureReport(t) /\ ReportsFailure(job[t].generation))
    BY <1>4, <2>2 DEF Proceed, WaitServer, ServerUnavailable, ReadTarget,
                      SendGoal, CancelGoal, FailureReport, Broadcast, navVars
  <2>3. QED
    BY <2>1, <2>2
<1>5. ASSUME NEW j \in DOMAIN goals, on_goal_response(j)
      PROVE  i = current_goal_handle'
  <2>1. CASE GoalAccepted(j)
    <3>1. Open(j) /\ goals[j].told = "nothing"
      BY <1>5, <2>1, OpenFacts
      DEF on_goal_response, ResponseReady, GoalAccepted, CurrentResponse
    <3>2. QED
      BY <1>2, <3>1 DEF HolderInv, OneHolder
  <2>2. CASE ~GoalAccepted(j)
    BY <1>5, <2>2 DEF on_goal_response, StaleResponse, GoalRejected, navVars
  <2>3. QED
    BY <2>1, <2>2
<1>6. ASSUME NEW j \in DOMAIN goals, on_goal_result(j)
      PROVE  i = current_goal_handle' \/ goals'[i].told = "result"
  <2>1. CASE StaleResult(j)
    BY <2>1 DEF StaleResult, navVars
  <2>2. CASE Current(goals[j].generation)
    <3>1. goals[j].told = "response" /\ goals[j].server \in Ends /\ Told(j, "result")
      BY <1>6 DEF on_goal_result, ResultReady
    <3>2. j = i
      BY <2>2, <3>1 DEF Open, Answered, Accepted, Ends, HolderInv, FlagsTell
    <3>3. QED
      BY <3>1, <3>2, ToldFacts DEF TypeInv
  <2>3. QED
    BY <1>6, <2>1, <2>2
    DEF on_goal_result, Arrival, NavigationFailed, CurrentResult
<1>7. ASSUME CancelRequested \/ on_localization_abort
      PROVE  Cancelling(i)'
  <2> DEFINE asked == CancelThen(i, Say(0, "canceled"))
             aborted == CancelThen(i, Say(nav_generation, "localization_failed"))
  <2>1. Continue("io", asked) \/ Continue("exec", aborted)
    BY <1>7 DEF CancelRequested, on_localization_abort
  <2>2. /\ asked \in Job /\ asked.step = "cancel" /\ asked.handle = i
        /\ aborted \in Job /\ aborted.step = "cancel" /\ aborted.handle = i
    BY <1>1, CancelThenSays DEF Statuses
  <2> HIDE DEF asked, aborted
  <2>3. job'["io"] = asked \/ job'["exec"] = aborted
    BY <2>1, <2>2, ContinueFacts DEF TypeInv, Threads
  <2>4. QED
    BY <2>2, <2>3 DEF Cancelling, Threads
<1>8. ASSUME \/ AppSilent \/ UNCHANGED vars \/ Tick \/ check_validation_timeout
             \/ \E age \in 0..MaxPoseDelay, within \in BOOLEAN :
                  on_lcode_pose(age, within)
             \/ \E j \in DOMAIN goals :
                  \/ Nav2Accepts(j) \/ Nav2Rejects(j)
                  \/ \E how \in Ends : Nav2Ends(j, how)
      PROVE  UNCHANGED current_goal_handle
  BY <1>8 DEF AppSilent, vars, navVars, Tick, check_validation_timeout,
              on_lcode_pose, Nav2Accepts, Nav2Rejects, Nav2Ends
<1>9. QED
  BY <1>3, <1>4, <1>5, <1>6, <1>7, <1>8 DEF Next

\* A new request is unserved: no goal of it has been sent.
LEMMA NavigateUnserved ==
  ASSUME TypeInv, NEW r \in Targets, Navigate(r), NEW g \in Generations
  PROVE  Unserved(g)'
<1>1. /\ nav_generation \in Nat /\ nav_generation' = nav_generation + 1
      /\ requested'[nav_generation + 1] = r /\ Generations = 1..nav_generation
      /\ UNCHANGED goals
  BY NextGenerationFacts, HistoryFacts DEF TypeInv, Navigate
<1> PICK h \in Nat : h = nav_generation + 1
  BY <1>1
<1>2. h \in g + 1..nav_generation' /\ requested'[h] \in Targets
  BY <1>1
<1>3. GoalsOf(h)' = {}
  BY <1>1 DEF GoalsOf, TypeInv, GoalsRefer
<1>4. QED
  BY <1>2, <1>3 DEF Unserved

\* An answer that Nav2 runs the goal: the bridge takes it, or has it canceled.
LEMMA ResponseTracks ==
  ASSUME TypeInv, NEW i \in DOMAIN goals, on_goal_response(i),
         goals'[i].server = "running"
  PROVE  Cancelling(i)' \/ i = current_goal_handle'
<1>1. Accepted(i)
  <2>1. goals'[i].server = goals[i].server
    BY ToldFacts DEF on_goal_response, TypeInv
  <2>2. QED
    BY <2>1 DEF Accepted
<1>2. CASE CurrentResponse(i)
  BY <1>1, <1>2 DEF on_goal_response, StaleResponse, GoalAccepted, GoalRejected
<1>3. CASE ~CurrentResponse(i)
  <2>1. PICK next \in Job : /\ Continue("exec", next)
                            /\ next.step = "cancel" /\ next.handle = i
    BY <1>1, <1>3, ResponseJob
  <2>2. job'["exec"] = next
    BY <2>1, ContinueFacts DEF TypeInv, Threads
  <2>3. QED
    BY <2>1, <2>2 DEF Cancelling, Threads
<1>4. QED
  BY <1>2, <1>3

LEMMA InitTracked == Init => TrackedInv
BY DEF Init, TrackedInv

LEMMA NextKeepsTracked ==
  TypeInv /\ HolderInv /\ TrackedInv /\ TypeInv' /\ [Next]_vars => TrackedInv'
<1> SUFFICES ASSUME TypeInv, HolderInv, TrackedInv, TypeInv', [Next]_vars,
                    NEW i \in DOMAIN goals', UnderWay(i)'
             PROVE  Tracked(i)'
  BY DEF TrackedInv
<1>1. goals'[i].server = "running" /\ goals'[i].told = "response"
  BY DEF UnderWay
<1>2. /\ i \in DOMAIN goals /\ GoalsProgress
      /\ goals'[i].generation = goals[i].generation
      /\ goals[i].generation \in Generations
      /\ goals[i].generation \in Nat
  BY <1>1, NextServers, NextProgress, HistoryFacts
  DEF GoalsProgress, TypeInv, GoalsRefer
<1>3. CASE goals[i].told # "response"
  <2>1. on_goal_response(i)
    BY <1>1, <1>2, <1>3, NextServers
  <2>2. QED
    BY <1>1, <1>2, <2>1, ResponseTracks DEF Tracked
<1>4. CASE goals[i].told = "response"
  <2>1. ASSUME NEW j \in DOMAIN goals, Nav2Accepts(j) PROVE FALSE
    <3>1. j # i
      BY <1>4, <2>1 DEF Nav2Accepts, TypeInv, GoalsRefer
    <3>2. goals'[i].server = "running" => goals[i].server = "running"
      BY <1>2, <2>1, <3>1, AcceptFacts DEF TypeInv
    <3>3. QED
      BY <1>1, <1>2, <2>1, <3>1, <3>2, AcceptFacts DEF TypeInv
  <2>2. UnderWay(i)
    BY <1>1, <1>2, <1>4, <2>1, NextServers DEF UnderWay
  <2>3. Tracked(i)
    BY <1>2, <2>2 DEF TrackedInv
  <2>4. CASE i = current_goal_handle
    <3>1. CASE \E r \in Targets : Navigate(r)
      BY <1>2, <3>1, NavigateUnserved DEF Tracked
    <3>2. QED
      BY <1>1, <1>2, <2>4, <3>1, HandleDropped DEF Tracked
  <2>5. CASE goals[i].cancel
    BY <1>2, <2>5 DEF GoalsProgress, Tracked
  <2>6. CASE Cancelling(i)
    BY <1>2, <2>6, CancellingStays DEF Tracked
  <2>7. CASE Unserved(goals[i].generation)
    <3> DEFINE g == goals[i].generation
    <3>1. Unserved(g)'
      BY <1>2, <2>1, <2>7, UnservedStays
    <3>2. QED
      BY <1>2, <3>1 DEF Tracked
  <2>8. QED
    BY <2>3, <2>4, <2>5, <2>6, <2>7 DEF Tracked
<1>5. QED
  BY <1>3, <1>4

\* Once nothing is under way between the bridge and Nav2, a goal that runs is
\* held, canceled, or was kept because a later request was refused.
THEOREM Untracked == Spec => []NothingRunsUntracked
<1>1. Init => TypeInv /\ HolderInv /\ TrackedInv
  BY InitTypes, InitHolds, InitTracked
<1>2. TypeInv /\ HolderInv /\ TrackedInv /\ [Next]_vars
        => TypeInv' /\ HolderInv' /\ TrackedInv'
  BY NextKeepsHolder, NextKeepsTracked
<1>3. TypeInv /\ TrackedInv => NothingRunsUntracked
  <2> SUFFICES ASSUME TypeInv, TrackedInv, Settled, NEW i \in DOMAIN goals,
                      goals[i].server = "running"
               PROVE  \/ i = current_goal_handle
                      \/ goals[i].cancel
                      \/ RefusedSince(goals[i].generation)
    BY DEF NothingRunsUntracked
  <2>1. \A j \in DOMAIN goals : Answered(j) \/ UnderWay(j)
    BY DEF Settled
  <2>2. UnderWay(i)
    BY <2>1 DEF Answered, Accepted, TypeInv, GoalsRefer, Ends
  <2>3. ~Cancelling(i)
    BY DEF Settled, Free, At, Cancelling
  <2>4. Unserved(goals[i].generation) => RefusedSince(goals[i].generation)
    <3> SUFFICES ASSUME NEW h \in goals[i].generation + 1..nav_generation,
                        requested[h] \in Targets,
                        \A j \in GoalsOf(h) :
                          goals[j].server \in {"requested", "rejected"}
                 PROVE  \A j \in GoalsOf(h) : ~Accepted(j)
      BY DEF Unserved, RefusedSince
    <3>1. \A j \in DOMAIN goals : goals[j].server # "requested"
      BY <2>1 DEF Answered, UnderWay, Accepted, TypeInv, GoalsRefer
    <3>2. QED
      BY <3>1 DEF Accepted, GoalsOf
  <2>5. Tracked(i)
    BY <2>2 DEF TrackedInv
  <2>6. QED
    BY <2>3, <2>4, <2>5 DEF Tracked
<1>4. QED
  BY <1>1, <1>2, <1>3, PTL DEF Spec
=============================================================================
