------------------------------ MODULE FastQueue ------------------------------
(***************************************************************************)
(* The FAST/browser queue consumers (handleFastBatch in                    *)
(* cloud-runtime/src/queue-consumer.ts) working against the Governor, the  *)
(* evidence buckets and the dead-letter queue.  Every await of the handler *)
(* ends a step, so handlers interleave with each other, with the clock,    *)
(* with restarts of the Governor and with the platform, which may kill a   *)
(* handler anywhere, deliver a message again, and lose the answer of a     *)
(* call that took effect.                                                  *)
(*                                                                         *)
(* A handler has a batch of one message, as on fi-monid (fi-browser hands  *)
(* out two, worked on one after the other).  External calls fail as often  *)
(* as the bound MaxFaults allows.                                          *)
(***************************************************************************)
EXTENDS Governor

CONSTANTS
    Message,      \* queue messages that producers may send
    NoMessage,    \* the message of an idle handler
    Worker,       \* concurrent invocations of the handler
    TaskOf,       \* message -> its task: two messages may carry one task
    EventOf,      \* task -> its observation key
    ProviderOf,   \* task -> its acquisition_provider
    NoUrl,        \* the tasks without a target_url
    MaxRetries,   \* max_retries of the queue
    HourTicks,    \* length of the hour in a staging key
    MaxFaults     \* bound of the model: failed calls, crashes, resets

ASSUME MappingAssumption ==
    /\ TaskOf \in [Message -> Task]
    /\ EventOf \in [Task -> Event] /\ ProviderOf \in [Task -> Provider]
    /\ NoUrl \subseteq Task /\ NoMessage \notin Message
ASSUME QueueAssumption ==
    /\ MaxRetries \in Nat /\ HourTicks \in Nat \ {0} /\ MaxFaults \in Nat
ASSUME WorkerAssumption == IsFiniteSet(Worker) /\ Worker # {}

VARIABLES
    queue,      \* message -> "unsent", "queued", "delivered", "acked" or "dead"
    attempts,   \* message -> deliveries so far
    worker,     \* worker -> [pc, msg, cost]: step, message, cost of its page
    raw,        \* tasks with a raw object in RAW_BUCKET
    staged,     \* task -> the hours under which an observation is staged
    dlq,        \* task -> messages about it in the dead-letter queue
    faults,     \* faults so far
    outcome,    \* history: message -> why it was last acknowledged
    commits,    \* history: task -> commits of it
    lapsed,     \* history: tasks that lost their lease with a handler at work
    forgotten,  \* history: tasks whose idempotency key was dropped
    stranded    \* history: held task -> since when no handler works on it

queueVars   == <<queue, attempts, outcome>>
storeVars   == <<raw, staged, dlq>>
lossVars    == <<lapsed, forgotten, stranded>>
fqVars == <<vars, queueVars, worker, storeVars, faults, commits, lossVars>>

Idle == [pc |-> "idle", msg |-> NoMessage, cost |-> 0]

FQInit ==
    /\ Init
    /\ queue = [m \in Message |-> "unsent"]
    /\ attempts = [m \in Message |-> 0]
    /\ worker = [w \in Worker |-> Idle]
    /\ raw = {} /\ staged = [t \in Task |-> {}] /\ dlq = [t \in Task |-> 0]
    /\ faults = 0
    /\ outcome = [m \in Message |-> "none"]
    /\ commits = [t \in Task |-> 0]
    /\ lapsed = {} /\ forgotten = {} /\ stranded = [t \in Task |-> 0]

Hour(t)     == t \div HourTicks
TaskAt(w)   == TaskOf[worker[w].msg]
At(w, step) == worker[w].pc = step
Goto(w, step) == worker' = [worker EXCEPT ![w].pc = step]

Fault == faults < MaxFaults /\ faults' = faults + 1

(* An awaited call: it takes effect and the handler goes on, or it throws, *)
(* having taken effect or not, and the handler enters its catch block.     *)
Await(w, effect, none, next) ==
    \/ effect /\ Goto(w, next) /\ UNCHANGED faults
    \/ (effect \/ none) /\ Goto(w, "c_release") /\ Fault

(* mutant: the handler returns without ack() or retry() *)
Unsettled(w, why) ==
    /\ outcome' = [outcome EXCEPT ![worker[w].msg] = why]
    /\ worker' = [worker EXCEPT ![w] = Idle]
    /\ UNCHANGED <<queue, attempts>>

Acknowledge(w, why) ==
    /\ queue' = [queue EXCEPT ![worker[w].msg] = "acked"]
    /\ outcome' = [outcome EXCEPT ![worker[w].msg] = why]
    /\ worker' = [worker EXCEPT ![w] = Idle]
    /\ UNCHANGED attempts

-----------------------------------------------------------------------------
(* Producers and platform *)

(* A planner, a workflow step or an operator enqueues a task; two of them, *)
(* or a step that is run again, may enqueue the same one.                  *)
Send(m) ==
    /\ queue[m] = "unsent"
    /\ queue' = [queue EXCEPT ![m] = "queued"]
    /\ UNCHANGED <<vars, attempts, outcome, worker, storeVars, faults, commits>>

Deliver(w, m) ==
    /\ At(w, "idle") /\ queue[m] = "queued"
    /\ queue' = [queue EXCEPT ![m] = "delivered"]
    /\ attempts' = [attempts EXCEPT ![m] = @ + 1]
    /\ worker' = [worker EXCEPT ![w] = [pc |-> "reserve", msg |-> m, cost |-> 0]]
    /\ UNCHANGED <<vars, outcome, storeVars, faults, commits>>

Exhausted(m) == attempts[m] > MaxRetries

(* The platform takes back the message of w: another attempt, or the       *)
(* dead-letter queue once max_retries is used up.                          *)
Requeue(w) ==
    LET m == worker[w].msg IN
    /\ queue' = [queue EXCEPT ![m] = IF Exhausted(m) THEN "dead" ELSE "queued"]
    /\ dlq' = [dlq EXCEPT ![TaskOf[m]] = IF Exhausted(m) THEN @ + 1 ELSE @]
    /\ worker' = [worker EXCEPT ![w] = Idle]
    /\ UNCHANGED <<vars, attempts, outcome, raw, staged, commits>>

(* msg.retry(), or a handler that threw *)
Retry(w) == At(w, "retry") /\ Requeue(w) /\ UNCHANGED faults

(* the runtime kills the handler *)
Crash(w) == ~At(w, "idle") /\ ~At(w, "retry") /\ Requeue(w) /\ Fault

(* at-least-once: an acknowledged message may come again *)
Redeliver(m) ==
    /\ queue[m] = "acked" /\ attempts[m] <= MaxRetries /\ Fault
    /\ queue' = [queue EXCEPT ![m] = "queued"]
    /\ UNCHANGED <<vars, attempts, outcome, worker, storeVars, commits>>

-----------------------------------------------------------------------------
(* handleFastBatch, step by step *)

Reserve(w) ==
    LET t == TaskAt(w)
        p == ProviderOf[t]
        reason == ReserveReason(t, p) IN
    /\ At(w, "reserve")
    /\ \/ /\ reason = "ALLOWED"
          /\ Await(w, ReserveTask(t, p), UNCHANGED vars,
                   IF t \in NoUrl THEN "no_url" ELSE "acquire")
          /\ UNCHANGED queueVars
       \/ /\ reason # "ALLOWED"
          /\ ReserveTask(t, p)
          /\ Acknowledge(w, reason)
          /\ UNCHANGED faults
       \/ /\ reason # "ALLOWED"
          /\ ReserveTask(t, p) \/ UNCHANGED vars
          /\ Goto(w, "c_release") /\ Fault
          /\ UNCHANGED queueVars
    /\ UNCHANGED <<storeVars, commits>>

ReleaseNoUrl(w) ==
    LET t == TaskAt(w) IN
    /\ At(w, "no_url")
    /\ \/ /\ ReleaseTask(t)
          /\ Acknowledge(w, "NO_TARGET_URL")
          /\ UNCHANGED faults
       \/ /\ ReleaseTask(t) \/ UNCHANGED vars
          /\ Goto(w, "c_release") /\ Fault
          /\ UNCHANGED queueVars
    /\ UNCHANGED <<storeVars, commits>>

(* acquireUrl: a page for 0 or 1 units, no rail that works, or an exception, *)
(* which is no fault of the platform and is not counted as one             *)
Acquire(w) ==
    /\ At(w, "acquire")
    /\ \/ \E price \in {0, 1} :
             /\ worker' = [worker EXCEPT ![w].pc = "raw", ![w].cost = price]
             /\ UNCHANGED faults
       \/ Goto(w, "f_release") /\ UNCHANGED faults
       \/ Goto(w, "c_release") /\ UNCHANGED faults
    /\ UNCHANGED <<vars, queueVars, storeVars, commits>>

(* mutant: the commit comes before the observation is staged *)
PutRawThenCommit(w) ==
    /\ At(w, "raw")
    /\ Await(w, raw' = raw \cup {TaskAt(w)}, UNCHANGED raw, "commit")
    /\ UNCHANGED <<vars, queueVars, staged, dlq, commits>>

PutRaw(w) ==
    /\ At(w, "raw")
    /\ Await(w, raw' = raw \cup {TaskAt(w)}, UNCHANGED raw, "staging")
    /\ UNCHANGED <<vars, queueVars, staged, dlq, commits>>

PutStaging(w) ==
    /\ At(w, "staging")
    /\ Await(w, staged' = [staged EXCEPT ![TaskAt(w)] = @ \cup {Hour(now)}],
             UNCHANGED staged, "commit")
    /\ UNCHANGED <<vars, queueVars, raw, dlq, commits>>

Commit(w) ==
    LET t == TaskAt(w) IN
    /\ At(w, "commit")
    /\ Await(w, /\ CommitTask(t, worker[w].cost)
                /\ commits' = [commits EXCEPT ![t] = @ + 1],
             UNCHANGED <<vars, commits>>, "observe")
    /\ UNCHANGED <<queueVars, storeVars>>

Observe(w) ==
    /\ At(w, "observe")
    /\ Await(w, RecordObservation(EventOf[TaskAt(w)], TRUE), UNCHANGED vars, "scorecard")
    /\ UNCHANGED <<queueVars, storeVars, commits>>

Scorecard(w) ==
    /\ At(w, "scorecard")
    /\ \/ Acknowledge(w, "COMPLETED") /\ UNCHANGED faults
       \/ Goto(w, "c_release") /\ Fault /\ UNCHANGED queueVars
    /\ UNCHANGED <<vars, storeVars, commits>>

(* mutant: the release is forgotten *)
FailUnreleased(w) ==
    /\ At(w, "f_release") /\ Goto(w, "f_scorecard")
    /\ UNCHANGED <<vars, queueVars, storeVars, commits, faults>>

(* every rail failed *)
FailRelease(w) ==
    /\ At(w, "f_release")
    /\ Await(w, ReleaseTask(TaskAt(w)), UNCHANGED vars, "f_scorecard")
    /\ UNCHANGED <<queueVars, storeVars, commits>>

SecondAttempt(w) == attempts[worker[w].msg] >= 2

FailScorecard(w) ==
    /\ At(w, "f_scorecard")
    /\ Await(w, TRUE, TRUE, IF SecondAttempt(w) THEN "f_dlq" ELSE "retry")
    /\ UNCHANGED <<vars, queueVars, storeVars, commits>>

SendDlq(t) == dlq' = [dlq EXCEPT ![t] = @ + 1]

FailDlq(w) ==
    /\ At(w, "f_dlq")
    /\ Await(w, SendDlq(TaskAt(w)), UNCHANGED dlq, "f_breaker")
    /\ UNCHANGED <<vars, queueVars, raw, staged, commits>>

FailBreaker(w) ==
    /\ At(w, "f_breaker")
    /\ Await(w, RecordFailure(ProviderOf[TaskAt(w)]), UNCHANGED vars, "retry")
    /\ UNCHANGED <<queueVars, storeVars, commits>>

(* the catch block: the failures of its two calls to the Governor are      *)
(* swallowed; if the send fails, the handler throws                        *)
CatchRelease(w) ==
    /\ At(w, "c_release")
    /\ Goto(w, "c_observe")
    /\ \/ ReleaseTask(TaskAt(w)) /\ UNCHANGED faults
       \/ UNCHANGED vars /\ Fault
    /\ UNCHANGED <<queueVars, storeVars, commits>>

CatchObserve(w) ==
    /\ At(w, "c_observe")
    /\ Goto(w, IF SecondAttempt(w) THEN "c_dlq" ELSE "retry")
    /\ \/ RecordObservation(EventOf[TaskAt(w)], FALSE) /\ UNCHANGED faults
       \/ UNCHANGED vars /\ Fault
    /\ UNCHANGED <<queueVars, storeVars, commits>>

CatchDlq(w) ==
    /\ At(w, "c_dlq")
    /\ Goto(w, "retry")
    /\ \/ SendDlq(TaskAt(w)) /\ UNCHANGED faults
       \/ UNCHANGED dlq /\ Fault
    /\ UNCHANGED <<vars, queueVars, raw, staged, commits>>

Handle(w) ==
    \/ Reserve(w) \/ ReleaseNoUrl(w) \/ Acquire(w)
    \/ PutRaw(w) \/ PutStaging(w) \/ Commit(w) \/ Observe(w) \/ Scorecard(w)
    \/ FailRelease(w) \/ FailScorecard(w) \/ FailDlq(w) \/ FailBreaker(w)
    \/ CatchRelease(w) \/ CatchObserve(w) \/ CatchDlq(w) \/ Retry(w)

-----------------------------------------------------------------------------
(* the Governor's own steps between two calls *)
GovernorStep ==
    /\ \/ Tick /\ UNCHANGED faults
       \/ Restart /\ UNCHANGED faults
       \/ ResetState /\ Fault
    /\ UNCHANGED <<queueVars, worker, storeVars, commits>>

(* a handler that was granted its task and has not yet given it back *)
Working(w) == worker[w].pc \in {"no_url", "acquire", "raw", "staging", "commit"}

(* A task the Governor holds something for, and one with a handler at work *)
Held(t)   == t \in reservations \cup DOMAIN active_leases
Worked(t) == \E w \in Worker : Working(w) /\ TaskAt(w) = t

(* the history of lost leases, dropped keys and stranded holds, kept by    *)
(* every step                                                              *)
RecordLoss ==
    /\ lapsed' = lapsed \cup {TaskAt(w) : w \in
                   {v \in Worker : /\ Working(v) /\ Working(v)'
                                   /\ TaskAt(v) \notin DOMAIN active_leases'}}
    /\ forgotten' = forgotten \cup (DOMAIN recent_task_keys \ DOMAIN recent_task_keys')
    /\ stranded' = [t \in Task |->
          IF Worked(t)' \/ ~Held(t)' THEN 0
          ELSE IF Held(t) /\ ~Worked(t) THEN stranded[t] ELSE now]

FQNext ==
    /\ \/ \E m \in Message : Send(m) \/ Redeliver(m)
       \/ \E w \in Worker, m \in Message : Deliver(w, m)
       \/ \E w \in Worker : Handle(w) \/ Crash(w)
       \/ GovernorStep
    /\ RecordLoss

(* A delivered message is worked on and a queued one is delivered: the     *)
(* platform schedules both.  No fairness on faults, sends or the clock.    *)
Fairness ==
    /\ \A w \in Worker : WF_fqVars(Handle(w) /\ RecordLoss)
    /\ \A m \in Message : WF_fqVars((\E w \in Worker : Deliver(w, m)) /\ RecordLoss)

FQSpec == FQInit /\ [][FQNext]_fqVars /\ Fairness

-----------------------------------------------------------------------------
(* The recorded spend of a day never exceeds the budget by more than the   *)
(* pages of the other handlers that were running, however leases expire,   *)
(* are released by a handler that had lost them, or are forgotten when a   *)
(* day turns: each of the pages still to be committed was admitted while   *)
(* the spend of the day had room for one.                                  *)
Spenders == {w \in Worker : Working(w)}

OverspendBounded ==
    LET excess == DailyBudget + Cardinality(Worker) - 1 IN
    /\ daily_spend <= excess
    /\ Spenders # {} => daily_spend + Cardinality(Spenders) <= excess

(* What the Governor says is done has been done: a completed task, a task  *)
(* whose message was acknowledged as done or as a duplicate, and a pair    *)
(* the bootstrap planner would skip as observed, all have their raw object *)
(* and their staged observation, through every crash and lost answer.      *)
Evidenced(t) == t \in raw /\ staged[t] # {}

DoneIsEvidenced ==
    /\ \A t \in DOMAIN recent_task_keys : Evidenced(t)
    /\ \A m \in Message : outcome[m] \in {"COMPLETED", "DUPLICATE_TASK"} => Evidenced(TaskOf[m])
    /\ \A e \in Event : observation_state[e].seen =>
           \E t \in Task : EventOf[t] = e /\ Evidenced(t)

(* A task is committed, and its page accounted, once, and two handlers are *)
(* never at work on it at the same time - unless a lease of it ended while *)
(* its holder was still at work, or its idempotency key was dropped.       *)
Disturbed(t) == t \in lapsed \cup forgotten

ExclusiveUnlessLapsed ==
    /\ \A t \in Task : commits[t] > 1 => Disturbed(t)
    /\ \A v, w \in Worker :
          v # w /\ Working(v) /\ Working(w) /\ TaskAt(v) = TaskAt(w) => TaskAt(v) \in lapsed

(* No path through the handler, however it ends, leaves a reservation      *)
(* behind: while nothing has failed, whatever is reserved is being worked  *)
(* on, even when leases lapse and tasks change hands.                      *)
NoLeakWithoutFault ==
    faults = 0 => \A t \in reservations : \E w \in Worker :
        /\ worker[w].pc # "idle" /\ TaskAt(w) = t

(* What a handler strands - killed at work, or with a release in its catch *)
(* block that failed and was swallowed - counts against the budgets and    *)
(* the containers for one lease at most from then on: no redelivery,       *)
(* refusal, restart or other handler of the same task prolongs it, and     *)
(* nothing is held that expireStaleLeases would not find.                  *)
StrandedHoldsLapse ==
    \A t \in LiveReservations \cup DOMAIN LiveLeases :
        ~Worked(t) => now <= stranded[t] + LeaseTicks

(* Every message that is sent is acknowledged or dead-lettered in the end. *)
MessagesSettle ==
    \A m \in Message : queue[m] \in {"queued", "delivered"} ~> queue[m] \in {"acked", "dead"}

=============================================================================
