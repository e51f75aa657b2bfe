--------------------------- MODULE FastQueue_proofs ---------------------------
(***************************************************************************)
(* Theorems of the FAST consumers, for every set of messages and handlers  *)
(* and every number of faults: what the Governor records as done has its   *)
(* evidence, the budget is overspent by no more than the pages that were   *)
(* being paid at the same time, a task changes hands only after a loss,    *)
(* and what a handler strands is held for one lease at most.               *)
(***************************************************************************)
EXTENDS FastQueue, Governor_proofs

Steps == {"idle", "reserve", "no_url", "acquire", "raw", "staging", "commit", "observe",
          "scorecard", "f_release", "f_scorecard", "f_dlq", "f_breaker", "c_release",
          "c_observe", "c_dlq", "retry"}

Handlers == [pc : Steps, msg : Message \cup {NoMessage}, cost : {0, 1}]

(* A handler works on a message, and has put what it is about to report.   *)
HandlerOK(h) ==
    /\ h \in Handlers
    /\ h.pc # "idle" => h.msg \in Message
    /\ h.pc = "staging" => TaskOf[h.msg] \in raw
    /\ h.pc \in {"commit", "observe", "scorecard"} => Evidenced(TaskOf[h.msg])

HandlersInv ==
    /\ DOMAIN staged = Task
    /\ DOMAIN worker = Worker /\ worker = [w \in Worker |-> worker[w]]
    /\ \A w \in Worker : HandlerOK(worker[w])

(* Evidence only accumulates. *)
EvidenceGrows ==
    /\ DOMAIN staged' = DOMAIN staged
    /\ raw \subseteq raw' /\ \A t \in Task : staged[t] \subseteq staged'[t]

\* Evidence that is there stays there.
LEMMA EvidencedStays ==
    ASSUME HandlersInv, EvidenceGrows, NEW t \in Task, Evidenced(t)
    PROVE  Evidenced(t)'
BY DEF EvidenceGrows, Evidenced

\* So does what a handler relies on.
LEMMA HandlerOKStays ==
    ASSUME HandlersInv, EvidenceGrows, NEW h, HandlerOK(h)
    PROVE  HandlerOK(h)'
<1>1. h.pc # "idle" => TaskOf[h.msg] \in Task
  BY MappingAssumption DEF HandlerOK
<1> QED BY <1>1, EvidencedStays DEF HandlerOK, EvidenceGrows

(* One handler takes a step. *)
LEMMA HandlerSteps ==
    ASSUME HandlersInv, EvidenceGrows, NEW w \in Worker, NEW h,
           worker' = [worker EXCEPT ![w] = h], HandlerOK(h)'
    PROVE  HandlersInv'
<1>1. \A v \in Worker : worker'[v] = IF v = w THEN h ELSE worker[v]
  BY DEF HandlersInv
<1>2. ASSUME NEW v \in Worker PROVE HandlerOK(worker[v])'
  <2>1. CASE v = w
    BY <1>1, <2>1 DEF HandlerOK
  <2>2. CASE v # w
    <3>1. PICK x : x = worker[v]
      OBVIOUS
    <3>2. HandlerOK(x)'
      BY <3>1, HandlerOKStays DEF HandlersInv
    <3> QED BY <1>1, <2>2, <3>1, <3>2 DEF HandlerOK
  <2> QED BY <2>1, <2>2
<1> QED BY <1>2 DEF HandlersInv, EvidenceGrows

(* What a handler at work holds, and what moving it to another step leaves *)
(* of that.                                                                *)
LEMMA HandlerFacts ==
    ASSUME HandlersInv, NEW w \in Worker
    PROVE  /\ HandlerOK(worker[w]) /\ worker[w].cost \in {0, 1}
           /\ ~At(w, "idle") => /\ TaskAt(w) \in Task
                                /\ ProviderOf[TaskAt(w)] \in Provider
                                /\ EventOf[TaskAt(w)] \in Event
           /\ \A step \in Steps : LET h == [worker[w] EXCEPT !.pc = step] IN
                h \in Handlers /\ h.pc = step /\ h.msg = worker[w].msg
           /\ Idle \in Handlers /\ Idle.pc = "idle"
<1>1. HandlerOK(worker[w])
  BY DEF HandlersInv
<1>2. ~At(w, "idle") => TaskAt(w) \in Task
  BY <1>1, MappingAssumption DEF HandlerOK, At, TaskAt
<1> QED BY <1>1, <1>2, MappingAssumption DEF HandlerOK, Handlers, Idle, Steps

\* A worker that goes to its next step keeps the invariant when the evidence
\* for that step is there.
LEMMA MovesOn ==
    ASSUME HandlersInv, EvidenceGrows, NEW w \in Worker, ~At(w, "idle"),
           NEW step \in Steps, Goto(w, step),
           step = "staging" => TaskAt(w) \in raw',
           step \in {"commit", "observe", "scorecard"} =>
               TaskAt(w) \in raw' /\ staged'[TaskAt(w)] # {}
    PROVE  HandlersInv'
<1>1. PICK h : h = [worker[w] EXCEPT !.pc = step]
  OBVIOUS
<1>2. h \in Handlers /\ h.pc = step /\ h.msg = worker[w].msg /\ HandlerOK(worker[w])
  BY <1>1, HandlerFacts
<1>3. worker' = [worker EXCEPT ![w] = h]
  BY <1>1 DEF Goto
<1>4. HandlerOK(h)'
  BY <1>2 DEF HandlerOK, Evidenced, TaskAt, At
<1> QED BY <1>3, <1>4, HandlerSteps

\* So does a worker that is done, or dies.
LEMMA Rests ==
    ASSUME HandlersInv, EvidenceGrows, NEW w \in Worker,
           worker' = [worker EXCEPT ![w] = Idle]
    PROVE  HandlersInv'
<1>1. HandlerOK(Idle)'
  BY HandlerFacts DEF HandlerOK, Idle
<1> QED BY <1>1, HandlerSteps

\* A step that puts nothing loses nothing.
LEMMA NothingPut == ASSUME HandlersInv, UNCHANGED <<raw, staged>> PROVE EvidenceGrows
BY DEF EvidenceGrows

(* Handlers keep what they owe: one step per action.                       *)
LEMMA HandleKeeps ==
    ASSUME HandlersInv, NEW w \in Worker, Handle(w)
    PROVE  EvidenceGrows /\ HandlersInv'
<1>1. CASE \/ Reserve(w) \/ ReleaseNoUrl(w) \/ FailRelease(w) \/ FailScorecard(w) \/ FailDlq(w)
           \/ FailBreaker(w) \/ CatchRelease(w) \/ CatchObserve(w) \/ CatchDlq(w)
  <2>1. UNCHANGED <<raw, staged>> /\ EvidenceGrows
    <3>1. UNCHANGED <<raw, staged>>
      BY <1>1 DEF Reserve, ReleaseNoUrl, FailRelease, FailScorecard, FailDlq, FailBreaker,
                  CatchRelease, CatchObserve, CatchDlq, storeVars
    <3> QED BY <3>1, NothingPut
  <2>2. ~At(w, "idle")
    BY <1>1 DEF Reserve, ReleaseNoUrl, FailRelease, FailScorecard, FailDlq, FailBreaker,
                CatchRelease, CatchObserve, CatchDlq, At
  <2>3. \/ worker' = [worker EXCEPT ![w] = Idle]
        \/ \E step \in {"no_url", "acquire", "c_release", "f_scorecard", "f_dlq", "f_breaker",
                        "retry", "c_observe", "c_dlq"} : Goto(w, step)
    BY <1>1 DEF Reserve, ReleaseNoUrl, FailRelease, FailScorecard, FailDlq, FailBreaker,
                CatchRelease, CatchObserve, CatchDlq, Await, Acknowledge
  <2>4. CASE worker' = [worker EXCEPT ![w] = Idle]
    BY <2>1, <2>4, Rests
  <2>5. ASSUME NEW step \in {"no_url", "acquire", "c_release", "f_scorecard", "f_dlq", "f_breaker",
                             "retry", "c_observe", "c_dlq"}, Goto(w, step)
        PROVE  HandlersInv'
    <3>1. step \in Steps /\ step # "staging" /\ step \notin {"commit", "observe", "scorecard"}
      BY DEF Steps
    <3> QED BY <2>1, <2>2, <2>5, <3>1, MovesOn
  <2> QED BY <2>1, <2>3, <2>4, <2>5
<1>2. CASE Acquire(w)
  <2>1. EvidenceGrows /\ ~At(w, "idle")
    BY <1>2, NothingPut DEF Acquire, storeVars, At
  <2>2. ASSUME NEW price \in {0, 1}, worker' = [worker EXCEPT ![w].pc = "raw", ![w].cost = price]
        PROVE  HandlersInv'
    <3>1. PICK h : h = [worker[w] EXCEPT !.pc = "raw", !.cost = price]
      OBVIOUS
    <3>2. worker' = [worker EXCEPT ![w] = h]
      BY <2>2, <3>1 DEF HandlersInv
    <3>3. HandlerOK(worker[w]) /\ worker[w] \in Handlers
      BY HandlerFacts DEF HandlerOK
    <3>4. h \in Handlers /\ h.pc = "raw" /\ h.msg = worker[w].msg
      BY <3>1, <3>3 DEF Handlers, Steps
    <3>5. HandlerOK(h)'
      BY <2>1, <3>3, <3>4 DEF HandlerOK, At
    <3> QED BY <2>1, <3>2, <3>5, HandlerSteps
  <2>3. ASSUME NEW step \in {"f_release", "c_release"}, Goto(w, step) PROVE HandlersInv'
    <3>1. step \in Steps /\ step # "staging" /\ step \notin {"commit", "observe", "scorecard"}
      BY DEF Steps
    <3> QED BY <2>1, <2>3, <3>1, MovesOn
  <2> QED BY <1>2, <2>1, <2>2, <2>3 DEF Acquire
<1>3. CASE PutRaw(w)
  <2>1. /\ At(w, "raw") /\ ~At(w, "idle") /\ UNCHANGED staged
        /\ \/ raw' = raw \cup {TaskAt(w)} /\ Goto(w, "staging")
           \/ raw' \in {raw, raw \cup {TaskAt(w)}} /\ Goto(w, "c_release")
    BY <1>3 DEF PutRaw, Await, At
  <2>2. EvidenceGrows
    BY <2>1 DEF EvidenceGrows
  <2>3. "staging" \in Steps /\ "c_release" \in Steps
    BY DEF Steps
  <2> QED BY <2>1, <2>2, <2>3, MovesOn
<1>4. CASE PutStaging(w)
  <2> DEFINE put == [staged EXCEPT ![TaskAt(w)] = @ \cup {Hour(now)}]
  <2>1. /\ At(w, "staging") /\ ~At(w, "idle") /\ UNCHANGED raw
        /\ \/ staged' = put /\ Goto(w, "commit")
           \/ staged' \in {staged, put} /\ Goto(w, "c_release")
    BY <1>4 DEF PutStaging, Await, At
  <2>2. TaskAt(w) \in Task /\ TaskAt(w) \in raw
    BY <2>1, HandlerFacts DEF HandlerOK, At, TaskAt
  <2>3. /\ DOMAIN put = DOMAIN staged /\ \A t \in Task : staged[t] \subseteq put[t]
        /\ put[TaskAt(w)] # {}
    BY <2>2 DEF HandlersInv
  <2> HIDE DEF put
  <2>4. EvidenceGrows
    BY <2>1, <2>3 DEF EvidenceGrows
  <2>5. "commit" \in Steps /\ "c_release" \in Steps
    BY DEF Steps
  <2> QED BY <2>1, <2>2, <2>3, <2>4, <2>5, MovesOn
<1>5. CASE Commit(w) \/ Observe(w) \/ Scorecard(w)
  <2>1. /\ UNCHANGED <<raw, staged>> /\ At(w, worker[w].pc)
        /\ worker[w].pc \in {"commit", "observe", "scorecard"}
    BY <1>5 DEF Commit, Observe, Scorecard, storeVars, At
  <2>2. EvidenceGrows /\ ~At(w, "idle") /\ TaskAt(w) \in raw' /\ staged'[TaskAt(w)] # {}
    BY <2>1, NothingPut, HandlerFacts DEF At, HandlerOK, Evidenced, TaskAt
  <2>3. \/ worker' = [worker EXCEPT ![w] = Idle]
        \/ \E step \in {"observe", "scorecard", "c_release"} : Goto(w, step)
    BY <1>5 DEF Commit, Observe, Scorecard, Await, Acknowledge
  <2>4. {"observe", "scorecard", "c_release"} \subseteq Steps
    BY DEF Steps
  <2> QED BY <2>2, <2>3, <2>4, MovesOn, Rests
<1>6. CASE Retry(w)
  <2>1. UNCHANGED <<raw, staged>> /\ worker' = [worker EXCEPT ![w] = Idle]
    BY <1>6 DEF Retry, Requeue
  <2> QED BY <2>1, NothingPut, Rests
<1> QED BY <1>1, <1>2, <1>3, <1>4, <1>5, <1>6 DEF Handle

(* The other steps put nothing; a delivery begins a handler's work.        *)
LEMMA PlatformKeeps ==
    ASSUME HandlersInv,
           \/ \E m \in Message : Send(m) \/ Redeliver(m)
           \/ \E w \in Worker, m \in Message : Deliver(w, m)
           \/ \E w \in Worker : Crash(w)
           \/ GovernorStep
    PROVE  EvidenceGrows /\ HandlersInv'
<1>1. CASE (\E m \in Message : Send(m) \/ Redeliver(m)) \/ GovernorStep
  <2>1. UNCHANGED <<raw, staged, worker>>
    BY <1>1 DEF Send, Redeliver, GovernorStep, storeVars
  <2> QED BY <2>1, NothingPut DEF HandlersInv, HandlerOK, Evidenced
<1>2. ASSUME NEW w \in Worker, NEW m \in Message, Deliver(w, m)
      PROVE  EvidenceGrows /\ HandlersInv'
  <2>1. PICK h : h = [pc |-> "reserve", msg |-> m, cost |-> 0]
    OBVIOUS
  <2>2. EvidenceGrows /\ worker' = [worker EXCEPT ![w] = h]
    BY <1>2, <2>1, NothingPut DEF Deliver, storeVars
  <2>3. HandlerOK(h)'
    BY <2>1 DEF HandlerOK, Handlers, Steps
  <2> QED BY <2>2, <2>3, HandlerSteps
<1>3. ASSUME NEW w \in Worker, Crash(w) PROVE EvidenceGrows /\ HandlersInv'
  <2>1. UNCHANGED <<raw, staged>> /\ worker' = [worker EXCEPT ![w] = Idle]
    BY <1>3 DEF Crash, Requeue
  <2> QED BY <2>1, NothingPut, Rests
<1> QED BY <1>1, <1>2, <1>3

\* The invariant holds at the beginning.
LEMMA InitHandlers == FQInit => HandlersInv
<1>1. Idle \in Handlers /\ Idle.pc = "idle"
  BY DEF Idle, Handlers, Steps
<1> QED BY <1>1 DEF FQInit, HandlersInv, HandlerOK

\* Every step keeps it, and only adds evidence.
LEMMA StepHandlers == HandlersInv /\ [FQNext]_fqVars => HandlersInv' /\ EvidenceGrows
<1> SUFFICES ASSUME HandlersInv, [FQNext]_fqVars PROVE HandlersInv' /\ EvidenceGrows
  OBVIOUS
<1>1. CASE FQNext
  BY <1>1, HandleKeeps, PlatformKeeps DEF FQNext
<1>2. CASE UNCHANGED fqVars
  <2>1. UNCHANGED <<raw, staged, worker>>
    BY <1>2 DEF fqVars, storeVars
  <2> QED BY <2>1, NothingPut DEF HandlersInv, HandlerOK, Evidenced
<1> QED BY <1>1, <1>2

(* What a step of the queue is to the Governor: a call, or nothing.        *)
LEMMA HandlerCalls ==
    ASSUME HandlersInv, NEW w \in Worker, Handle(w)
    PROVE  \/ UNCHANGED vars
           \/ ReserveTask(TaskAt(w), ProviderOf[TaskAt(w)])
           \/ CommitTask(TaskAt(w), worker[w].cost) /\ At(w, "commit")
           \/ ReleaseTask(TaskAt(w))
           \/ RecordObservation(EventOf[TaskAt(w)], TRUE) /\ At(w, "observe")
           \/ RecordObservation(EventOf[TaskAt(w)], FALSE)
           \/ RecordFailure(ProviderOf[TaskAt(w)])
<1>1. CASE Reserve(w)
  BY <1>1 DEF Reserve, Await
<1>2. CASE ReleaseNoUrl(w) \/ FailRelease(w) \/ CatchRelease(w)
  BY <1>2 DEF ReleaseNoUrl, FailRelease, CatchRelease, Await
<1>3. CASE Commit(w)
  BY <1>3 DEF Commit, Await
<1>4. CASE Observe(w) \/ CatchObserve(w)
  BY <1>4 DEF Observe, CatchObserve, Await
<1>5. CASE FailBreaker(w)
  BY <1>5 DEF FailBreaker, Await
<1>6. CASE \/ Acquire(w) \/ PutRaw(w) \/ PutStaging(w) \/ Scorecard(w) \/ FailScorecard(w)
           \/ FailDlq(w) \/ CatchDlq(w) \/ Retry(w)
  BY <1>6 DEF Acquire, PutRaw, PutStaging, Scorecard, FailScorecard, FailDlq, CatchDlq, Retry,
              Requeue
<1> QED BY <1>1, <1>2, <1>3, <1>4, <1>5, <1>6 DEF Handle

\* Deliveries and crashes leave the Governor alone; its own steps are its own.
LEMMA PlatformCalls ==
    ASSUME \/ \E m \in Message : Send(m) \/ Redeliver(m)
           \/ \E w \in Worker, m \in Message : Deliver(w, m)
           \/ \E w \in Worker : Crash(w)
           \/ GovernorStep
    PROVE  UNCHANGED vars \/ Tick \/ Restart \/ ResetState
BY DEF Send, Redeliver, Deliver, Crash, Requeue, GovernorStep

\* Every step of the queue is one of the Governor's, or none.
LEMMA StepCalls == HandlersInv /\ [FQNext]_fqVars => [Next]_vars
<1> SUFFICES ASSUME HandlersInv, [FQNext]_fqVars PROVE Next \/ UNCHANGED vars
  OBVIOUS
<1>1. ASSUME NEW w \in Worker, Handle(w) PROVE Next \/ UNCHANGED vars
  <2>1. CASE At(w, "idle")
    BY <1>1, <2>1 DEF Handle, Reserve, ReleaseNoUrl, Acquire, PutRaw, PutStaging, Commit, Observe,
                      Scorecard, FailRelease, FailScorecard, FailDlq, FailBreaker, CatchRelease,
                      CatchObserve, CatchDlq, Retry, At
  <2>2. CASE ~At(w, "idle")
    <3>1. /\ TaskAt(w) \in Task /\ ProviderOf[TaskAt(w)] \in Provider
          /\ EventOf[TaskAt(w)] \in Event /\ worker[w].cost \in {0, 1}
      BY <2>2, HandlerFacts
    <3>2. TRUE \in BOOLEAN /\ FALSE \in BOOLEAN
      OBVIOUS
    <3> QED BY <1>1, <3>1, <3>2, HandlerCalls DEF Next, Call
  <2> QED BY <2>1, <2>2
<1>2. CASE UNCHANGED fqVars
  BY <1>2 DEF fqVars
<1> QED BY <1>1, <1>2, PlatformCalls DEF FQNext, Next

(* The state of the Governor moves by its own actions alone, so what is    *)
(* proved of it holds of the composition.                                  *)
LEMMA ConsumersUseTheGovernor == FQSpec => Spec
<1>1. FQInit => Init
  BY DEF FQInit
<1>2. FQSpec => []HandlersInv
  BY InitHandlers, StepHandlers, PTL DEF FQSpec
<1> QED BY <1>1, <1>2, StepCalls, PTL DEF FQSpec, Spec

-----------------------------------------------------------------------------
(* What a step adds to the tables by which the Governor calls a task or a  *)
(* pair done.                                                              *)
LEMMA DoneByCommit ==
    ASSUME HandlersInv, GovInv, [FQNext]_fqVars
    PROVE  /\ \A t \in DOMAIN recent_task_keys' :
                t \in DOMAIN recent_task_keys \/ (t \in Task /\ Evidenced(t))
           /\ \A e \in Event : observation_state'[e].seen =>
                \/ observation_state[e].seen
                \/ \E t \in Task : EventOf[t] = e /\ Evidenced(t)
<1> DEFINE Keys == \A t \in DOMAIN recent_task_keys' :
                     t \in DOMAIN recent_task_keys \/ (t \in Task /\ Evidenced(t))
           Seen == \A e \in Event : observation_state'[e].seen =>
                     \/ observation_state[e].seen
                     \/ \E t \in Task : EventOf[t] = e /\ Evidenced(t)
<1>1. observation_state \in [Event -> [seen : BOOLEAN, failures : Nat]]
  BY DEF GovInv, TypeOK
<1>2. CASE UNCHANGED <<recent_task_keys, observation_state>>
  BY <1>2
<1>3. CASE ResetState
  BY <1>3 DEF ResetState, EmptyMap, NoObservation
<1>4. ASSUME NEW w \in Worker, Handle(w) PROVE Keys /\ Seen
  <2>1. CASE CommitTask(TaskAt(w), worker[w].cost) /\ At(w, "commit")
    <3>1. TaskAt(w) \in Task /\ Evidenced(TaskAt(w))
      BY <2>1, HandlerFacts DEF At, HandlerOK, TaskAt
    <3>2. DOMAIN recent_task_keys' \subseteq DOMAIN recent_task_keys \cup {TaskAt(w)}
      BY <2>1 DEF CommitTask, RememberKey, Completed, Restrict
    <3>3. UNCHANGED observation_state
      BY <2>1 DEF CommitTask
    <3> QED BY <3>1, <3>2, <3>3
  <2>2. CASE RecordObservation(EventOf[TaskAt(w)], TRUE) /\ At(w, "observe")
    <3>1. TaskAt(w) \in Task /\ Evidenced(TaskAt(w)) /\ EventOf[TaskAt(w)] \in Event
      BY <2>2, HandlerFacts DEF At, HandlerOK, TaskAt
    <3>2. UNCHANGED recent_task_keys
      BY <2>2 DEF RecordObservation, ledgerVars
    <3>3. \A e \in Event : e # EventOf[TaskAt(w)] => observation_state'[e] = observation_state[e]
      BY <1>1, <2>2 DEF RecordObservation
    <3> QED BY <3>1, <3>2, <3>3
  <2>3. CASE RecordObservation(EventOf[TaskAt(w)], FALSE)
    <3>1. UNCHANGED recent_task_keys
      BY <2>3 DEF RecordObservation, ledgerVars
    <3>2. \A e \in Event : observation_state'[e].seen = observation_state[e].seen
      BY <1>1, <2>3 DEF RecordObservation
    <3> QED BY <3>1, <3>2
  <2>4. CASE \/ UNCHANGED vars
             \/ ReserveTask(TaskAt(w), ProviderOf[TaskAt(w)]) \/ ReleaseTask(TaskAt(w))
             \/ RecordFailure(ProviderOf[TaskAt(w)])
    BY <1>2, <2>4 DEF vars, govVars, ledgerVars, ReserveTask, ReleaseTask, RecordFailure
  <2> QED BY <1>4, <2>1, <2>2, <2>3, <2>4, HandlerCalls
<1>5. CASE UNCHANGED vars \/ Tick \/ Restart
  BY <1>2, <1>5 DEF vars, govVars, ledgerVars, Tick, Restart, Stored
<1>6. CASE UNCHANGED fqVars
  BY <1>5, <1>6 DEF fqVars
<1> HIDE DEF Keys, Seen
<1> QED BY <1>3, <1>4, <1>5, <1>6, PlatformCalls DEF FQNext, Keys, Seen

(* A message is acknowledged as done by a handler that has the evidence.   *)
LEMMA DoneByHandler ==
    ASSUME HandlersInv, DoneIsEvidenced, [FQNext]_fqVars, DOMAIN outcome = Message
    PROVE  /\ DOMAIN outcome' = Message
           /\ \A m \in Message : outcome'[m] \in {"COMPLETED", "DUPLICATE_TASK"} =>
                outcome[m] \in {"COMPLETED", "DUPLICATE_TASK"} \/ Evidenced(TaskOf[m])
<1>1. CASE UNCHANGED outcome
  BY <1>1
<1>2. ASSUME NEW w \in Worker, NEW why, outcome' = [outcome EXCEPT ![worker[w].msg] = why],
             why \in {"COMPLETED", "DUPLICATE_TASK"} => Evidenced(TaskAt(w))
      PROVE  /\ DOMAIN outcome' = Message
             /\ \A m \in Message : outcome'[m] \in {"COMPLETED", "DUPLICATE_TASK"} =>
                  outcome[m] \in {"COMPLETED", "DUPLICATE_TASK"} \/ Evidenced(TaskOf[m])
  BY <1>2 DEF TaskAt
<1>3. ASSUME NEW w \in Worker, Handle(w)
      PROVE  \/ UNCHANGED outcome
             \/ \E why : /\ outcome' = [outcome EXCEPT ![worker[w].msg] = why]
                         /\ why \in {"COMPLETED", "DUPLICATE_TASK"} => Evidenced(TaskAt(w))
  <2>1. CASE Reserve(w)
    <3>1. CASE UNCHANGED outcome
      BY <3>1
    <3>2. CASE Acknowledge(w, ReserveReason(TaskAt(w), ProviderOf[TaskAt(w)]))
      <4> DEFINE why == ReserveReason(TaskAt(w), ProviderOf[TaskAt(w)])
      <4>1. why = "DUPLICATE_TASK" => TaskAt(w) \in DOMAIN recent_task_keys
        BY DEF ReserveReason
      <4>2. why # "COMPLETED"
        BY DEF ReserveReason
      <4> HIDE DEF why
      <4>3. outcome' = [outcome EXCEPT ![worker[w].msg] = why]
        BY <3>2 DEF Acknowledge, why
      <4> QED BY <4>1, <4>2, <4>3 DEF DoneIsEvidenced
    <3> QED BY <2>1, <3>1, <3>2 DEF Reserve, queueVars
  <2>2. CASE ReleaseNoUrl(w)
    BY <2>2 DEF ReleaseNoUrl, Acknowledge, queueVars
  <2>3. CASE Scorecard(w)
    <3>1. Evidenced(TaskAt(w))
      BY <2>3, HandlerFacts DEF Scorecard, At, HandlerOK, TaskAt
    <3> QED BY <2>3, <3>1 DEF Scorecard, Acknowledge, queueVars
  <2>4. CASE ~(Reserve(w) \/ ReleaseNoUrl(w) \/ Scorecard(w))
    BY <1>3, <2>4 DEF Handle, Acquire, PutRaw, PutStaging, Commit, Observe, FailRelease,
         FailScorecard, FailDlq, FailBreaker, CatchRelease, CatchObserve, CatchDlq, Retry, Requeue,
         queueVars
  <2> QED BY <2>1, <2>2, <2>3, <2>4
<1>4. CASE \/ \E m \in Message : Send(m) \/ Redeliver(m)
           \/ \E w \in Worker, m \in Message : Deliver(w, m)
           \/ \E w \in Worker : Crash(w)
           \/ GovernorStep
  BY <1>1, <1>4 DEF Send, Redeliver, Deliver, Crash, Requeue, GovernorStep, queueVars
<1>5. CASE UNCHANGED fqVars
  BY <1>1, <1>5 DEF fqVars, queueVars
<1> QED BY <1>1, <1>2, <1>3, <1>4, <1>5 DEF FQNext

EvidenceInv == HandlersInv /\ DOMAIN outcome = Message /\ DoneIsEvidenced

\* Every step keeps what was committed evidenced.
LEMMA StepEvidence == GovInv /\ EvidenceInv /\ [FQNext]_fqVars => EvidenceInv'
<1> SUFFICES ASSUME GovInv, EvidenceInv, [FQNext]_fqVars PROVE EvidenceInv'
  OBVIOUS
<1> USE DEF EvidenceInv
<1>1. HandlersInv' /\ EvidenceGrows
  BY StepHandlers
<1>2. \A t \in Task : Evidenced(t) => Evidenced(t)'
  BY <1>1, EvidencedStays
<1>3. DOMAIN recent_task_keys \subseteq Task
  BY DEF GovInv, TypeOK
<1>4. \A t \in DOMAIN recent_task_keys' : Evidenced(t)'
  BY <1>2, <1>3, DoneByCommit DEF DoneIsEvidenced
<1>5. \A m \in Message : TaskOf[m] \in Task
  BY MappingAssumption
<1>6. \A m \in Message : outcome'[m] \in {"COMPLETED", "DUPLICATE_TASK"} => Evidenced(TaskOf[m])'
  BY <1>2, <1>5, DoneByHandler DEF DoneIsEvidenced
<1>7. \A e \in Event : observation_state'[e].seen => \E t \in Task : EventOf[t] = e /\ Evidenced(t)'
  BY <1>2, DoneByCommit DEF DoneIsEvidenced
<1> QED BY <1>1, <1>4, <1>6, <1>7, DoneByHandler DEF DoneIsEvidenced

(* What the Governor calls done has its raw object and its staged          *)
(* observation, whichever handlers die, answers are lost and leases lapse. *)
THEOREM EvidenceIsKept == FQSpec => []DoneIsEvidenced
<1>1. FQSpec => []GovInv
  BY ConsumersUseTheGovernor, GovernorInv, PTL
<1>2. FQInit => EvidenceInv
  <2> SUFFICES ASSUME FQInit PROVE EvidenceInv
    OBVIOUS
  <2>1. DOMAIN recent_task_keys = {} /\ \A e \in Event : ~observation_state[e].seen
    BY DEF FQInit, Init, EmptyMap, NoObservation
  <2>2. DOMAIN outcome = Message /\ \A m \in Message : outcome[m] = "none"
    BY DEF FQInit
  <2> QED BY <2>1, <2>2, InitHandlers DEF EvidenceInv, DoneIsEvidenced
<1>3. EvidenceInv => DoneIsEvidenced
  BY DEF EvidenceInv
<1> QED BY <1>1, <1>2, <1>3, StepEvidence, PTL DEF FQSpec

-----------------------------------------------------------------------------
(* The spend of the day, and who may still add a page to it.               *)
WorkingSteps == {"no_url", "acquire", "raw", "staging", "commit"}

SpendInv ==
    /\ OverspendBounded
    /\ Spenders # {} => DailyBudget >= 1

\* The number of workers in a set, and in it without one of them.
LEMMA SpenderFacts ==
    ASSUME NEW S, S \subseteq Worker
    PROVE  /\ IsFiniteSet(S) /\ Cardinality(S) \in Nat /\ Cardinality(Worker) \in Nat
           /\ Cardinality(S) <= Cardinality(Worker) /\ Cardinality(Worker) >= 1
           /\ \A T \in SUBSET S : Cardinality(T) \in Nat /\ Cardinality(T) <= Cardinality(S)
           /\ \A w \in S : Cardinality(S \ {w}) = Cardinality(S) - 1 /\ Cardinality(S) >= 1
<1>1. IsFiniteSet(S) /\ IsFiniteSet(Worker)
  BY WorkerAssumption, FS_Subset
<1>2. Cardinality(Worker) \in Nat /\ Cardinality(Worker) # 0
  BY <1>1, WorkerAssumption, FS_CardinalityType, FS_EmptySet
<1>3. Cardinality(S) \in Nat /\ Cardinality(S) <= Cardinality(Worker)
  BY <1>1, FS_CardinalityType, FS_Subset
<1>4. \A T \in SUBSET S : Cardinality(T) \in Nat /\ Cardinality(T) <= Cardinality(S)
  BY <1>1, SubsetFacts
<1>5. ASSUME NEW w \in S PROVE Cardinality(S \ {w}) = Cardinality(S) - 1 /\ Cardinality(S) >= 1
  <2>1. Cardinality(S \ {w}) = Cardinality(S) - 1
    BY <1>1, FS_RemoveElement
  <2>2. Cardinality(S) # 0
    BY <1>1, FS_EmptySet
  <2> QED BY <1>3, <2>1, <2>2
<1> QED BY <1>1, <1>2, <1>3, <1>4, <1>5

(* The kinds of steps of the day's spend: nobody new spends, one is        *)
(* admitted while the day has room, one commits, or the day begins anew.   *)
LEMMA SpendKinds ==
    ASSUME HandlersInv, GovInv, [FQNext]_fqVars
    PROVE  \/ daily_spend' = daily_spend /\ Spenders' \subseteq Spenders
           \/ daily_spend' = daily_spend /\ daily_spend <= DailyBudget - 1
           \/ \E w \in Spenders : /\ daily_spend' \in {daily_spend, daily_spend + 1}
                                  /\ Spenders' \subseteq Spenders \ {w}
           \/ daily_spend' = 0 /\ Spenders' \subseteq Spenders
<1>1. ASSUME NEW w \in Worker, NEW h, worker' = [worker EXCEPT ![w] = h]
      PROVE  /\ h.pc \notin WorkingSteps => Spenders' \subseteq Spenders \ {w}
             /\ Working(w) => Spenders' \subseteq Spenders
  <2>1. \A v \in Worker : worker'[v] = IF v = w THEN h ELSE worker[v]
    BY <1>1 DEF HandlersInv
  <2> QED BY <2>1 DEF Spenders, Working, WorkingSteps
<1>2. ASSUME NEW w \in Worker, NEW step, Goto(w, step)
      PROVE  /\ step \notin WorkingSteps => Spenders' \subseteq Spenders \ {w}
             /\ Working(w) => Spenders' \subseteq Spenders
  <2>1. PICK h : h = [worker[w] EXCEPT !.pc = step]
    OBVIOUS
  <2>2. worker' = [worker EXCEPT ![w] = h]
    BY <1>2, <2>1 DEF Goto
  <2>3. h.pc = step
    BY <2>1 DEF HandlersInv, HandlerOK, Handlers
  <2> QED BY <1>1, <2>2, <2>3
<1>3. ASSUME NEW w \in Worker, worker' = [worker EXCEPT ![w] = Idle]
      PROVE  Spenders' \subseteq Spenders \ {w}
  <2>1. PICK h : h = Idle
    OBVIOUS
  <2>2. h.pc \notin WorkingSteps
    BY <2>1 DEF Idle, WorkingSteps
  <2> QED BY <1>1, <1>3, <2>1, <2>2
<1>4. ASSUME NEW w \in Worker, Reserve(w)
      PROVE  \/ daily_spend' = daily_spend /\ Spenders' \subseteq Spenders
             \/ daily_spend' = daily_spend /\ daily_spend <= DailyBudget - 1
  <2>1. daily_spend' = daily_spend
    BY <1>4 DEF Reserve, Await, ReserveTask, vars, govVars, ledgerVars, spendVars
  <2>2. CASE ReserveReason(TaskAt(w), ProviderOf[TaskAt(w)]) = "ALLOWED"
    <3>1. ~OverDay
      BY <2>2 DEF ReserveReason
    <3>2. totalReserved \in Nat /\ daily_spend \in Nat /\ DailyBudget \in Nat
      BY ReservationFacts, BudgetAssumption DEF GovInv, TypeOK, totalReserved
    <3> QED BY <2>1, <3>1, <3>2 DEF OverDay
  <2>3. CASE ReserveReason(TaskAt(w), ProviderOf[TaskAt(w)]) # "ALLOWED"
    <3>1. worker' = [worker EXCEPT ![w] = Idle] \/ Goto(w, "c_release")
      BY <1>4, <2>3 DEF Reserve, Acknowledge
    <3> QED BY <1>2, <1>3, <2>1, <3>1 DEF WorkingSteps
  <2> QED BY <2>2, <2>3
<1>5. ASSUME NEW w \in Worker, Commit(w)
      PROVE  \E v \in Spenders : /\ daily_spend' \in {daily_spend, daily_spend + 1}
                                 /\ Spenders' \subseteq Spenders \ {v}
  <2>1. w \in Spenders
    BY <1>5 DEF Commit, At, Spenders, Working
  <2>2. worker[w].cost \in {0, 1} /\ daily_spend \in Nat
    BY HandlerFacts DEF GovInv, TypeOK
  <2>3. daily_spend' \in {daily_spend, daily_spend + worker[w].cost}
    BY <1>5 DEF Commit, Await, CommitTask, vars, govVars, ledgerVars, spendVars
  <2>4. Goto(w, "observe") \/ Goto(w, "c_release")
    BY <1>5 DEF Commit, Await
  <2>5. Spenders' \subseteq Spenders \ {w}
    BY <1>2, <2>4 DEF WorkingSteps
  <2> QED BY <2>1, <2>2, <2>3, <2>5
<1>6. ASSUME NEW w \in Worker, Handle(w), ~Reserve(w), ~Commit(w)
      PROVE  daily_spend' = daily_spend /\ Spenders' \subseteq Spenders
  <2>1. daily_spend' = daily_spend
    BY <1>6 DEF Handle, ReleaseNoUrl, Acquire, PutRaw, PutStaging, Observe, Scorecard, FailRelease,
         FailScorecard, FailDlq, FailBreaker, CatchRelease, CatchObserve, CatchDlq, Retry, Requeue,
         Await, ReleaseTask, RecordObservation, RecordFailure, vars, govVars, ledgerVars, spendVars
  <2>2. CASE Acquire(w)
    <3>1. Working(w)
      BY <2>2 DEF Acquire, At, Working
    <3>2. ASSUME NEW price, worker' = [worker EXCEPT ![w].pc = "raw", ![w].cost = price]
          PROVE  Spenders' \subseteq Spenders
      <4>1. PICK h : h = [worker[w] EXCEPT !.pc = "raw", !.cost = price]
        OBVIOUS
      <4>2. worker' = [worker EXCEPT ![w] = h]
        BY <3>2, <4>1 DEF HandlersInv
      <4> QED BY <1>1, <3>1, <4>2
    <3> QED BY <1>2, <2>1, <2>2, <3>1, <3>2 DEF Acquire
  <2>3. CASE PutRaw(w) \/ PutStaging(w)
    <3>1. Working(w) /\ \E step \in {"staging", "commit", "c_release"} : Goto(w, step)
      BY <2>3 DEF PutRaw, PutStaging, At, Working, Await
    <3> QED BY <1>2, <2>1, <3>1
  <2>4. CASE ~(Acquire(w) \/ PutRaw(w) \/ PutStaging(w))
    <3>1. \/ worker' = [worker EXCEPT ![w] = Idle]
          \/ \E step \in {"scorecard", "f_scorecard", "f_dlq", "f_breaker", "retry", "c_release",
                          "c_observe", "c_dlq"} : Goto(w, step)
      BY <1>6, <2>4 DEF Handle, ReleaseNoUrl, Observe, Scorecard, FailRelease, FailScorecard,
           FailDlq, FailBreaker, CatchRelease, CatchObserve, CatchDlq, Retry, Requeue, Await,
           Acknowledge
    <3> QED BY <1>2, <1>3, <2>1, <3>1 DEF WorkingSteps
  <2> QED BY <2>2, <2>3, <2>4
<1>7. CASE GovernorStep
  <2>1. UNCHANGED worker /\ daily_spend' \in {daily_spend, 0}
    BY <1>7 DEF GovernorStep, Tick, Restart, ResetState, govVars, ledgerVars, spendVars
  <2> QED BY <2>1 DEF Spenders, Working
<1>8. CASE \/ \E m \in Message : Send(m) \/ Redeliver(m)
           \/ \E w \in Worker, m \in Message : Deliver(w, m)
           \/ \E w \in Worker : Crash(w)
  <2>1. daily_spend' = daily_spend
    BY <1>8 DEF Send, Redeliver, Deliver, Crash, Requeue, vars, govVars, ledgerVars, spendVars
  <2>2. CASE UNCHANGED worker
    BY <2>1, <2>2 DEF Spenders, Working
  <2>3. ASSUME NEW w \in Worker, Crash(w) PROVE Spenders' \subseteq Spenders
    BY <1>3, <2>3 DEF Crash, Requeue
  <2>4. ASSUME NEW w \in Worker, NEW m \in Message, Deliver(w, m) PROVE Spenders' \subseteq Spenders
    <3>1. PICK h : h = [pc |-> "reserve", msg |-> m, cost |-> 0]
      OBVIOUS
    <3>2. worker' = [worker EXCEPT ![w] = h] /\ h.pc \notin WorkingSteps
      BY <2>4, <3>1 DEF Deliver, WorkingSteps
    <3> QED BY <1>1, <3>2
  <2> QED BY <1>8, <2>1, <2>2, <2>3, <2>4 DEF Send, Redeliver
<1>9. CASE UNCHANGED fqVars
  BY <1>9 DEF fqVars, vars, govVars, ledgerVars, spendVars, Spenders, Working
<1> QED BY <1>4, <1>5, <1>6, <1>7, <1>8, <1>9 DEF FQNext

\* Every step keeps the spending accounted for.
LEMMA StepSpend == HandlersInv /\ GovInv /\ GovInv' /\ SpendInv /\ [FQNext]_fqVars => SpendInv'
<1> SUFFICES ASSUME HandlersInv, GovInv, GovInv', SpendInv, [FQNext]_fqVars PROVE SpendInv'
  OBVIOUS
<1> DEFINE excess == DailyBudget + Cardinality(Worker) - 1
<1>1. daily_spend \in Nat /\ daily_spend' \in Nat /\ DailyBudget \in Nat
  BY BudgetAssumption DEF GovInv, TypeOK
<1>2. Spenders \subseteq Worker /\ Spenders' \subseteq Worker
  BY DEF Spenders
<1>3. /\ Cardinality(Spenders) \in Nat /\ Cardinality(Spenders') \in Nat
      /\ Cardinality(Worker) \in Nat /\ Cardinality(Worker) >= 1
      /\ Cardinality(Spenders) <= Cardinality(Worker)
      /\ Cardinality(Spenders') <= Cardinality(Worker)
  BY <1>2, SpenderFacts
<1>4. daily_spend <= excess /\ (Spenders # {} => daily_spend + Cardinality(Spenders) <= excess)
  BY DEF SpendInv, OverspendBounded
<1>5. SUFFICES /\ daily_spend' <= excess
               /\ Spenders' # {} => daily_spend' + Cardinality(Spenders') <= excess
               /\ Spenders' # {} => DailyBudget >= 1
  BY DEF SpendInv, OverspendBounded
<1>6. CASE daily_spend' = daily_spend /\ Spenders' \subseteq Spenders
  <2>1. Cardinality(Spenders') <= Cardinality(Spenders)
    BY <1>2, <1>6, SpenderFacts
  <2> QED BY <1>1, <1>3, <1>4, <1>6, <2>1 DEF SpendInv
<1>7. CASE daily_spend' = daily_spend /\ daily_spend <= DailyBudget - 1
  BY <1>1, <1>3, <1>4, <1>7
<1>8. ASSUME NEW w \in Spenders, daily_spend' \in {daily_spend, daily_spend + 1},
             Spenders' \subseteq Spenders \ {w}
      PROVE  /\ daily_spend' <= excess
             /\ Spenders' # {} => daily_spend' + Cardinality(Spenders') <= excess
             /\ Spenders' # {} => DailyBudget >= 1
  <2>1. Cardinality(Spenders') <= Cardinality(Spenders \ {w})
    BY <1>2, <1>8, SpenderFacts
  <2>2. /\ Spenders # {} /\ Cardinality(Spenders) >= 1
        /\ Cardinality(Spenders \ {w}) = Cardinality(Spenders) - 1
    BY <1>2, <1>8, SpenderFacts
  <2> QED BY <1>1, <1>3, <1>4, <1>8, <2>1, <2>2 DEF SpendInv
<1>9. CASE daily_spend' = 0 /\ Spenders' \subseteq Spenders
  BY <1>1, <1>3, <1>9 DEF SpendInv
<1> QED BY <1>6, <1>7, <1>8, <1>9, SpendKinds

(* The recorded spend of a day exceeds its budget by less than one page    *)
(* for each handler, whatever leases, restarts and resets forget.          *)
THEOREM OverspendIsBounded == FQSpec => []OverspendBounded
<1>1. FQSpec => []HandlersInv
  BY InitHandlers, StepHandlers, PTL DEF FQSpec
<1>2. FQSpec => []GovInv
  BY ConsumersUseTheGovernor, GovernorInv, PTL
<1>3. FQInit => SpendInv
  <2> SUFFICES ASSUME FQInit PROVE SpendInv
    OBVIOUS
  <2>1. daily_spend = 0 /\ \A w \in Worker : worker[w] = Idle
    BY DEF FQInit, Init
  <2>2. Spenders = {}
    BY <2>1 DEF Spenders, Working, Idle
  <2>3. Cardinality(Worker) \in Nat /\ Cardinality(Worker) >= 1
    BY SpenderFacts
  <2> QED BY <2>1, <2>2, <2>3, BudgetAssumption DEF SpendInv, OverspendBounded
<1>4. SpendInv => OverspendBounded
  BY DEF SpendInv
<1> QED BY <1>1, <1>2, <1>3, <1>4, StepSpend, PTL DEF FQSpec

-----------------------------------------------------------------------------
(* No reservation leaks while nothing fails: whoever made it is at a step  *)
(* from which every path gives it back.                                    *)
HoldingSteps == WorkingSteps \cup {"f_release", "c_release"}
Holding(w) == worker[w].pc \in HoldingSteps

LeakInv ==
    /\ faults \in Nat
    /\ faults = 0 => \A t \in reservations : \E w \in Worker : Holding(w) /\ TaskAt(w) = t

(* A handler that goes on to another step works on the same message.       *)
LEMMA SameMessage ==
    ASSUME HandlersInv, NEW w \in Worker, NEW step, Goto(w, step)
    PROVE  /\ worker'[w].pc = step /\ worker'[w].msg = worker[w].msg
           /\ \A v \in Worker : v # w => worker'[v] = worker[v]
<1>1. PICK h : h = [worker[w] EXCEPT !.pc = step]
  OBVIOUS
<1>2. h.pc = step /\ h.msg = worker[w].msg
  BY <1>1 DEF HandlersInv, HandlerOK, Handlers
<1>3. worker' = [worker EXCEPT ![w] = h]
  BY <1>1 DEF Goto
<1> QED BY <1>2, <1>3 DEF HandlersInv

(* The holders that remain, once the step of w is taken into account.      *)
LEMMA HoldersRemain ==
    ASSUME HandlersInv, LeakInv, faults' = faults, NEW w \in Worker,
           \A v \in Worker : v # w => worker'[v] = worker[v],
           NEW S, S \subseteq reservations, reservations' \subseteq S \cup {TaskAt(w)},
           \/ worker'[w].pc \in HoldingSteps /\ worker'[w].msg = worker[w].msg
           \/ ~Holding(w) /\ reservations' \subseteq S
           \/ TaskAt(w) \notin reservations'
    PROVE  LeakInv'
<1>1. SUFFICES ASSUME faults = 0, NEW t \in reservations'
               PROVE  \E v \in Worker : Holding(v)' /\ TaskAt(v)' = t
  BY DEF LeakInv
<1>2. CASE worker'[w].pc \in HoldingSteps /\ worker'[w].msg = worker[w].msg /\ t = TaskAt(w)
  BY <1>2 DEF Holding, TaskAt
<1>3. CASE t \in S
  <2>1. PICK v \in Worker : Holding(v) /\ TaskAt(v) = t
    BY <1>1, <1>3 DEF LeakInv
  <2>2. CASE v # w
    BY <2>1, <2>2 DEF Holding, TaskAt
  <2>3. CASE v = w
    BY <1>1, <2>1, <2>3 DEF Holding, TaskAt
  <2> QED BY <2>2, <2>3
<1> QED BY <1>1, <1>2, <1>3

\* Without a fault, a step of a handler leaks no reservation.
LEMMA HandleLeaks ==
    ASSUME HandlersInv, GovInv, LeakInv, NEW w \in Worker, Handle(w), faults' = faults
    PROVE  LeakInv'
<1>1. CASE Reserve(w)
  <2>1. At(w, "reserve") /\ ~Holding(w)
    BY <1>1 DEF Reserve, At, Holding, HoldingSteps, WorkingSteps
  <2>2. faults' # faults + 1
    BY DEF LeakInv
  <2>3. CASE ReserveReason(TaskAt(w), ProviderOf[TaskAt(w)]) = "ALLOWED"
    <3>1. PICK step \in {"no_url", "acquire"} : Goto(w, step)
      BY <1>1, <2>2, <2>3 DEF Reserve, Await, Fault
    <3>2. ReserveTask(TaskAt(w), ProviderOf[TaskAt(w)])
      BY <1>1, <2>2, <2>3 DEF Reserve, Await, Fault
    <3>3. reservations' = LiveReservations \cup {TaskAt(w)} \/ reservations' = reservations
          \/ reservations' = LiveReservations
      BY <3>2 DEF ReserveTask, leaseVars
    <3>4. LiveReservations \subseteq reservations
      BY DEF LiveReservations
    <3>5. /\ worker'[w].pc \in HoldingSteps /\ worker'[w].msg = worker[w].msg
          /\ \A v \in Worker : v # w => worker'[v] = worker[v]
      BY <3>1, SameMessage DEF HoldingSteps, WorkingSteps
    <3> QED BY <3>3, <3>4, <3>5, HoldersRemain
  <2>4. CASE ReserveReason(TaskAt(w), ProviderOf[TaskAt(w)]) # "ALLOWED"
    <3>1. worker' = [worker EXCEPT ![w] = Idle] /\ ReserveTask(TaskAt(w), ProviderOf[TaskAt(w)])
      BY <1>1, <2>2, <2>4 DEF Reserve, Acknowledge, Fault
    <3>2. reservations' \subseteq reservations
      BY <2>4, <3>1 DEF ReserveTask, leaseVars, LiveReservations
    <3>3. \A v \in Worker : v # w => worker'[v] = worker[v]
      BY <3>1 DEF HandlersInv
    <3> QED BY <2>1, <3>2, <3>3, HoldersRemain
  <2> QED BY <2>3, <2>4
<1>2. CASE ReleaseNoUrl(w) \/ FailRelease(w) \/ CatchRelease(w) \/ Commit(w)
  <2>1. faults' # faults + 1
    BY DEF LeakInv
  <2>2. ReleaseTask(TaskAt(w)) \/ CommitTask(TaskAt(w), worker[w].cost)
    BY <1>2, <2>1 DEF ReleaseNoUrl, FailRelease, CatchRelease, Commit, Await, Fault
  <2>3. reservations' \subseteq reservations /\ TaskAt(w) \notin reservations'
    BY <2>2 DEF ReleaseTask, CommitTask, DropHold
  <2>4. worker' = [worker EXCEPT ![w] = Idle] \/ \E step \in Steps : Goto(w, step)
    BY <1>2 DEF ReleaseNoUrl, FailRelease, CatchRelease, Commit, Await, Acknowledge, Steps
  <2>5. \A v \in Worker : v # w => worker'[v] = worker[v]
    BY <2>4, SameMessage DEF HandlersInv
  <2> QED BY <2>3, <2>5, HoldersRemain
<1>3. CASE Acquire(w) \/ PutRaw(w) \/ PutStaging(w)
  <2>1. faults' # faults + 1
    BY DEF LeakInv
  <2>2. reservations' = reservations
    BY <1>3 DEF Acquire, PutRaw, PutStaging, vars, govVars, ledgerVars, leaseVars
  <2>3. ASSUME NEW step \in {"f_release", "c_release", "staging", "commit"}, Goto(w, step) PROVE LeakInv'
    <3>1. /\ worker'[w].pc \in HoldingSteps /\ worker'[w].msg = worker[w].msg
          /\ \A v \in Worker : v # w => worker'[v] = worker[v]
      BY <2>3, SameMessage DEF HoldingSteps, WorkingSteps
    <3> QED BY <2>2, <3>1, HoldersRemain
  <2>4. ASSUME NEW price, worker' = [worker EXCEPT ![w].pc = "raw", ![w].cost = price]
        PROVE  LeakInv'
    <3>1. PICK h : h = [worker[w] EXCEPT !.pc = "raw", !.cost = price]
      OBVIOUS
    <3>2. worker' = [worker EXCEPT ![w] = h]
      BY <2>4, <3>1 DEF HandlersInv
    <3>3. h.pc = "raw" /\ h.msg = worker[w].msg
      BY <3>1 DEF HandlersInv, HandlerOK, Handlers
    <3>4. /\ worker'[w].pc \in HoldingSteps /\ worker'[w].msg = worker[w].msg
          /\ \A v \in Worker : v # w => worker'[v] = worker[v]
      BY <3>2, <3>3 DEF HandlersInv, HoldingSteps, WorkingSteps
    <3> QED BY <2>2, <3>4, HoldersRemain
  <2> QED BY <1>3, <2>1, <2>3, <2>4 DEF Acquire, PutRaw, PutStaging, Await, Fault
<1>4. CASE \/ Observe(w) \/ Scorecard(w) \/ FailScorecard(w) \/ FailDlq(w) \/ FailBreaker(w)
           \/ CatchObserve(w) \/ CatchDlq(w) \/ Retry(w)
  <2>1. reservations' = reservations
    BY <1>4 DEF Observe, Scorecard, FailScorecard, FailDlq, FailBreaker, CatchObserve, CatchDlq,
         Retry, Requeue, Await, RecordObservation, RecordFailure, vars, govVars, ledgerVars, leaseVars
  <2>2. ~Holding(w)
    BY <1>4 DEF Observe, Scorecard, FailScorecard, FailDlq, FailBreaker, CatchObserve, CatchDlq,
         Retry, At, Holding, HoldingSteps, WorkingSteps
  <2>3. worker' = [worker EXCEPT ![w] = Idle] \/ \E step \in Steps : Goto(w, step)
    BY <1>4 DEF Observe, Scorecard, FailScorecard, FailDlq, FailBreaker, CatchObserve, CatchDlq,
         Retry, Requeue, Await, Acknowledge, Steps
  <2>4. \A v \in Worker : v # w => worker'[v] = worker[v]
    BY <2>3, SameMessage DEF HandlersInv
  <2> QED BY <2>1, <2>2, <2>4, HoldersRemain
<1> QED BY <1>1, <1>2, <1>3, <1>4 DEF Handle

\* So does every step.
LEMMA StepLeak == HandlersInv /\ GovInv /\ LeakInv /\ [FQNext]_fqVars => LeakInv'
<1> SUFFICES ASSUME HandlersInv, GovInv, LeakInv, [FQNext]_fqVars PROVE LeakInv'
  OBVIOUS
<1>1. CASE Fault
  BY <1>1 DEF Fault, LeakInv
<1>2. ASSUME NEW w \in Worker, Handle(w), faults' = faults PROVE LeakInv'
  BY <1>2, HandleLeaks
<1>3. ASSUME NEW w \in Worker, NEW m \in Message, Deliver(w, m) PROVE LeakInv'
  <2>1. PICK h : h = [pc |-> "reserve", msg |-> m, cost |-> 0]
    OBVIOUS
  <2>2. worker' = [worker EXCEPT ![w] = h] /\ h.pc = "reserve" /\ faults' = faults
    BY <1>3, <2>1 DEF Deliver
  <2>3. ~Holding(w) /\ reservations' = reservations
    BY <1>3 DEF Deliver, At, Holding, HoldingSteps, WorkingSteps, vars, govVars, ledgerVars, leaseVars
  <2>4. \A v \in Worker : v # w => worker'[v] = worker[v]
    BY <2>2 DEF HandlersInv
  <2> QED BY <2>2, <2>3, <2>4, HoldersRemain
<1>4. CASE /\ UNCHANGED <<worker, faults>> /\ reservations' \subseteq reservations
  BY <1>4 DEF LeakInv, Holding, TaskAt
<1>5. CASE GovernorStep
  BY <1>1, <1>4, <1>5 DEF GovernorStep, Tick, Restart, LiveReservations, govVars, ledgerVars, leaseVars
<1>6. CASE (\E m \in Message : Send(m) \/ Redeliver(m)) \/ (\E w \in Worker : Crash(w))
  BY <1>1, <1>4, <1>6 DEF Send, Redeliver, Crash, vars, govVars, ledgerVars, leaseVars
<1>7. CASE UNCHANGED fqVars
  BY <1>4, <1>7 DEF fqVars, vars, govVars, ledgerVars, leaseVars
<1>8. ASSUME NEW w \in Worker, Handle(w) PROVE Fault \/ faults' = faults
  BY <1>8 DEF Handle, Reserve, ReleaseNoUrl, Acquire, PutRaw, PutStaging, Commit, Observe,
     Scorecard, FailRelease, FailScorecard, FailDlq, FailBreaker, CatchRelease, CatchObserve,
     CatchDlq, Retry, Await
<1> QED BY <1>1, <1>2, <1>3, <1>5, <1>6, <1>7, <1>8 DEF FQNext

(* However a handler ends, no reservation is left behind, unless a call    *)
(* failed or a handler died.                                               *)
THEOREM ReservationsComeBack == FQSpec => []NoLeakWithoutFault
<1>1. FQSpec => []HandlersInv
  BY InitHandlers, StepHandlers, PTL DEF FQSpec
<1>2. FQSpec => []GovInv
  BY ConsumersUseTheGovernor, GovernorInv, PTL
<1>3. FQInit => LeakInv
  BY DEF FQInit, Init, LeakInv
<1>4. LeakInv => NoLeakWithoutFault
  BY DEF LeakInv, NoLeakWithoutFault, Holding, HoldingSteps, WorkingSteps
<1> QED BY <1>1, <1>2, <1>3, <1>4, StepLeak, PTL DEF FQSpec

-----------------------------------------------------------------------------
(* Who works on a task holds its lease, or has lost it; a task that was    *)
(* committed is remembered, or was forgotten.                              *)
ExclusiveInv ==
    /\ commits \in [Task -> Nat]
    /\ \A w \in Worker : Working(w) => TaskAt(w) \in DOMAIN active_leases \cup lapsed
    /\ \A t \in Task : commits[t] > 0 => t \in DOMAIN recent_task_keys \cup forgotten
    /\ ExclusiveUnlessLapsed

(* A handler is at work after a step if it was before, on the same task,   *)
(* or if it has just been granted its task.                                *)
Granted(w) ==
    /\ Reserve(w) /\ TaskAt(w) \notin DOMAIN active_leases
    /\ TaskAt(w) \in DOMAIN active_leases'

\* A task is at work only where it was, or where it has just been granted.
LEMMA WorkersGoOn ==
    ASSUME HandlersInv, [FQNext]_fqVars
    PROVE  \/ \A w \in Worker : Working(w)' => Working(w) /\ TaskAt(w)' = TaskAt(w)
           \/ \E w \in Worker : /\ Granted(w) /\ TaskAt(w)' = TaskAt(w)
                                /\ \A v \in Worker : v # w => worker'[v] = worker[v]
<1> DEFINE On == \A w \in Worker : Working(w)' => Working(w) /\ TaskAt(w)' = TaskAt(w)
<1>1. ASSUME NEW w \in Worker, NEW h, worker' = [worker EXCEPT ![w] = h],
             h.pc \in WorkingSteps => Working(w) /\ h.msg = worker[w].msg
      PROVE  On
  <2>1. \A v \in Worker : worker'[v] = IF v = w THEN h ELSE worker[v]
    BY <1>1 DEF HandlersInv
  <2> QED BY <1>1, <2>1 DEF Working, WorkingSteps, TaskAt
<1>2. ASSUME NEW w \in Worker, NEW step, Goto(w, step), step \in WorkingSteps => Working(w)
      PROVE  On
  <2>1. /\ worker'[w].pc = step /\ worker'[w].msg = worker[w].msg
        /\ \A v \in Worker : v # w => worker'[v] = worker[v]
    BY <1>2, SameMessage
  <2> QED BY <1>2, <2>1 DEF Working, WorkingSteps, TaskAt
<1>3. ASSUME NEW w \in Worker, worker' = [worker EXCEPT ![w] = Idle] PROVE On
  <2>1. PICK h : h = Idle
    OBVIOUS
  <2>2. h.pc \notin WorkingSteps
    BY <2>1 DEF Idle, WorkingSteps
  <2> QED BY <1>1, <1>3, <2>1, <2>2
<1>4. CASE UNCHANGED worker
  BY <1>4 DEF Working, TaskAt
<1>5. ASSUME NEW w \in Worker, Reserve(w)
      PROVE  On \/ (Granted(w) /\ \E step : Goto(w, step))
  <2>1. CASE worker' = [worker EXCEPT ![w] = Idle]
    BY <1>3, <2>1
  <2>2. CASE Goto(w, "c_release")
    BY <1>2, <2>2 DEF WorkingSteps
  <2>3. CASE /\ ReserveReason(TaskAt(w), ProviderOf[TaskAt(w)]) = "ALLOWED"
             /\ ReserveTask(TaskAt(w), ProviderOf[TaskAt(w)]) /\ \E step : Goto(w, step)
    <3>1. TaskAt(w) \notin DOMAIN active_leases /\ ~KnownTask(TaskAt(w))
      BY <2>3 DEF ReserveReason, KnownTask
    <3>2. TaskAt(w) \in DOMAIN active_leases'
      BY <2>3, <3>1 DEF ReserveTask, Leased
    <3> QED BY <1>5, <2>3, <3>1, <3>2 DEF Granted
  <2> QED BY <1>5, <2>1, <2>2, <2>3 DEF Reserve, Await, Acknowledge
<1>6. ASSUME NEW w \in Worker, Handle(w), ~Reserve(w) PROVE On
  <2>1. CASE Acquire(w)
    <3>1. Working(w)
      BY <2>1 DEF Acquire, At, Working
    <3>2. ASSUME NEW price, worker' = [worker EXCEPT ![w].pc = "raw", ![w].cost = price] PROVE On
      <4>1. PICK h : h = [worker[w] EXCEPT !.pc = "raw", !.cost = price]
        OBVIOUS
      <4>2. worker' = [worker EXCEPT ![w] = h]
        BY <3>2, <4>1 DEF HandlersInv
      <4>3. h.msg = worker[w].msg
        BY <4>1 DEF HandlersInv, HandlerOK, Handlers
      <4> QED BY <1>1, <3>1, <4>2, <4>3
    <3> QED BY <1>2, <2>1, <3>1, <3>2 DEF Acquire
  <2>2. CASE PutRaw(w) \/ PutStaging(w)
    <3>1. Working(w) /\ \E step : Goto(w, step)
      BY <2>2 DEF PutRaw, PutStaging, At, Working, Await
    <3> QED BY <1>2, <3>1
  <2>3. CASE ~(Acquire(w) \/ PutRaw(w) \/ PutStaging(w))
    <3>1. \/ worker' = [worker EXCEPT ![w] = Idle]
          \/ \E step \in {"observe", "scorecard", "f_scorecard", "f_dlq", "f_breaker", "retry",
                          "c_release", "c_observe", "c_dlq"} : Goto(w, step)
      BY <1>6, <2>3 DEF Handle, ReleaseNoUrl, Commit, Observe, Scorecard, FailRelease,
           FailScorecard, FailDlq, FailBreaker, CatchRelease, CatchObserve, CatchDlq, Retry,
           Requeue, Await, Acknowledge
    <3> QED BY <1>2, <1>3, <3>1 DEF WorkingSteps
  <2> QED BY <2>1, <2>2, <2>3
<1>7. ASSUME NEW w \in Worker, NEW m \in Message, Deliver(w, m) PROVE On
  <2>1. PICK h : h = [pc |-> "reserve", msg |-> m, cost |-> 0]
    OBVIOUS
  <2>2. worker' = [worker EXCEPT ![w] = h] /\ h.pc \notin WorkingSteps
    BY <1>7, <2>1 DEF Deliver, WorkingSteps
  <2> QED BY <1>1, <2>2
<1>8. ASSUME NEW w \in Worker, Crash(w) PROVE On
  BY <1>3, <1>8 DEF Crash, Requeue
<1>9. CASE UNCHANGED fqVars \/ GovernorStep \/ \E m \in Message : Send(m) \/ Redeliver(m)
  BY <1>4, <1>9 DEF fqVars, GovernorStep, Send, Redeliver
<1>10. ASSUME NEW w \in Worker, Granted(w), NEW step, Goto(w, step)
       PROVE  /\ TaskAt(w)' = TaskAt(w)
              /\ \A v \in Worker : v # w => worker'[v] = worker[v]
  BY <1>10, SameMessage DEF TaskAt
<1> HIDE DEF On
<1>11. CASE On
  BY <1>11 DEF On
<1> QED BY <1>5, <1>6, <1>7, <1>8, <1>9, <1>10, <1>11 DEF FQNext

(* Each step keeps the history of losses. *)
LEMMA LossesRecorded ==
    ASSUME ExclusiveInv, [FQNext]_fqVars
    PROVE  /\ lapsed \subseteq lapsed' /\ forgotten \subseteq forgotten'
           /\ \A w \in Worker : Working(w) /\ Working(w)' =>
                TaskAt(w) \in DOMAIN active_leases' \cup lapsed'
           /\ DOMAIN recent_task_keys \subseteq DOMAIN recent_task_keys' \cup forgotten'
<1>1. CASE RecordLoss
  BY <1>1 DEF RecordLoss
<1>2. CASE UNCHANGED fqVars
  <2>1. UNCHANGED <<active_leases, lapsed, forgotten, recent_task_keys, worker>>
    BY <1>2 DEF fqVars, lossVars, vars, govVars, ledgerVars, leaseVars
  <2> QED BY <2>1 DEF ExclusiveInv
<1> QED BY <1>1, <1>2 DEF FQNext

(* A commit is counted when the Governor accounts it.                      *)
LEMMA CommitsCounted ==
    ASSUME HandlersInv, [FQNext]_fqVars
    PROVE  \/ commits' = commits
           \/ \E w \in Worker : /\ At(w, "commit") /\ CommitTask(TaskAt(w), worker[w].cost)
                                /\ commits' = [commits EXCEPT ![TaskAt(w)] = @ + 1]
<1>1. ASSUME NEW w \in Worker, Commit(w)
      PROVE  \/ commits' = commits
             \/ /\ At(w, "commit") /\ CommitTask(TaskAt(w), worker[w].cost)
                /\ commits' = [commits EXCEPT ![TaskAt(w)] = @ + 1]
  BY <1>1 DEF Commit, Await
<1>2. ASSUME NEW w \in Worker, Handle(w), ~Commit(w) PROVE commits' = commits
  BY <1>2 DEF Handle, Reserve, ReleaseNoUrl, Acquire, PutRaw, PutStaging, Observe, Scorecard,
     FailRelease, FailScorecard, FailDlq, FailBreaker, CatchRelease, CatchObserve, CatchDlq, Retry,
     Requeue
<1>3. CASE \/ \E m \in Message : Send(m) \/ Redeliver(m)
           \/ \E w \in Worker, m \in Message : Deliver(w, m)
           \/ \E w \in Worker : Crash(w)
           \/ GovernorStep \/ UNCHANGED fqVars
  BY <1>3 DEF Send, Redeliver, Deliver, Crash, Requeue, GovernorStep, fqVars
<1> QED BY <1>1, <1>2, <1>3 DEF FQNext

(* A committed task is remembered: only an older key is pruned for it. *)
LEMMA CommitRemembers ==
    ASSUME NEW t, NEW cost, CommitTask(t, cost), t \notin DOMAIN recent_task_keys
    PROVE  t \in DOMAIN recent_task_keys'
BY DEF CommitTask, RememberKey, Completed, Restrict

\* Every step keeps a task with one worker.
LEMMA StepExclusive ==
    HandlersInv /\ GovInv /\ ExclusiveInv /\ [FQNext]_fqVars => ExclusiveInv'
<1> SUFFICES ASSUME HandlersInv, GovInv, ExclusiveInv, [FQNext]_fqVars PROVE ExclusiveInv'
  OBVIOUS
<1>1. /\ lapsed \subseteq lapsed' /\ forgotten \subseteq forgotten'
      /\ \A w \in Worker : Working(w) /\ Working(w)' =>
           TaskAt(w) \in DOMAIN active_leases' \cup lapsed'
      /\ DOMAIN recent_task_keys \subseteq DOMAIN recent_task_keys' \cup forgotten'
  BY LossesRecorded
<1>2. /\ \A w \in Worker : Working(w)' => TaskAt(w)' \in DOMAIN active_leases' \cup lapsed'
      /\ \A v, w \in Worker : v # w /\ Working(v)' /\ Working(w)' /\ TaskAt(v)' = TaskAt(w)' =>
           TaskAt(v)' \in lapsed'
  <2>1. CASE \A w \in Worker : Working(w)' => Working(w) /\ TaskAt(w)' = TaskAt(w)
    BY <1>1, <2>1 DEF ExclusiveInv, ExclusiveUnlessLapsed
  <2>2. ASSUME NEW w \in Worker, Granted(w), TaskAt(w)' = TaskAt(w),
               \A v \in Worker : v # w => worker'[v] = worker[v]
        PROVE  /\ \A u \in Worker : Working(u)' => TaskAt(u)' \in DOMAIN active_leases' \cup lapsed'
               /\ \A v, x \in Worker : v # x /\ Working(v)' /\ Working(x)' /\ TaskAt(v)' = TaskAt(x)' =>
                    TaskAt(v)' \in lapsed'
    <3>1. \A v \in Worker : v # w /\ Working(v)' => Working(v) /\ TaskAt(v)' = TaskAt(v)
      BY <2>2 DEF Working, TaskAt
    <3>2. TaskAt(w) \in DOMAIN active_leases' /\ TaskAt(w) \notin DOMAIN active_leases
      BY <2>2 DEF Granted
    <3>3. \A v \in Worker : v # w /\ Working(v)' /\ TaskAt(v) = TaskAt(w) => TaskAt(v) \in lapsed'
      BY <1>1, <3>1, <3>2 DEF ExclusiveInv
    <3> QED BY <1>1, <2>2, <3>1, <3>2, <3>3 DEF ExclusiveInv, ExclusiveUnlessLapsed
  <2> QED BY <2>1, <2>2, WorkersGoOn
<1>3. /\ commits' \in [Task -> Nat]
      /\ \A t \in Task : commits'[t] > 0 => t \in DOMAIN recent_task_keys' \cup forgotten'
      /\ \A t \in Task : commits'[t] > 1 => t \in lapsed' \cup forgotten'
  <2>1. CASE commits' = commits
    BY <1>1, <2>1 DEF ExclusiveInv, ExclusiveUnlessLapsed, Disturbed
  <2>2. ASSUME NEW w \in Worker, At(w, "commit"), CommitTask(TaskAt(w), worker[w].cost),
               commits' = [commits EXCEPT ![TaskAt(w)] = @ + 1]
        PROVE  /\ commits' \in [Task -> Nat]
               /\ \A t \in Task : commits'[t] > 0 => t \in DOMAIN recent_task_keys' \cup forgotten'
               /\ \A t \in Task : commits'[t] > 1 => t \in lapsed' \cup forgotten'
    <3>1. PICK t : t = TaskAt(w)
      OBVIOUS
    <3>2. t \in Task /\ t \in DOMAIN active_leases \cup lapsed
      BY <2>2, <3>1, HandlerFacts DEF At, Working, ExclusiveInv
    <3>3. t \in DOMAIN recent_task_keys => t \in lapsed
      BY <3>2 DEF GovInv, CompletedHoldNothing
    <3>4. t \notin DOMAIN recent_task_keys => t \in DOMAIN recent_task_keys'
      BY <2>2, <3>1, CommitRemembers
    <3>5. /\ commits' = [commits EXCEPT ![t] = @ + 1] /\ commits \in [Task -> Nat]
          /\ commits' \in [Task -> Nat]
      BY <2>2, <3>1, <3>2 DEF ExclusiveInv
    <3>6. \A s \in Task : s # t => commits'[s] = commits[s]
      BY <3>5
    <3>7. commits'[t] > 1 => t \in lapsed' \cup forgotten'
      <4>1. commits'[t] = commits[t] + 1 /\ commits[t] \in Nat
        BY <3>2, <3>5
      <4>2. commits'[t] > 1 => t \in DOMAIN recent_task_keys \cup forgotten
        BY <3>2, <4>1 DEF ExclusiveInv
      <4> QED BY <1>1, <3>3, <4>2
    <3>8. t \in DOMAIN recent_task_keys' \cup forgotten'
      BY <1>1, <3>4
    <3> QED BY <1>1, <3>5, <3>6, <3>7, <3>8 DEF ExclusiveInv, ExclusiveUnlessLapsed, Disturbed
  <2> QED BY <2>1, <2>2, CommitsCounted
<1> QED BY <1>2, <1>3 DEF ExclusiveInv, ExclusiveUnlessLapsed, Disturbed

(* A task is committed once, and worked on by one handler at a time,       *)
(* unless a lease ended while its holder was at work or its key was        *)
(* dropped; nothing else, no crash, retry or lost answer, does it.         *)
THEOREM ExclusiveButForLosses == FQSpec => []ExclusiveUnlessLapsed
<1>1. FQSpec => []HandlersInv
  BY InitHandlers, StepHandlers, PTL DEF FQSpec
<1>2. FQSpec => []GovInv
  BY ConsumersUseTheGovernor, GovernorInv, PTL
<1>3. FQInit => ExclusiveInv
  <2> SUFFICES ASSUME FQInit PROVE ExclusiveInv
    OBVIOUS
  <2>1. commits = [t \in Task |-> 0] /\ \A w \in Worker : worker[w] = Idle
    BY DEF FQInit
  <2>2. \A w \in Worker : ~Working(w)
    BY <2>1 DEF Working, Idle
  <2> QED BY <2>1, <2>2 DEF ExclusiveInv, ExclusiveUnlessLapsed
<1>4. ExclusiveInv => ExclusiveUnlessLapsed
  BY DEF ExclusiveInv
<1> QED BY <1>1, <1>2, <1>3, <1>4, StepExclusive, PTL DEF FQSpec

-----------------------------------------------------------------------------
(* Whatever is held is held under a lease that ends within one lease of    *)
(* now, and within one lease of the moment its last handler left it.       *)
StrandedInv ==
    /\ stranded \in [Task -> Nat]
    /\ \A t \in DOMAIN active_leases : active_leases[t] <= now + LeaseTicks
    /\ \A t \in DOMAIN active_leases : ~Worked(t) => active_leases[t] <= stranded[t] + LeaseTicks

(* A lease is new, of a task that had none, or the one there was: nothing  *)
(* prolongs it.                                                            *)
LEMMA LeasesAreNotProlonged ==
    ASSUME now \in Nat, [Next]_vars, NEW t \in DOMAIN active_leases'
    PROVE  \/ t \in DOMAIN active_leases /\ active_leases'[t] = active_leases[t]
           \/ /\ t \notin DOMAIN active_leases
              /\ active_leases'[t] = now + LeaseTicks /\ now' = now
<1>1. CASE UNCHANGED active_leases
  BY <1>1
<1>2. CASE active_leases' = LiveLeases
  BY <1>2 DEF LiveLeases, Restrict
<1>3. ASSUME NEW s \in Task, DropHold(s) PROVE t \in DOMAIN active_leases /\ active_leases'[t] = active_leases[t]
  BY <1>3 DEF DropHold, Restrict
<1>4. ASSUME NEW s \in Task, NEW p \in Provider, ReserveTask(s, p),
             ReserveReason(s, p) = "ALLOWED", active_leases' = Leased(s)
      PROVE  \/ t \in DOMAIN active_leases /\ active_leases'[t] = active_leases[t]
             \/ /\ t \notin DOMAIN active_leases
                /\ active_leases'[t] = now + LeaseTicks /\ now' = now
  <2>1. s \notin DOMAIN active_leases /\ now' = now
    BY <1>4 DEF ReserveTask, ReserveReason
  <2>2. t = s \/ (t \in DOMAIN active_leases /\ LiveLeases[t] = active_leases[t] /\ t \in DOMAIN LiveLeases)
    BY <1>4 DEF Leased, LiveLeases, Restrict
  <2>3. active_leases'[t] = IF t = s THEN now + LeaseTicks ELSE LiveLeases[t]
    BY <1>4, <2>2 DEF Leased
  <2> QED BY <2>1, <2>2, <2>3
<1>5. CASE active_leases' = EmptyMap
  BY <1>5 DEF EmptyMap
<1>6. ASSUME NEW s \in Task, NEW p \in Provider, ReserveTask(s, p)
      PROVE  UNCHANGED active_leases \/ active_leases' = LiveLeases
             \/ (ReserveReason(s, p) = "ALLOWED" /\ active_leases' = Leased(s))
  BY <1>6 DEF ReserveTask, leaseVars
<1>7. CASE Tick \/ Restart \/ ResetState \/ UNCHANGED vars
  BY <1>1, <1>2, <1>5, <1>7 DEF Tick, Restart, ResetState, vars, govVars, ledgerVars, leaseVars
<1>8. CASE Call
  BY <1>1, <1>2, <1>3, <1>4, <1>6, <1>8 DEF Call, CommitTask, ReleaseTask, RecordObservation,
     RecordFailure, RecordSuccess, RecordRateLimit, ledgerVars, leaseVars
<1> QED BY <1>7, <1>8 DEF Next

(* What is held without a handler at work, after a step, was so before, or *)
(* has been since this very step.                                          *)
LEMMA StepStranded == GovInv /\ GovInv' /\ StrandedInv /\ [Next]_vars /\ [FQNext]_fqVars => StrandedInv'
<1> SUFFICES ASSUME GovInv, GovInv', StrandedInv, [Next]_vars, [FQNext]_fqVars PROVE StrandedInv'
  OBVIOUS
<1>1. now \in Nat /\ now' \in Nat /\ LeaseTicks \in Nat /\ now' >= now
  BY TimeAssumption DEF GovInv, TypeOK, Next, Call, Tick, ResetState, Restart, vars,
     ReserveTask, CommitTask, ReleaseTask, RecordObservation, RecordFailure, RecordSuccess,
     RecordRateLimit
<1>2. CASE UNCHANGED fqVars
  BY <1>2 DEF fqVars, lossVars, vars, govVars, ledgerVars, leaseVars, StrandedInv, Worked, Working, TaskAt
<1>3. CASE RecordLoss
  <2>1. stranded' \in [Task -> Nat]
    BY <1>1, <1>3 DEF RecordLoss, StrandedInv
  <2>2. ASSUME NEW t \in DOMAIN active_leases'
        PROVE  /\ active_leases'[t] <= now' + LeaseTicks
               /\ ~Worked(t)' => active_leases'[t] <= stranded'[t] + LeaseTicks
    <3>1. t \in Task /\ active_leases'[t] \in Nat /\ stranded[t] \in Nat
      BY DEF GovInv, TypeOK, StrandedInv
    <3>2. ~Worked(t)' => stranded'[t] = IF Held(t) /\ ~Worked(t) THEN stranded[t] ELSE now
      BY <1>3, <3>1 DEF RecordLoss, Held
    <3>3. CASE t \in DOMAIN active_leases /\ active_leases'[t] = active_leases[t]
      <4>1. Held(t) /\ active_leases[t] <= now + LeaseTicks
            /\ (~Worked(t) => active_leases[t] <= stranded[t] + LeaseTicks)
        BY <3>3 DEF Held, StrandedInv
      <4> QED BY <1>1, <3>1, <3>2, <3>3, <4>1
    <3>4. CASE t \notin DOMAIN active_leases /\ active_leases'[t] = now + LeaseTicks /\ now' = now
      <4>1. ~Held(t)
        BY <3>4 DEF Held, GovInv, ReservationsAreLeased
      <4> QED BY <1>1, <3>2, <3>4, <4>1
    <3> QED BY <1>1, <3>3, <3>4, LeasesAreNotProlonged
  <2> QED BY <2>1, <2>2 DEF StrandedInv
<1> QED BY <1>2, <1>3 DEF FQNext

(* What a handler strands, by whatever fault, is counted for one lease     *)
(* from then on and no longer.                                             *)
THEOREM StrandedHoldsEnd == FQSpec => []StrandedHoldsLapse
<1>1. FQSpec => [][Next]_vars
  BY InitHandlers, StepHandlers, StepCalls, PTL DEF FQSpec
<1>2. FQSpec => []GovInv
  BY ConsumersUseTheGovernor, GovernorInv, PTL
<1>3. FQInit => StrandedInv
  BY DEF FQInit, Init, EmptyMap, StrandedInv
<1>4. GovInv /\ StrandedInv => StrandedHoldsLapse
  <2> SUFFICES ASSUME GovInv, StrandedInv, NEW t \in LiveReservations \cup DOMAIN LiveLeases, ~Worked(t)
               PROVE  now <= stranded[t] + LeaseTicks
    BY DEF StrandedHoldsLapse
  <2>1. t \in DOMAIN active_leases /\ t \notin Stale /\ t \in Task
    BY DEF GovInv, TypeOK, ReservationsAreLeased, LiveReservations, LiveLeases, Restrict
  <2>2. /\ active_leases[t] \in Nat /\ stranded[t] \in Nat /\ now \in Nat /\ LeaseTicks \in Nat
        /\ active_leases[t] <= stranded[t] + LeaseTicks
    BY <2>1, TimeAssumption DEF GovInv, TypeOK, StrandedInv
  <2> QED BY <2>1, <2>2 DEF Stale
<1> QED BY <1>1, <1>2, <1>3, <1>4, StepStranded, PTL DEF FQSpec
===============================================================================
