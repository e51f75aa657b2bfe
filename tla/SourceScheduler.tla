---------------------------- MODULE SourceScheduler ----------------------------
(***************************************************************************)
(* The automatic acquisition lane (cloud-runtime/src/source-scheduler.ts): *)
(* a tick of the cron looks at the two spotlight families in turn, reads   *)
(* the durable state of each, observes the job in flight, decides, fires   *)
(* at most one batch job and writes the state back.  The state is one R2   *)
(* object per family, read and written without a version check; every      *)
(* await ends a step, so ticks that overlap interleave, and a tick may die *)
(* anywhere.                                                               *)
(* A job id holds the second of its tick: two ticks are taken to start in  *)
(* different seconds, so each job has an id and a container of its own.    *)
(*                                                                         *)
(* A job is known by what its manifest says (batch_jobs.py): nothing yet   *)
(* or RUNNING, PUBLISHED with the whole cohort or with artists skipped on  *)
(* a 429, published or not but stopped by the quota, BUILD_COMPLETE with   *)
(* no row (after a 429 for every artist, or because there is nothing new), *)
(* or FAILED.  None of these manifests carries the counts that             *)
(* classifyJobOutcome would turn into RATE_LIMITED, so that outcome is not *)
(* in the model.  The rate cooldown of Wikimedia (a minute at most) is     *)
(* below the model's unit of time.                                         *)
(***************************************************************************)
EXTENDS Integers, Sequences, Functions

CONSTANTS
    Ticker,         \* concurrent invocations of the scheduled handler
    Families,       \* "wikimedia" and "spotify" in the order of runTick, or one of
                    \* them: they share no state, and a model may look at one
    Interval,       \* family -> hours between attempts
    InFlightTicks,  \* SOURCE_INFLIGHT_TIMEOUT_HOURS
    FailureTicks,   \* WIKIMEDIA_BACKOFF_SECONDS, for either family
    QuotaTicks,     \* SPOTIFY_BACKOFF_SECONDS_QUOTA
    DayTicks,       \* a day, for the admissible day of Wikimedia
    Universe,       \* number of Spotify identities
    Cohort,         \* SPOTIFY_COHORT_SIZE
    MaxTime, MaxJobs, MaxFaults   \* bounds of the model

Family == Range(Families)

ASSUME DurationAssumption ==
    /\ Families \in Seq({"wikimedia", "spotify"}) /\ Families # << >>
    /\ Interval \in [Family -> Nat]
    /\ {InFlightTicks, FailureTicks, QuotaTicks, DayTicks, Universe, Cohort} \subseteq Nat \ {0}
ASSUME BoundAssumption == {MaxTime, MaxJobs, MaxFaults} \subseteq Nat

VARIABLES
    now,
    store,       \* family -> control/source-state/<family>.json
    gold_day,    \* the last day the Wikimedia Gold covers
    jobs,        \* the jobs fired, in order
    ticker,      \* ticker -> [pc, turn, at, gold, st]: a tick and what it has read
    faults,      \* faults so far
    covered,     \* history: Spotify identities in a cohort that was published
    marked,      \* history: jobs whose in-flight mark reached the store
    blanked,     \* history: families whose state was taken for empty
    retry_after  \* history: family -> end of the latest backoff that was stored

vars == <<now, store, gold_day, jobs, ticker, faults, covered, marked, blanked,
          retry_after>>
historyVars == <<covered, marked, blanked, retry_after>>

NoTime == -1       \* null
NoJob  == 0

(* emptySourceState *)
EmptyState == [cursor |-> 0, next_due |-> NoTime, backoff |-> NoTime, quota_backoff |-> NoTime,
               last_attempt |-> NoTime, in_flight |-> NoJob, requested_at |-> NoTime]

Manifests == {"none", "running", "published", "skipped", "truncated", "limited", "empty", "failed"}

Idle == [pc |-> "idle", turn |-> 1, at |-> 0, gold |-> NoTime, st |-> EmptyState]

Init ==
    /\ now = 0
    /\ store = [f \in Family |-> EmptyState]
    /\ gold_day = NoTime
    /\ jobs = <<>>
    /\ ticker = [t \in Ticker |-> Idle]
    /\ faults = 0
    /\ covered = {} /\ marked = {} /\ blanked = {}
    /\ retry_after = [f \in Family |-> NoTime]

Fault == faults < MaxFaults /\ faults' = faults + 1

-----------------------------------------------------------------------------
(* Decisions *)

Clear(st) == [st EXCEPT !.in_flight = NoJob, !.requested_at = NoTime]

(* mutants of the window: it never ends, or ends a tick early *)
WindowStays(st, time) == TRUE
WindowShort(st, time) == time - st.requested_at < InFlightTicks - 1

(* is the job in flight still within its window at time? *)
WithinWindow(st, time) == time - st.requested_at < InFlightTicks

(* next_due_at, or the last attempt and the interval where there is none *)
CadenceHolds(f, st, time) ==
    IF st.next_due # NoTime THEN time < st.next_due
    ELSE st.last_attempt # NoTime /\ time - st.last_attempt < Interval[f]

(* mutant: the in-flight guard alone *)
HeldByJob(st, time) == st.in_flight # NoJob /\ WithinWindow(st, time)

Held(st, time) ==
    \/ time < st.backoff \/ time < st.quota_backoff
    \/ st.in_flight # NoJob /\ WithinWindow(st, time)

(* deriveLatestAdmissible: the day before *)
LatestAdmissible(time) == time \div DayTicks - 1

(* decideWikimediaTrigger, decideSpotifyTrigger.  Without a Gold the first *)
(* fires whatever the cadence says.                                        *)
ShouldTrigger(f, st, gold, time) ==
    /\ ~Held(st, time)
    /\ IF f = "wikimedia"
       THEN \/ gold = NoTime
            \/ LatestAdmissible(time) > gold /\ ~CadenceHolds(f, st, time)
       ELSE ~CadenceHolds(f, st, time)

CursorUnwrapped(cursor) == cursor + Cohort    \* mutant: no modulus

(* nextSpotifyCursor *)
NextCursor(cursor) == (cursor + Cohort) % Universe

(* advanceStateOnSuccess, advanceStateOnQuotaExceeded, advanceStateOnFailure *)
OnSuccess(f, st, time) ==
    [Clear(st) EXCEPT !.last_attempt = time, !.next_due = time + Interval[f],
                      !.backoff = NoTime, !.quota_backoff = NoTime,
                      !.cursor = IF f = "spotify" THEN NextCursor(st.cursor) ELSE @]

(* mutant: a truncated cohort counts as done *)
OnQuotaAdvance(st, time) ==
    [Clear(st) EXCEPT !.last_attempt = time, !.next_due = time + QuotaTicks,
                      !.quota_backoff = time + QuotaTicks, !.cursor = NextCursor(st.cursor)]

OnQuota(st, time) ==
    [Clear(st) EXCEPT !.last_attempt = time, !.next_due = time + QuotaTicks,
                      !.quota_backoff = time + QuotaTicks]
OnFailure(st, time) ==
    [Clear(st) EXCEPT !.last_attempt = time, !.next_due = time + FailureTicks,
                      !.backoff = time + FailureTicks]

(* classifyJobOutcome and applyOutcome on the manifest of the job in       *)
(* flight; a job without a terminal outcome is dropped after its window.   *)
Observed(f, st, manifest, time) ==
    CASE manifest \in {"published", "skipped"} -> OnSuccess(f, st, time)
      [] manifest = "truncated"                -> OnQuota(st, time)
      [] manifest = "failed"                   -> OnFailure(st, time)
      [] OTHER -> IF WithinWindow(st, time) THEN st ELSE Clear(st)

Marked(st, job, time) ==
    [st EXCEPT !.in_flight = job, !.requested_at = time, !.last_attempt = time]

-----------------------------------------------------------------------------
(* runTick *)

FamilyOf(t) == Families[ticker[t].turn]
At(t, step) == ticker[t].pc = step
Goto(t, step) == ticker' = [ticker EXCEPT ![t].pc = step]

(* after the last await of a family's block *)
NextFamily(t) ==
    LET c == ticker[t] IN
    ticker' = [ticker EXCEPT ![t] =
        IF c.turn < Len(Families)
        THEN [Idle EXCEPT !.pc = "gold", !.turn = c.turn + 1, !.at = c.at] ELSE Idle]

(* mutant: a job still in flight ends the tick, for both families *)
DecideOrReturn(t, st) ==
    LET c == ticker[t]
        due == ShouldTrigger(FamilyOf(t), st, c.gold, c.at) /\ Len(jobs) < MaxJobs IN
    ticker' = [ticker EXCEPT ![t] =
        IF st.in_flight # NoJob THEN Idle
        ELSE [c EXCEPT !.st = st, !.pc = IF due THEN "fire" ELSE "keep"]]

(* go on with state st: the decision is taken without another await *)
Decide(t, st) ==
    LET c == ticker[t]
        due == ShouldTrigger(FamilyOf(t), st, c.gold, c.at) /\ Len(jobs) < MaxJobs IN
    ticker' = [ticker EXCEPT ![t].st = st, ![t].pc = IF due THEN "fire" ELSE "keep"]

StartTick(t) ==
    /\ At(t, "idle")
    /\ ticker' = [ticker EXCEPT ![t] = [Idle EXCEPT !.pc = "gold", !.at = now]]
    /\ UNCHANGED <<now, store, gold_day, jobs, faults, historyVars>>

(* the Gold; an object that cannot be read counts as none.  What the Gold  *)
(* of Spotify says has no part in the decision.                            *)
ReadGold(t) ==
    /\ At(t, "gold")
    /\ \/ /\ ticker' = [ticker EXCEPT ![t].gold = gold_day, ![t].pc = "load"]
          /\ UNCHANGED faults
       \/ Goto(t, "load") /\ Fault
    /\ UNCHANGED <<now, store, gold_day, jobs, historyVars>>

(* loadState; an object that cannot be read counts as an empty state *)
Load(t) ==
    LET f == FamilyOf(t)
        Loaded(st) == IF st.in_flight = NoJob THEN Decide(t, st)
                      ELSE ticker' = [ticker EXCEPT ![t].st = st, ![t].pc = "observe"] IN
    /\ At(t, "load")
    /\ \/ Loaded(store[f]) /\ UNCHANGED <<faults, blanked>>
       \/ Loaded(EmptyState) /\ Fault /\ blanked' = blanked \cup {f}
    /\ UNCHANGED <<now, store, gold_day, jobs, covered, marked, retry_after>>

(* the manifest of the job in flight; one that cannot be read says nothing *)
Observe(t) ==
    LET c == ticker[t]
        Read(manifest) ==
            LET st == Observed(FamilyOf(t), c.st, manifest, c.at) IN
            IF st = c.st THEN Decide(t, st)
            ELSE ticker' = [ticker EXCEPT ![t].st = st, ![t].pc = "save"] IN
    /\ At(t, "observe")
    /\ \/ Read(jobs[c.st.in_flight].manifest) /\ UNCHANGED faults
       \/ Read("none") /\ Fault
    /\ UNCHANGED <<now, store, gold_day, jobs, historyVars>>

(* saveState: the put, and what the history notes of it *)
Put(f, st) ==
    /\ store' = [store EXCEPT ![f] = st]
    /\ marked' = marked \cup {st.in_flight}
    /\ retry_after' = [retry_after EXCEPT ![f] =
          IF st.backoff > @ \/ st.quota_backoff > @
          THEN IF st.backoff > st.quota_backoff THEN st.backoff ELSE st.quota_backoff ELSE @]

(* saveState as a step: a put that throws ends the whole tick *)
SaveState(t, st, continue) ==
    /\ \/ Put(FamilyOf(t), st) /\ continue /\ UNCHANGED faults
       \/ /\ Put(FamilyOf(t), st) \/ UNCHANGED <<store, marked, retry_after>>
          /\ ticker' = [ticker EXCEPT ![t] = Idle] /\ Fault
    /\ UNCHANGED <<now, gold_day, jobs, covered, blanked>>

Save(t) == At(t, "save") /\ SaveState(t, ticker[t].st, Decide(t, ticker[t].st))

Keep(t) == At(t, "keep") /\ SaveState(t, ticker[t].st, NextFamily(t))

(* safeFire: startJob on a Durable Object of the job's own; its failure is *)
(* swallowed, and the job may run or not                                   *)
Fire(t) ==
    LET c == ticker[t]
        Job(manifest) == [family |-> FamilyOf(t), cursor |-> c.st.cursor, at |-> c.at,
                          manifest |-> manifest] IN
    /\ At(t, "fire")
    /\ \/ jobs' = Append(jobs, Job("running")) /\ UNCHANGED faults
       \/ jobs' = Append(jobs, Job("none")) /\ Fault
    /\ ticker' = [ticker EXCEPT ![t].st = Marked(c.st, Len(jobs'), c.at), ![t].pc = "mark"]
    /\ UNCHANGED <<now, store, gold_day, historyVars>>

Mark(t) == At(t, "mark") /\ SaveState(t, ticker[t].st, NextFamily(t))

(* the runtime kills the invocation *)
Crash(t) ==
    /\ ~At(t, "idle")
    /\ ticker' = [ticker EXCEPT ![t] = Idle] /\ Fault
    /\ UNCHANGED <<now, store, gold_day, jobs, historyVars>>

Step(t) == ReadGold(t) \/ Load(t) \/ Observe(t) \/ Save(t) \/ Keep(t) \/ Fire(t) \/ Mark(t)

-----------------------------------------------------------------------------
(* the rows a Spotify job asks for: a slice that wraps *)
Slice(cursor) == {(cursor + i) % Universe : i \in 0 .. Cohort - 1}

(* A job ends.  Wikimedia publishes up to the day that was admissible when *)
(* it was fired; only Spotify has a quota and skips artists on a 429.      *)
JobEnds(j, manifest) ==
    LET job == jobs[j] IN
    /\ job.manifest = "running"
    /\ jobs' = [jobs EXCEPT ![j].manifest = manifest]
    /\ IF job.family = "wikimedia"
       THEN /\ manifest \in {"published", "empty", "failed"}
            /\ gold_day' = IF manifest = "published" THEN LatestAdmissible(job.at) ELSE gold_day
            /\ UNCHANGED covered
       ELSE /\ manifest \in {"published", "skipped", "truncated", "limited", "failed"}
            /\ covered' = covered \cup IF manifest \in {"published", "skipped"}
                                       THEN Slice(job.cursor) ELSE {}
            /\ UNCHANGED gold_day
    /\ UNCHANGED <<now, store, ticker, faults, marked, blanked, retry_after>>

Clock ==
    /\ now < MaxTime /\ now' = now + 1
    /\ UNCHANGED <<store, gold_day, jobs, ticker, faults, historyVars>>

Next ==
    \/ \E t \in Ticker : StartTick(t) \/ Step(t) \/ Crash(t)
    \/ \E j \in DOMAIN jobs, manifest \in Manifests : JobEnds(j, manifest)
    \/ Clock

(* The cron fires every minute and the platform runs what it started.  No  *)
(* fairness on the clock, the jobs or the faults.                          *)
Fairness == \A t \in Ticker : WF_vars(StartTick(t)) /\ WF_vars(Step(t))

Spec == Init /\ [][Next]_vars /\ Fairness

-----------------------------------------------------------------------------
(* Type correctness of the scheduler's state. *)
StateType == [cursor : 0 .. Universe - 1, next_due : Int, backoff : Int, quota_backoff : Int,
              last_attempt : Int, in_flight : 0 .. Len(jobs), requested_at : Int]

TypeOK ==
    /\ now \in 0 .. MaxTime /\ faults \in 0 .. MaxFaults
    /\ store \in [Family -> StateType]
    /\ gold_day \in Int
    /\ jobs \in Seq([family : Family, cursor : 0 .. Universe - 1, at : Nat, manifest : Manifests])
    /\ ticker \in [Ticker -> [pc : {"idle", "gold", "load", "observe", "save", "keep", "fire", "mark"},
                              turn : DOMAIN Families, at : Nat, gold : Int, st : StateType]]
    /\ covered \subseteq 0 .. Universe - 1
    /\ blanked \subseteq Family /\ retry_after \in [Family -> Int]

(* two jobs of one family at work, the second fired within the window of   *)
(* the first                                                               *)
Duplicates(i, j) ==
    /\ i < j /\ jobs[i].family = jobs[j].family
    /\ jobs[i].manifest = "running" /\ jobs[j].manifest = "running"
    /\ jobs[j].at - jobs[i].at < InFlightTicks

(* While ticks do not overlap, a family has one job at work at a time,     *)
(* whatever fails to start, hangs, ends late or is never observed - unless *)
(* the tick that fired the first died before its mark was stored, or the   *)
(* state was taken for empty because it could not be read.                 *)
OneLiveJobUnlessLost ==
    \A i, j \in DOMAIN jobs :
        Duplicates(i, j) => i \notin marked \/ jobs[i].family \in blanked

(* The rotating cursor never runs ahead of the jobs: every identity before *)
(* it has been in a cohort that was published, through hung, truncated,    *)
(* failed and doubled jobs, ticks that overwrite each other's state, and   *)
(* states that are read as empty.                                          *)
CursorFollowsPublication ==
    \A f \in Family, i \in 0 .. Universe - 1 : i < store[f].cursor => i \in covered

Fired == Len(jobs') > Len(jobs)
NewJob == jobs'[Len(jobs')]

(* No job is fired before the end of a backoff that was stored, unless the *)
(* state that held it was taken for empty.                                 *)
BackoffHonoured ==
    [][Fired => \/ NewJob.at >= retry_after[NewJob.family]
                \/ NewJob.family \in blanked]_vars

(* A tick never leaves its family behind a job older than the window: a    *)
(* job that hangs, or whose manifest says nothing, does not wedge it.      *)
NeverWedged ==
    [][\A t \in Ticker :
         LET c == ticker[t]
             f == FamilyOf(t) IN
         /\ At(t, "keep") \/ At(t, "mark")
         /\ ticker'[t] # c /\ faults' = faults
         => \/ store'[f].in_flight = NoJob
            \/ c.at - store'[f].requested_at < InFlightTicks]_vars

(* The end of a job with an outcome is observed, even while the job of the *)
(* other family hangs and the clock stands still.                          *)
EndedJobsAreObserved ==
    \A f \in Family, j \in 1 .. MaxJobs :
        (/\ j \in DOMAIN jobs /\ store[f].in_flight = j
         /\ jobs[j].manifest \in {"published", "skipped", "truncated", "failed"})
        ~> store[f].in_flight # j

=============================================================================
