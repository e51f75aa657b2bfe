------------------------ MODULE SourceScheduler_proofs -------------------------
(***************************************************************************)
(* What the source scheduler (source-scheduler.ts, runTick) keeps to,      *)
(* whatever ticks overlap, die or find the store unreadable: its cursor    *)
(* has been earned, and it is never wedged by a job that hangs. And what   *)
(* one ticker alone keeps to as well: one live job a family, no job before *)
(* the end of a backoff.                                                   *)
(*                                                                         *)
(* The first invariant, SchedulerInv, ties every copy of a family's state, *)
(* stored or held by a tick, to the jobs fired so far: a copy may be old,  *)
(* but what it says was true when it was read, and jobs only end and the   *)
(* cohorts covered only grow. So overlapping ticks may overwrite each      *)
(* other's state without making it untrue.                                 *)
(*                                                                         *)
(* The second, SerialInv, needs one ticker. Its state is then never old:   *)
(* it names the last marked job of its family that may still be at work,   *)
(* unless that job's window is over at the time of the tick, and it holds  *)
(* every backoff the store was given.                                      *)
(***************************************************************************)
EXTENDS SourceScheduler, SequenceTheorems, TLAPS

\* The assumptions on the constants, as the proofs use them.
LEMMA Constants1 ==
  /\ Universe \in Nat \ {0} /\ Cohort \in Nat \ {0} /\ InFlightTicks \in Nat \ {0}
  /\ FailureTicks \in Nat \ {0} /\ QuotaTicks \in Nat \ {0} /\ DayTicks \in Nat \ {0}
  /\ Interval \in [Family -> Nat] /\ MaxTime \in Nat /\ MaxJobs \in Nat /\ MaxFaults \in Nat
  /\ DOMAIN Families = 1..Len(Families) /\ Len(Families) \in Nat \ {0}
  /\ 1 \in DOMAIN Families
  /\ \A i \in DOMAIN Families : Families[i] \in Family
  /\ Family \subseteq {"wikimedia", "spotify"}
<1>1. DOMAIN Families = 1..Len(Families) /\ Len(Families) \in Nat \ {0}
  BY DurationAssumption
<1>2. Family \subseteq {"wikimedia", "spotify"}
  BY DurationAssumption DEF Family, Range
<1>3. \A i \in DOMAIN Families : Families[i] \in Family
  BY DEF Family, Range
<1> QED BY <1>1, <1>2, <1>3, DurationAssumption, BoundAssumption

\* A remainder is below its divisor, and a number below it is its own.
LEMMA Modulus ==
  ASSUME NEW a \in Nat, NEW n \in Nat \ {0}
  PROVE  a % n \in 0 .. n - 1 /\ (a < n => a % n = a)
  OBVIOUS

\* An identity before the next cursor is before this one or in its slice, also
\* when the cursor wraps.
LEMMA CursorCovers ==
  ASSUME NEW cursor \in 0 .. Universe - 1, NEW i \in 0 .. Universe - 1,
         i < NextCursor(cursor)
  PROVE  i < cursor \/ i \in Slice(cursor)
<1>1. Universe \in Nat \ {0} /\ Cohort \in Nat \ {0}
  BY Constants1
<1>2. SUFFICES ASSUME ~ (i < cursor) PROVE i - cursor \in 0 .. Cohort - 1
  <2>1. cursor + (i - cursor) = i
    OBVIOUS
  <2>2. i \in Nat /\ i < Universe
    BY <1>1
  <2>3. i % Universe = i
    BY <1>1, <2>2, Modulus
  <2> QED BY <1>2, <2>1, <2>3 DEF Slice
<1>3. CASE cursor + Cohort < Universe
  BY <1>1, <1>2, <1>3, Modulus DEF NextCursor
<1>4. CASE cursor + Cohort >= Universe
  BY <1>1, <1>2, <1>4
<1> QED BY <1>1, <1>3, <1>4

-----------------------------------------------------------------------------
\* A family's stored state: every value the handlers could put there.
SourceState == [cursor : 0 .. Universe - 1, next_due : Int, backoff : Int, quota_backoff : Int,
                last_attempt : Int, in_flight : Nat, requested_at : Int]

\* A job that was fired, with the cursor it was fired from.
Job == [family : Family, cursor : 0 .. Universe - 1, at : Nat, manifest : Manifests]

Pcs == {"idle", "gold", "load", "observe", "save", "keep", "fire", "mark"}

\* A tick at work, with its copy of the state of the family it has come to.
Invocation == [pc : Pcs, turn : DOMAIN Families, at : Nat, gold : Int, st : SourceState]

\* Types of all the variables that the proofs reason about.
SchedulerTypes ==
  /\ now \in 0 .. MaxTime /\ faults \in 0 .. MaxFaults
  /\ store \in [Family -> SourceState]
  /\ gold_day \in Int
  /\ jobs \in Seq(Job)
  /\ ticker \in [Ticker -> Invocation]
  /\ covered \subseteq 0 .. Universe - 1
  /\ blanked \subseteq Family /\ retry_after \in [Family -> Int]

\* What state st of family f says was earned from the jobs fired and the
\* identities done: its job in flight is one of f's, fired from its cursor,
\* and every identity before its cursor is done.
SoundFor(fired, done, f, st) ==
  /\ st.in_flight <= Len(fired)
  /\ st.in_flight # NoJob =>
       fired[st.in_flight].family = f /\ fired[st.in_flight].cursor = st.cursor
  /\ \A i \in 0 .. Universe - 1 : i < st.cursor => i \in done

Sound(f, st) == SoundFor(jobs, covered, f, st)

\* A state without a job, or with one that is still within its window.
Unwedged(st, time) == st.in_flight = NoJob \/ WithinWindow(st, time)

\* What a copy is where the tick has come: it is observed only with a job in
\* flight, and after that it is not wedged.
Placed(c) ==
  /\ c.pc = "observe" => c.st.in_flight # NoJob
  /\ c.pc \in {"save", "keep", "fire", "mark"} => Unwedged(c.st, c.at)

\* The cohort of a Spotify job that was published, or skipped because it had
\* been, is covered.
PublishedIsCovered ==
  \A j \in DOMAIN jobs :
    jobs[j].family = "spotify" /\ jobs[j].manifest \in {"published", "skipped"}
      => Slice(jobs[j].cursor) \subseteq covered

\* The invariant: every copy of a state, stored or in hand, was earned.
SchedulerInv ==
  /\ SchedulerTypes
  /\ \A f \in Family : Sound(f, store[f])
  /\ \A t \in Ticker : Sound(FamilyOf(t), ticker[t].st) /\ Placed(ticker[t])
  /\ PublishedIsCovered

\* The state of a family that has none stored, and the tick that is not at
\* work.
LEMMA EmptyFacts ==
  /\ EmptyState \in SourceState /\ EmptyState.in_flight = NoJob /\ EmptyState.cursor = 0
  /\ Idle \in Invocation /\ Idle.st = EmptyState /\ Idle.pc = "idle" /\ Idle.turn = 1
BY Constants1 DEF EmptyState, SourceState, Idle, Invocation, Pcs, NoJob, NoTime

\* The invariant holds when nothing has been fired.
LEMMA InitScheduler == Init => SchedulerInv
<1> SUFFICES ASSUME Init PROVE SchedulerInv
  OBVIOUS
<1>1. SchedulerTypes
  BY Constants1, EmptyFacts DEF Init, SchedulerTypes, NoTime
<1>2. \A f : Sound(f, EmptyState)
  <2>1. Len(jobs) = 0 /\ EmptyState.in_flight = 0 /\ EmptyState.cursor = 0
    BY EmptyFacts DEF Init, NoJob
  <2> QED BY <2>1, Constants1 DEF Sound, SoundFor, NoJob
<1> QED BY <1>1, <1>2, EmptyFacts DEF Init, SchedulerInv, Placed, PublishedIsCovered

\* What is sound stays sound when jobs are added or end.
JobsGoOn ==
  /\ Len(jobs') >= Len(jobs)
  /\ \A j \in DOMAIN jobs : j \in DOMAIN jobs' /\ jobs'[j].family = jobs[j].family
                            /\ jobs'[j].cursor = jobs[j].cursor
  /\ covered \subseteq covered'

\* What a state says stays earned when jobs are added or end.
LEMMA SoundStays ==
  ASSUME SchedulerTypes, JobsGoOn, jobs' \in Seq(Job)
  PROVE  \A f, st : st \in SourceState /\ SoundFor(jobs, covered, f, st)
                    => SoundFor(jobs', covered', f, st)
<1>1. DOMAIN jobs = 1..Len(jobs) /\ Len(jobs) \in Nat /\ Len(jobs') \in Nat
  BY DEF SchedulerTypes
<1> QED BY <1>1 DEF SoundFor, JobsGoOn, SourceState, NoJob

\* A step that fires a job that is at work, or none, makes no earlier job
\* untrue.
LEMMA JobsAppended ==
  ASSUME SchedulerInv, UNCHANGED covered,
         UNCHANGED jobs \/ \E job \in Job : /\ jobs' = Append(jobs, job)
                                            /\ job.manifest \in {"none", "running"}
  PROVE  JobsGoOn /\ jobs' \in Seq(Job) /\ PublishedIsCovered'
<1> USE DEF SchedulerInv, SchedulerTypes
<1>1. CASE UNCHANGED jobs
  BY <1>1 DEF JobsGoOn, PublishedIsCovered
<1>2. ASSUME NEW job \in Job, jobs' = Append(jobs, job), job.manifest \in {"none", "running"}
      PROVE  JobsGoOn /\ jobs' \in Seq(Job) /\ PublishedIsCovered'
  <2>1. /\ jobs' \in Seq(Job) /\ Len(jobs') = Len(jobs) + 1 /\ Len(jobs) \in Nat
        /\ DOMAIN jobs = 1..Len(jobs) /\ DOMAIN jobs' = 1..(Len(jobs) + 1)
        /\ \A j \in DOMAIN jobs : jobs'[j] = jobs[j]
        /\ jobs'[Len(jobs) + 1] = job
    BY <1>2, AppendProperties
  <2>2. ASSUME NEW j \in DOMAIN jobs', jobs'[j].family = "spotify",
               jobs'[j].manifest \in {"published", "skipped"}
        PROVE  Slice(jobs'[j].cursor) \subseteq covered'
    <3>1. j # Len(jobs) + 1
      BY <1>2, <2>1, <2>2
    <3>2. j \in DOMAIN jobs /\ jobs'[j] = jobs[j]
      BY <2>1, <3>1
    <3> QED BY <3>2, <2>2 DEF PublishedIsCovered
  <2> QED BY <2>1, <2>2 DEF JobsGoOn, PublishedIsCovered
<1> QED BY <1>1, <1>2

\* A step of one tick: it goes on as new, the state of a family may be put, and
\* one job may be fired.
LEMMA TickChanges ==
  ASSUME SchedulerInv, UNCHANGED <<now, gold_day, covered>>, faults' \in 0 .. MaxFaults,
         UNCHANGED jobs \/ \E job \in Job : /\ jobs' = Append(jobs, job)
                                            /\ job.manifest \in {"none", "running"},
         NEW t \in Ticker, NEW new \in Invocation, ticker' = [ticker EXCEPT ![t] = new],
         Sound(Families[new.turn], new.st)', Placed(new),
         UNCHANGED store \/ store' = [store EXCEPT ![FamilyOf(t)] = ticker[t].st],
         blanked' \subseteq Family, retry_after' \in [Family -> Int]
  PROVE  SchedulerInv'
<1> USE DEF SchedulerInv
<1>1. JobsGoOn /\ jobs' \in Seq(Job) /\ PublishedIsCovered'
  BY JobsAppended
<1>2. \A f, st : st \in SourceState /\ SoundFor(jobs, covered, f, st)
                => SoundFor(jobs', covered', f, st)
  BY <1>1, SoundStays
<1>3. FamilyOf(t) \in Family /\ ticker[t].st \in SourceState
  BY Constants1 DEF FamilyOf, SchedulerTypes, Invocation
<1>4. SchedulerTypes'
  BY <1>1, <1>3 DEF SchedulerTypes
<1>5. ASSUME NEW f \in Family PROVE Sound(f, store[f])'
  <2>1. store'[f] = store[f] \/ (f = FamilyOf(t) /\ store'[f] = ticker[t].st)
    BY <1>3 DEF SchedulerTypes
  <2>2. store[f] \in SourceState /\ Sound(f, store[f]) /\ Sound(FamilyOf(t), ticker[t].st)
    BY DEF SchedulerTypes
  <2> QED BY <1>2, <1>3, <2>1, <2>2 DEF Sound
<1>6. ASSUME NEW u \in Ticker PROVE (Sound(FamilyOf(u), ticker[u].st) /\ Placed(ticker[u]))'
  <2>1. CASE u = t
    <3>1. ticker'[u] = new
      BY <2>1 DEF SchedulerTypes
    <3> QED BY <3>1 DEF FamilyOf, Sound, Placed
  <2>2. CASE u # t
    <3>1. ticker'[u] = ticker[u] /\ ticker[u].st \in SourceState
      BY <2>2 DEF SchedulerTypes, Invocation
    <3>2. Sound(FamilyOf(u), ticker[u].st) /\ Placed(ticker[u])
      OBVIOUS
    <3> QED BY <1>2, <3>1, <3>2 DEF FamilyOf, Sound, Placed
  <2> QED BY <2>1, <2>2
<1> QED BY <1>1, <1>4, <1>5, <1>6

-----------------------------------------------------------------------------
\* Clearing the job in flight leaves the cursor and the backoffs alone.
LEMMA ClearFacts ==
  ASSUME NEW st \in SourceState
  PROVE  /\ Clear(st) \in SourceState /\ Clear(st).in_flight = NoJob
         /\ Clear(st).cursor = st.cursor
         /\ Clear(st).backoff = st.backoff /\ Clear(st).quota_backoff = st.quota_backoff
<1>1. NoJob \in Nat /\ NoTime \in Int
  BY DEF NoJob, NoTime
<1> QED BY <1>1 DEF Clear, SourceState

\* What a success, a failure and an exhausted quota make of a state: only a
\* success of Spotify moves the cursor.
LEMMA OutcomeFacts ==
  ASSUME NEW f \in Family, NEW st \in SourceState, NEW time \in Nat
  PROVE  /\ LET new == OnSuccess(f, st, time) IN
              /\ new \in SourceState /\ new.in_flight = NoJob
              /\ new.cursor = IF f = "spotify" THEN NextCursor(st.cursor) ELSE st.cursor
              /\ new.backoff = NoTime /\ new.quota_backoff = NoTime
         /\ LET new == OnQuota(st, time) IN
              /\ new \in SourceState /\ new.in_flight = NoJob /\ new.cursor = st.cursor
              /\ new.backoff = st.backoff
         /\ LET new == OnFailure(st, time) IN
              /\ new \in SourceState /\ new.in_flight = NoJob /\ new.cursor = st.cursor
              /\ new.quota_backoff = st.quota_backoff
<1> DEFINE cl == Clear(st)
<1>1. cl \in SourceState /\ cl.in_flight = NoJob /\ cl.cursor = st.cursor
      /\ cl.backoff = st.backoff /\ cl.quota_backoff = st.quota_backoff
  BY ClearFacts
<1>2. /\ Universe \in Nat \ {0} /\ Cohort \in Nat \ {0} /\ Interval[f] \in Nat
      /\ FailureTicks \in Nat /\ QuotaTicks \in Nat /\ NoTime \in Int
  BY Constants1 DEF NoTime
<1>3. st.cursor \in 0 .. Universe - 1
  BY DEF SourceState
<1>4. NextCursor(st.cursor) \in 0 .. Universe - 1
  <2>1. st.cursor + Cohort \in Nat
    BY <1>2, <1>3
  <2> QED BY <1>2, <2>1, Modulus DEF NextCursor
<1>5. NextCursor(cl.cursor) = NextCursor(st.cursor)
  BY <1>1
<1> DEFINE cursor == IF f = "spotify" THEN NextCursor(st.cursor) ELSE st.cursor
<1>6. cursor \in 0 .. Universe - 1
  BY <1>3, <1>4
<1>7. OnSuccess(f, st, time) =
        [cl EXCEPT !.last_attempt = time, !.next_due = time + Interval[f],
                   !.backoff = NoTime, !.quota_backoff = NoTime, !.cursor = cursor]
  BY <1>1 DEF OnSuccess, SourceState
<1>8. OnQuota(st, time) = [cl EXCEPT !.last_attempt = time, !.next_due = time + QuotaTicks,
                                     !.quota_backoff = time + QuotaTicks]
      /\ OnFailure(st, time) = [cl EXCEPT !.last_attempt = time, !.next_due = time + FailureTicks,
                                          !.backoff = time + FailureTicks]
  BY DEF OnQuota, OnFailure
<1> HIDE DEF cl, cursor
<1>9. /\ time + Interval[f] \in Int /\ time + QuotaTicks \in Int /\ time + FailureTicks \in Int
      /\ time \in Int
  BY <1>2
<1>10. LET new == OnSuccess(f, st, time) IN
         /\ new \in SourceState /\ new.in_flight = NoJob /\ new.cursor = cursor
         /\ new.backoff = NoTime /\ new.quota_backoff = NoTime
  BY <1>1, <1>2, <1>6, <1>7, <1>9 DEF SourceState
<1>11. LET new == OnQuota(st, time) IN
         /\ new \in SourceState /\ new.in_flight = NoJob /\ new.cursor = st.cursor
         /\ new.backoff = st.backoff
  BY <1>1, <1>8, <1>9 DEF SourceState
<1>12. LET new == OnFailure(st, time) IN
         /\ new \in SourceState /\ new.in_flight = NoJob /\ new.cursor = st.cursor
         /\ new.quota_backoff = st.quota_backoff
  BY <1>1, <1>8, <1>9 DEF SourceState
<1> QED BY <1>10, <1>11, <1>12 DEF cursor

\* What an observation makes of a sound state is sound.
LEMMA ObservedIsSound ==
  ASSUME SchedulerInv, NEW f \in Family, NEW st \in SourceState, Sound(f, st),
         st.in_flight # NoJob, NEW time \in Nat,
         NEW manifest, manifest = "none" \/ manifest = jobs[st.in_flight].manifest
  PROVE  LET new == Observed(f, st, manifest, time) IN
         /\ new \in SourceState /\ Sound(f, new)
         /\ Unwedged(new, time)
<1> DEFINE new == Observed(f, st, manifest, time)
           job == jobs[st.in_flight]
<1>1. Universe \in Nat \ {0} /\ Cohort \in Nat \ {0} /\ Interval \in [Family -> Nat]
      /\ FailureTicks \in Nat /\ QuotaTicks \in Nat /\ InFlightTicks \in Nat
  BY Constants1
<1>2. st.in_flight \in DOMAIN jobs /\ job \in Job /\ job.family = f /\ job.cursor = st.cursor
  BY SMTT(30) DEF SchedulerInv, SchedulerTypes, Sound, SoundFor, NoJob, SourceState
<1>3. Interval[f] \in Nat
  BY <1>1
<1>4. CASE manifest \in {"published", "skipped"}
  <2>1. new = OnSuccess(f, st, time)
    BY <1>4 DEF Observed
  <2>2. NextCursor(st.cursor) \in 0 .. Universe - 1
    BY <1>1, Modulus DEF NextCursor, SourceState
  <2>3. new \in SourceState /\ new.in_flight = NoJob
        /\ new.cursor = IF f = "spotify" THEN NextCursor(st.cursor) ELSE st.cursor
    BY <2>1, OutcomeFacts
  <2>4. ASSUME NEW i \in 0 .. Universe - 1, i < new.cursor PROVE i \in covered
    <3>1. CASE f = "spotify"
      <4>1. Slice(st.cursor) \subseteq covered
        BY <1>2, <1>4, <3>1 DEF SchedulerInv, PublishedIsCovered
      <4>2. i < st.cursor \/ i \in Slice(st.cursor)
        BY <2>3, <2>4, <3>1, CursorCovers DEF SourceState
      <4> QED BY <4>1, <4>2 DEF Sound, SoundFor
    <3>2. CASE f # "spotify"
      BY <2>3, <2>4, <3>2 DEF Sound, SoundFor
    <3> QED BY <3>1, <3>2
  <2>5. Len(jobs) \in Nat
    BY DEF SchedulerInv, SchedulerTypes
  <2> QED BY <2>3, <2>4, <2>5 DEF Sound, SoundFor, Unwedged, NoJob
<1>5. CASE manifest \notin {"published", "skipped"}
  <2>1. new \in SourceState /\ new.cursor = st.cursor
        /\ \/ new.in_flight = NoJob
           \/ new = st /\ WithinWindow(st, time)
    <3>1. CASE manifest = "truncated"
      <4>1. new = OnQuota(st, time)
        BY <3>1 DEF Observed
      <4> QED BY <4>1, OutcomeFacts
    <3>2. CASE manifest = "failed"
      <4>1. new = OnFailure(st, time)
        BY <3>2 DEF Observed
      <4> QED BY <4>1, OutcomeFacts
    <3>3. CASE manifest \notin {"truncated", "failed"}
      <4>1. new = IF WithinWindow(st, time) THEN st ELSE Clear(st)
        BY <3>3, <1>5 DEF Observed
      <4> QED BY <4>1, ClearFacts
    <3> QED BY <3>1, <3>2, <3>3
  <2>2. Len(jobs) \in Nat
    BY DEF SchedulerInv, SchedulerTypes
  <2> QED BY <2>1, <2>2 DEF Sound, SoundFor, Unwedged, NoJob
<1> QED BY <1>4, <1>5

\* The invocation after a decision.
After(c, st, due) == [c EXCEPT !.st = st, !.pc = IF due THEN "fire" ELSE "keep"]

\* The decision leads to a fire or to no fire, with the state as it was read,
\* and to a fire only when no backoff holds.
LEMMA DecideGoesOn ==
  ASSUME SchedulerInv, NEW t \in Ticker, NEW st \in SourceState, Decide(t, st),
         Sound(FamilyOf(t), st), Unwedged(st, ticker[t].at)
  PROVE  \E new \in Invocation :
           /\ ticker' = [ticker EXCEPT ![t] = new]
           /\ new.turn = ticker[t].turn /\ new.st = st /\ Placed(new)
           /\ new.at = ticker[t].at /\ new.pc \in {"fire", "keep"}
           /\ new.pc = "fire" => ~Held(st, new.at)
<1> DEFINE due == ShouldTrigger(FamilyOf(t), st, ticker[t].gold, ticker[t].at)
                  /\ Len(jobs) < MaxJobs
           new == [ticker[t] EXCEPT !.st = st, !.pc = IF due THEN "fire" ELSE "keep"]
<1>1. ticker[t] \in Invocation
  BY DEF SchedulerInv, SchedulerTypes
<1>2. ticker' = [ticker EXCEPT ![t] = new]
  BY DEF Decide, SchedulerInv, SchedulerTypes
<1>3. new \in Invocation /\ new.turn = ticker[t].turn /\ new.st = st
      /\ new.at = ticker[t].at /\ new.pc = IF due THEN "fire" ELSE "keep"
  BY <1>1 DEF Invocation, Pcs
<1>4. new.pc = "fire" => ~Held(st, new.at)
  BY <1>3 DEF ShouldTrigger
<1> HIDE DEF new
<1>5. Placed(new)
  BY <1>3 DEF Placed
<1> QED BY <1>2, <1>3, <1>4, <1>5

\* After a family the tick goes on to the next one, or ends, with an empty
\* copy.
LEMMA NextFamilyGoesOn ==
  ASSUME SchedulerInv, NEW t \in Ticker, NextFamily(t)
  PROVE  \E new \in Invocation :
           /\ ticker' = [ticker EXCEPT ![t] = new]
           /\ new.st = EmptyState /\ new.pc \in {"idle", "gold"}
           /\ new.pc = "gold" => new.at = ticker[t].at
<1> DEFINE c == ticker[t]
           on == [Idle EXCEPT !.pc = "gold", !.turn = c.turn + 1, !.at = c.at]
<1>1. c \in Invocation /\ DOMAIN Families = 1..Len(Families) /\ Len(Families) \in Nat
  BY Constants1 DEF SchedulerInv, SchedulerTypes
<1>2. c.turn \in 1..Len(Families) /\ c.at \in Nat
  BY <1>1 DEF Invocation
<1> HIDE DEF c
<1>3. ASSUME c.turn < Len(Families)
      PROVE  on \in Invocation /\ on.st = EmptyState /\ on.pc = "gold" /\ on.at = c.at
  <2>1. c.turn + 1 \in DOMAIN Families
    BY <1>1, <1>2, <1>3
  <2>2. Idle \in Invocation /\ Idle.st = EmptyState
    BY EmptyFacts
  <2> QED BY <1>2, <2>1, <2>2 DEF Invocation, Pcs
<1>4. ticker' = [ticker EXCEPT ![t] = IF c.turn < Len(Families) THEN on ELSE Idle]
  BY DEF NextFamily, c
<1> HIDE DEF on
<1>5. CASE c.turn < Len(Families)
  BY <1>3, <1>4, <1>5 DEF c
<1>6. CASE ~ (c.turn < Len(Families))
  BY <1>4, <1>6, EmptyFacts
<1> QED BY <1>5, <1>6

-----------------------------------------------------------------------------
\* The steps of a tick.
LEMMA EmptyIsSound ==
  ASSUME SchedulerInv
  PROVE  \A f : Sound(f, EmptyState)
<1>1. Len(jobs) \in Nat
  BY DEF SchedulerInv, SchedulerTypes
<1>2. EmptyState.in_flight = 0 /\ EmptyState.cursor = 0
  BY EmptyFacts DEF NoJob
<1> QED BY <1>1, <1>2 DEF Sound, SoundFor, NoJob

\* A step without a put, of a tick that goes on as new.
LEMMA TickOnly ==
  ASSUME SchedulerInv, UNCHANGED <<now, store, gold_day, jobs, covered, retry_after>>,
         faults' \in 0 .. MaxFaults, blanked' \subseteq Family,
         NEW t \in Ticker, NEW new \in Invocation, ticker' = [ticker EXCEPT ![t] = new],
         Sound(Families[new.turn], new.st), Placed(new)
  PROVE  SchedulerInv'
<1>1. Sound(Families[new.turn], new.st)'
  BY DEF Sound
<1>2. retry_after' \in [Family -> Int]
  BY DEF SchedulerInv, SchedulerTypes
<1> QED BY <1>1, <1>2, TickChanges

\* Faults stay within their bound.
LEMMA FaultType == SchedulerTypes /\ (Fault \/ UNCHANGED faults) => faults' \in 0 .. MaxFaults
BY Constants1 DEF SchedulerTypes, Fault

\* Starting a tick, reading the Gold day and dying keep the invariant.
LEMMA ReadInv ==
  ASSUME SchedulerInv, NEW t \in Ticker, StartTick(t) \/ ReadGold(t) \/ Crash(t)
  PROVE  SchedulerInv'
<1> DEFINE c == ticker[t]
<1>1. c \in Invocation /\ now \in Nat /\ gold_day \in Int /\ Sound(Families[c.turn], c.st)
      /\ blanked \subseteq Family
  BY Constants1 DEF SchedulerInv, SchedulerTypes, FamilyOf
<1>2. faults' \in 0 .. MaxFaults
  BY FaultType DEF SchedulerInv, StartTick, ReadGold, Crash
<1>3. UNCHANGED <<now, store, gold_day, jobs, covered, blanked, retry_after>>
  BY DEF StartTick, ReadGold, Crash, historyVars
<1>4. CASE StartTick(t)
  <2> DEFINE new == [Idle EXCEPT !.pc = "gold", !.at = now]
  <2>1. new \in Invocation /\ new.st = EmptyState /\ new.pc = "gold"
    BY <1>1, EmptyFacts DEF Invocation, Pcs
  <2>2. ticker' = [ticker EXCEPT ![t] = new]
    BY <1>4 DEF StartTick
  <2> HIDE DEF new
  <2> QED BY <1>1, <1>2, <1>3, <2>1, <2>2, EmptyIsSound, TickOnly DEF Placed
<1>5. CASE Crash(t)
  BY <1>1, <1>2, <1>3, <1>5, EmptyFacts, EmptyIsSound, TickOnly DEF Crash, Placed
<1>6. CASE ReadGold(t)
  <2> DEFINE New(g) == [c EXCEPT !.gold = g, !.pc = "load"]
  <2>1. \A g \in Int : New(g) \in Invocation /\ New(g).st = c.st /\ New(g).pc = "load"
                       /\ New(g).turn = c.turn
    BY <1>1 DEF Invocation, Pcs
  <2>2. \E g \in {gold_day, c.gold} : ticker' = [ticker EXCEPT ![t] = New(g)]
    <3>1. CASE Goto(t, "load")
      <4>1. New(c.gold) = [c EXCEPT !.pc = "load"]
        BY <1>1 DEF Invocation
      <4> QED BY <3>1, <4>1 DEF Goto, SchedulerInv, SchedulerTypes
    <3>2. CASE ticker' = [ticker EXCEPT ![t].gold = gold_day, ![t].pc = "load"]
      BY <3>2 DEF SchedulerInv, SchedulerTypes
    <3> QED BY <1>6, <3>1, <3>2 DEF ReadGold
  <2>3. c.gold \in Int
    BY <1>1 DEF Invocation
  <2> HIDE DEF New
  <2> QED BY <1>1, <1>2, <1>3, <2>1, <2>2, <2>3, TickOnly DEF Placed
<1> QED BY <1>4, <1>5, <1>6

\* Loading a state keeps it: what is stored was earned, and so is the empty
\* state that an unreadable store is taken for.
LEMMA LoadInv ==
  ASSUME SchedulerInv, NEW t \in Ticker, Load(t)
  PROVE  SchedulerInv'
<1> DEFINE c == ticker[t]
           f == FamilyOf(t)
<1>1. c \in Invocation /\ f \in Family /\ blanked \subseteq Family
  BY Constants1 DEF SchedulerInv, SchedulerTypes, FamilyOf, Invocation
<1>2. faults' \in 0 .. MaxFaults
  BY FaultType DEF SchedulerInv, Load
<1>3. UNCHANGED <<now, store, gold_day, jobs, covered, retry_after>> /\ blanked' \subseteq Family
  BY <1>1 DEF Load
<1>4. PICK st \in {store[f], EmptyState} :
        IF st.in_flight = NoJob THEN Decide(t, st)
        ELSE ticker' = [ticker EXCEPT ![t].st = st, ![t].pc = "observe"]
  BY DEF Load
<1>5. st \in SourceState /\ Sound(f, st)
  BY <1>1, <1>4, EmptyFacts, EmptyIsSound DEF SchedulerInv, SchedulerTypes
<1>6. CASE st.in_flight = NoJob
  <2>1. PICK new \in Invocation :
          ticker' = [ticker EXCEPT ![t] = new] /\ new.turn = c.turn /\ new.st = st /\ Placed(new)
    BY <1>4, <1>5, <1>6, DecideGoesOn DEF Unwedged
  <2> QED BY <1>2, <1>3, <1>5, <2>1, TickOnly DEF FamilyOf
<1>7. CASE st.in_flight # NoJob
  <2> DEFINE new == [c EXCEPT !.st = st, !.pc = "observe"]
  <2>1. new \in Invocation /\ new.st = st /\ new.pc = "observe" /\ new.turn = c.turn
    BY <1>1, <1>5 DEF Invocation, Pcs
  <2>2. ticker' = [ticker EXCEPT ![t] = new]
    BY <1>4, <1>7 DEF SchedulerInv, SchedulerTypes
  <2> HIDE DEF new
  <2> QED BY <1>2, <1>3, <1>5, <1>7, <2>1, <2>2, TickOnly DEF FamilyOf, Placed
<1> QED BY <1>6, <1>7

\* Observing the job in flight keeps it: the cursor moves only past the slice
\* of a job that was published.
LEMMA ObserveInv ==
  ASSUME SchedulerInv, NEW t \in Ticker, Observe(t)
  PROVE  SchedulerInv'
<1> DEFINE c == ticker[t]
           f == FamilyOf(t)
<1>1. c \in Invocation /\ f \in Family /\ blanked \subseteq Family /\ c.at \in Nat
      /\ c.st \in SourceState /\ Sound(f, c.st) /\ c.st.in_flight # NoJob
  BY Constants1 DEF SchedulerInv, SchedulerTypes, FamilyOf, Invocation, Observe, At, Placed
<1>2. faults' \in 0 .. MaxFaults
  BY FaultType DEF SchedulerInv, Observe
<1>3. UNCHANGED <<now, store, gold_day, jobs, covered, blanked, retry_after>>
  BY DEF Observe, historyVars
<1>4. PICK manifest \in {jobs[c.st.in_flight].manifest, "none"} :
        LET st == Observed(f, c.st, manifest, c.at) IN
        IF st = c.st THEN Decide(t, st)
        ELSE ticker' = [ticker EXCEPT ![t].st = st, ![t].pc = "save"]
  BY DEF Observe
<1> DEFINE st == Observed(f, c.st, manifest, c.at)
<1>5. st \in SourceState /\ Sound(f, st) /\ Unwedged(st, c.at)
  BY <1>1, <1>4, ObservedIsSound
<1>6. CASE st = c.st
  <2>1. Decide(t, st)
    BY <1>4, <1>6
  <2> HIDE DEF st
  <2>2. PICK new \in Invocation :
          ticker' = [ticker EXCEPT ![t] = new] /\ new.turn = c.turn /\ new.st = st /\ Placed(new)
    BY <1>5, <2>1, DecideGoesOn
  <2> QED BY <1>1, <1>2, <1>3, <1>5, <2>2, TickOnly DEF FamilyOf
<1>7. CASE st # c.st
  <2>1. ticker' = [ticker EXCEPT ![t].st = st, ![t].pc = "save"]
    BY <1>4, <1>7
  <2> HIDE DEF st
  <2> DEFINE new == [c EXCEPT !.st = st, !.pc = "save"]
  <2>2. new \in Invocation /\ new.st = st /\ new.pc = "save" /\ new.turn = c.turn /\ new.at = c.at
    BY <1>1, <1>5 DEF Invocation, Pcs
  <2>3. ticker' = [ticker EXCEPT ![t] = new]
    BY <2>1 DEF SchedulerInv, SchedulerTypes
  <2> HIDE DEF new
  <2> QED BY <1>1, <1>2, <1>3, <1>5, <2>2, <2>3, TickOnly DEF FamilyOf, Placed
<1> QED BY <1>6, <1>7

\* What a put leaves: the family's state and the end of its latest backoff.
LEMMA PutTypes ==
  ASSUME SchedulerInv, NEW f \in Family, NEW st \in SourceState, Put(f, st)
  PROVE  store' = [store EXCEPT ![f] = st] /\ retry_after' \in [Family -> Int]
BY DEF Put, SchedulerInv, SchedulerTypes, SourceState

\* Storing a tick's copy, old as it may be, keeps it: the copy was earned.
LEMMA SaveInv ==
  ASSUME SchedulerInv, NEW t \in Ticker, Save(t) \/ Keep(t) \/ Mark(t)
  PROVE  SchedulerInv'
<1> DEFINE c == ticker[t]
           f == FamilyOf(t)
<1>1. c \in Invocation /\ f \in Family /\ blanked \subseteq Family /\ c.at \in Nat
      /\ c.st \in SourceState /\ Sound(f, c.st) /\ retry_after \in [Family -> Int]
  BY Constants1 DEF SchedulerInv, SchedulerTypes, FamilyOf, Invocation
<1>2. Unwedged(c.st, c.at)
  BY DEF SchedulerInv, Save, Keep, Mark, At, Placed
<1>3. /\ UNCHANGED <<now, gold_day, jobs, covered, blanked>>
      /\ Put(f, c.st) \/ UNCHANGED <<store, marked, retry_after>>
      /\ Fault \/ UNCHANGED faults
      /\ Decide(t, c.st) \/ NextFamily(t) \/ ticker' = [ticker EXCEPT ![t] = Idle]
  BY DEF Save, Keep, Mark, SaveState
<1>4. faults' \in 0 .. MaxFaults
  BY <1>3, FaultType DEF SchedulerInv
<1>5. (UNCHANGED store \/ store' = [store EXCEPT ![f] = c.st]) /\ retry_after' \in [Family -> Int]
  BY <1>1, <1>3, PutTypes
<1>6. \E new \in Invocation :
        /\ ticker' = [ticker EXCEPT ![t] = new]
        /\ Sound(Families[new.turn], new.st) /\ Placed(new)
  <2>1. CASE Decide(t, c.st)
    BY <1>1, <1>2, <2>1, DecideGoesOn DEF FamilyOf
  <2>2. CASE NextFamily(t)
    BY <2>2, NextFamilyGoesOn, EmptyIsSound DEF Placed
  <2>3. CASE ticker' = [ticker EXCEPT ![t] = Idle]
    BY <2>3, EmptyFacts, EmptyIsSound DEF Placed
  <2> QED BY <1>3, <2>1, <2>2, <2>3
<1>7. PICK new \in Invocation :
        /\ ticker' = [ticker EXCEPT ![t] = new]
        /\ Sound(Families[new.turn], new.st) /\ Placed(new)
  BY <1>6
<1>8. Sound(Families[new.turn], new.st)'
  BY <1>3, <1>7 DEF Sound
<1> HIDE DEF c
<1> QED BY <1>1, <1>3, <1>4, <1>5, <1>7, <1>8, TickChanges DEF c

\* Marking a job in flight leaves the cursor and the backoffs alone.
LEMMA MarkedFacts ==
  ASSUME NEW st \in SourceState, NEW job \in Nat, NEW time \in Nat
  PROVE  /\ Marked(st, job, time) \in SourceState
         /\ Marked(st, job, time).in_flight = job /\ Marked(st, job, time).requested_at = time
         /\ Marked(st, job, time).cursor = st.cursor
         /\ Marked(st, job, time).backoff = st.backoff
         /\ Marked(st, job, time).quota_backoff = st.quota_backoff
<1> DEFINE new == Marked(st, job, time)
<1>1. new = [st EXCEPT !.in_flight = job, !.requested_at = time, !.last_attempt = time]
  BY DEF Marked
<1>2. time \in Int
  OBVIOUS
<1> HIDE DEF new
<1>3. new \in SourceState
  BY <1>1, <1>2 DEF SourceState
<1>4. new.in_flight = job /\ new.requested_at = time /\ new.cursor = st.cursor
      /\ new.backoff = st.backoff /\ new.quota_backoff = st.quota_backoff
  BY <1>1 DEF SourceState
<1> QED BY <1>3, <1>4 DEF new

\* What a tick that fires does.
LEMMA FireEffect ==
  ASSUME SchedulerInv, NEW t \in Ticker, Fire(t)
  PROVE  \E job \in Job, new \in Invocation :
           /\ jobs' = Append(jobs, job)
           /\ job.manifest \in {"none", "running"}
           /\ job.family = FamilyOf(t) /\ job.cursor = ticker[t].st.cursor
           /\ job.at = ticker[t].at
           /\ ticker' = [ticker EXCEPT ![t] = new]
           /\ new.pc = "mark" /\ new.turn = ticker[t].turn /\ new.at = ticker[t].at
           /\ new.st = Marked(ticker[t].st, Len(jobs) + 1, ticker[t].at)
           /\ new.st.in_flight = Len(jobs) + 1 /\ new.st.requested_at = ticker[t].at
           /\ new.st.cursor = ticker[t].st.cursor /\ new.st.backoff = ticker[t].st.backoff
           /\ new.st.quota_backoff = ticker[t].st.quota_backoff
<1> DEFINE c == ticker[t]
           Fired1(m) == [family |-> FamilyOf(t), cursor |-> c.st.cursor, at |-> c.at,
                         manifest |-> m]
<1>1. c \in Invocation /\ c.st \in SourceState /\ FamilyOf(t) \in Family /\ Len(jobs) \in Nat
      /\ jobs \in Seq(Job) /\ c.at \in Nat
  BY Constants1 DEF SchedulerInv, SchedulerTypes, FamilyOf, Invocation
<1>2. \A m \in {"none", "running"} : Fired1(m) \in Job
  BY <1>1 DEF Job, Manifests, SourceState
<1>3. PICK m \in {"none", "running"} : jobs' = Append(jobs, Fired1(m))
  BY DEF Fire
<1>4. Len(jobs') = Len(jobs) + 1
  BY <1>1, <1>2, <1>3, AppendProperties
<1> DEFINE st == Marked(c.st, Len(jobs) + 1, c.at)
           new == [c EXCEPT !.st = st, !.pc = "mark"]
<1>5. st \in SourceState /\ st.in_flight = Len(jobs) + 1 /\ st.requested_at = c.at
      /\ st.cursor = c.st.cursor /\ st.backoff = c.st.backoff
      /\ st.quota_backoff = c.st.quota_backoff
  <2> DEFINE n == Len(jobs) + 1
  <2>1. n \in Nat
    BY <1>1
  <2> HIDE DEF n, c
  <2> DEFINE old == c.st
             at == c.at
  <2>2. old \in SourceState /\ at \in Nat
    BY <1>1
  <2> HIDE DEF old, at
  <2>3. /\ Marked(old, n, at) \in SourceState
        /\ Marked(old, n, at).in_flight = n /\ Marked(old, n, at).requested_at = at
        /\ Marked(old, n, at).cursor = old.cursor
        /\ Marked(old, n, at).backoff = old.backoff
        /\ Marked(old, n, at).quota_backoff = old.quota_backoff
    BY <2>1, <2>2, MarkedFacts
  <2> QED BY <2>3 DEF n, old, at
<1>6. ticker' = [ticker EXCEPT ![t].st = st, ![t].pc = "mark"]
  BY <1>4 DEF Fire
<1> HIDE DEF st
<1>7. ticker' = [ticker EXCEPT ![t] = new]
  BY <1>6 DEF SchedulerInv, SchedulerTypes
<1>8. new \in Invocation /\ new.pc = "mark" /\ new.turn = c.turn /\ new.at = c.at /\ new.st = st
  BY <1>1, <1>5 DEF Invocation, Pcs
<1> HIDE DEF new
<1>9. /\ Fired1(m).manifest = m /\ Fired1(m).family = FamilyOf(t)
      /\ Fired1(m).cursor = c.st.cursor /\ Fired1(m).at = c.at
  OBVIOUS
<1> HIDE DEF Fired1
<1> QED BY <1>2, <1>3, <1>5, <1>7, <1>8, <1>9 DEF st

\* Firing a job from the copy in hand keeps it.
LEMMA FireInv ==
  ASSUME SchedulerInv, NEW t \in Ticker, Fire(t)
  PROVE  SchedulerInv'
<1> DEFINE c == ticker[t]
<1>1. PICK job \in Job, new \in Invocation :
        /\ jobs' = Append(jobs, job)
        /\ job.manifest \in {"none", "running"}
        /\ job.family = FamilyOf(t) /\ job.cursor = c.st.cursor
        /\ ticker' = [ticker EXCEPT ![t] = new]
        /\ new.pc = "mark" /\ new.turn = c.turn /\ new.at = c.at
        /\ new.st.in_flight = Len(jobs) + 1 /\ new.st.cursor = c.st.cursor
        /\ new.st.requested_at = c.at
  BY FireEffect
<1>2. c.st \in SourceState /\ c.at \in Nat /\ jobs \in Seq(Job) /\ Len(jobs) \in Nat
      /\ blanked \subseteq Family /\ retry_after \in [Family -> Int] /\ Sound(FamilyOf(t), c.st)
  BY DEF SchedulerInv, SchedulerTypes, Invocation
<1>3. UNCHANGED <<now, store, gold_day, covered, blanked, retry_after>> /\ faults' \in 0 .. MaxFaults
  BY FaultType DEF Fire, historyVars, SchedulerInv
<1>4. Len(jobs') = Len(jobs) + 1 /\ jobs'[Len(jobs) + 1] = job
  BY <1>1, <1>2, AppendProperties
<1>6. Sound(Families[new.turn], new.st)'
  BY <1>1, <1>2, <1>3, <1>4 DEF Sound, SoundFor, FamilyOf
<1>7. Placed(new)
  BY <1>1, <1>2, Constants1 DEF Placed, Unwedged, WithinWindow
<1>8. \E x \in Job : jobs' = Append(jobs, x) /\ x.manifest \in {"none", "running"}
  BY <1>1
<1>9. blanked' \subseteq Family /\ retry_after' \in [Family -> Int] /\ UNCHANGED store
  BY <1>2, <1>3
<1> HIDE DEF c
<1> QED BY <1>1, <1>3, <1>6, <1>7, <1>8, <1>9, TickChanges

-----------------------------------------------------------------------------
\* A job ends: its manifest changes, and what a published cohort held is covered.
LEMMA JobEndsEffect ==
  ASSUME SchedulerInv, NEW j \in DOMAIN jobs, NEW manifest \in Manifests, JobEnds(j, manifest)
  PROVE  /\ jobs' \in Seq(Job) /\ Len(jobs') = Len(jobs) /\ DOMAIN jobs' = DOMAIN jobs
         /\ jobs[j].manifest = "running" /\ manifest # "running"
         /\ \A i \in DOMAIN jobs :
              jobs'[i] = IF i = j THEN [jobs[j] EXCEPT !.manifest = manifest] ELSE jobs[i]
         /\ \A i \in DOMAIN jobs :
              /\ jobs'[i].family = jobs[i].family /\ jobs'[i].cursor = jobs[i].cursor
              /\ jobs'[i].at = jobs[i].at
<1>1. jobs \in Seq(Job) /\ jobs[j] \in Job
  BY DEF SchedulerInv, SchedulerTypes
<1> DEFINE ended == [jobs[j] EXCEPT !.manifest = manifest]
<1>2. ended \in Job /\ ended.family = jobs[j].family /\ ended.cursor = jobs[j].cursor
      /\ ended.at = jobs[j].at
  BY <1>1 DEF Job
<1>3. jobs' = [jobs EXCEPT ![j] = ended]
  BY <1>1 DEF JobEnds
<1>4. jobs[j].manifest = "running" /\ manifest # "running"
  BY DEF JobEnds
<1> HIDE DEF ended
<1>5. jobs' \in Seq(Job) /\ Len(jobs') = Len(jobs)
      /\ \A i \in DOMAIN jobs : jobs'[i] = IF i = j THEN ended ELSE jobs[i]
  BY <1>1, <1>2, <1>3, ExceptSeq, LenProperties
<1>6. DOMAIN jobs' = DOMAIN jobs
  BY <1>1, <1>5, LenProperties
<1> QED BY <1>2, <1>4, <1>5, <1>6 DEF ended

\* The end of a job, whatever its manifest says, keeps it: publication covers
\* the slice.
LEMMA JobEndsInv ==
  ASSUME SchedulerInv, NEW j \in DOMAIN jobs, NEW manifest \in Manifests, JobEnds(j, manifest)
  PROVE  SchedulerInv'
<1> USE DEF SchedulerInv
<1>1. /\ jobs' \in Seq(Job) /\ Len(jobs') = Len(jobs) /\ DOMAIN jobs' = DOMAIN jobs
      /\ \A i \in DOMAIN jobs :
           jobs'[i] = IF i = j THEN [jobs[j] EXCEPT !.manifest = manifest] ELSE jobs[i]
      /\ \A i \in DOMAIN jobs : jobs'[i].family = jobs[i].family /\ jobs'[i].cursor = jobs[i].cursor
  BY JobEndsEffect
<1>2. jobs \in Seq(Job) /\ jobs[j] \in Job /\ DayTicks \in Nat \ {0} /\ Universe \in Nat \ {0}
      /\ Cohort \in Nat
  BY Constants1 DEF SchedulerTypes
<1>3. UNCHANGED <<now, store, ticker, faults, blanked, retry_after>>
  BY DEF JobEnds
<1>4. gold_day' \in Int
  <2>1. LatestAdmissible(jobs[j].at) \in Int
    BY <1>2 DEF LatestAdmissible, Job
  <2> QED BY <2>1 DEF JobEnds, SchedulerTypes
<1>5. covered' \subseteq 0 .. Universe - 1 /\ covered \subseteq covered'
  <2>1. Slice(jobs[j].cursor) \subseteq 0 .. Universe - 1
    <3>1. \A i \in 0 .. Cohort - 1 : jobs[j].cursor + i \in Nat
      BY <1>2 DEF Job
    <3>2. \A i \in 0 .. Cohort - 1 : (jobs[j].cursor + i) % Universe \in 0 .. Universe - 1
      BY <1>2, <3>1, Modulus
    <3> HIDE DEF JobEnds
    <3> QED BY <3>2 DEF Slice
  <2> QED BY <2>1 DEF JobEnds, SchedulerTypes
<1>6. JobsGoOn
  BY <1>1, <1>5, <1>2 DEF JobsGoOn
<1>7. \A f, st : st \in SourceState /\ SoundFor(jobs, covered, f, st)
                => SoundFor(jobs', covered', f, st)
  BY <1>1, <1>6, SoundStays
<1>8. SchedulerTypes'
  BY <1>1, <1>3, <1>4, <1>5 DEF SchedulerTypes
<1>9. ASSUME NEW i \in DOMAIN jobs', jobs'[i].family = "spotify",
             jobs'[i].manifest \in {"published", "skipped"}
      PROVE  Slice(jobs'[i].cursor) \subseteq covered'
  <2>1. CASE i = j
    <3>1. jobs[j].family = "spotify" /\ jobs'[i].cursor = jobs[j].cursor
          /\ manifest \in {"published", "skipped"}
      BY <1>1, <1>2, <1>9, <2>1 DEF Job
    <3> QED BY <3>1 DEF JobEnds
  <2>2. CASE i # j
    <3>1. jobs'[i] = jobs[i] /\ i \in DOMAIN jobs
      BY <1>1, <2>2
    <3> QED BY <1>5, <1>9, <3>1 DEF PublishedIsCovered
  <2> QED BY <2>1, <2>2
<1>10. \A f \in Family : store[f] \in SourceState
  BY DEF SchedulerTypes
<1>11. \A t \in Ticker : ticker[t].st \in SourceState
  BY DEF SchedulerTypes, Invocation
<1>12. \A f \in Family : Sound(f, store[f])'
  BY <1>3, <1>7, <1>10 DEF Sound
<1>13. \A t \in Ticker : (Sound(FamilyOf(t), ticker[t].st) /\ Placed(ticker[t]))'
  BY <1>3, <1>7, <1>11 DEF Sound, FamilyOf, Placed
<1> QED BY <1>8, <1>9, <1>12, <1>13 DEF PublishedIsCovered

\* Every step keeps it.
LEMMA StepScheduler == SchedulerInv /\ [Next]_vars => SchedulerInv'
<1> SUFFICES ASSUME SchedulerInv, [Next]_vars PROVE SchedulerInv'
  OBVIOUS
<1>1. ASSUME NEW t \in Ticker, StartTick(t) \/ Step(t) \/ Crash(t) PROVE SchedulerInv'
  BY <1>1, ReadInv, LoadInv, ObserveInv, SaveInv, FireInv DEF Step
<1>2. ASSUME NEW j \in DOMAIN jobs, NEW manifest \in Manifests, JobEnds(j, manifest)
      PROVE  SchedulerInv'
  BY <1>2, JobEndsInv
<1>3. CASE Clock \/ UNCHANGED vars
  <2>1. UNCHANGED <<store, gold_day, jobs, ticker, faults, covered, blanked, retry_after>>
        /\ now' \in 0 .. MaxTime
    BY <1>3, Constants1 DEF Clock, vars, historyVars, SchedulerInv, SchedulerTypes
  <2> QED BY <2>1 DEF SchedulerInv, SchedulerTypes, Sound, FamilyOf, Placed, PublishedIsCovered
<1> QED BY <1>1, <1>2, <1>3 DEF Next

\* The invariant holds in every state of every behaviour.
LEMMA SchedulerInvariant == Spec => []SchedulerInv
<1>1. Init => SchedulerInv
  BY InitScheduler
<1>2. SchedulerInv /\ [Next]_vars => SchedulerInv'
  BY StepScheduler
<1> QED BY <1>1, <1>2, PTL DEF Spec

\* Every variable has its type in every reachable state, whatever ticks
\* overlap: in particular the cursor that nextSpotifyCursor wraps stays an index
\* into the universe of identities.
THEOREM SchedulerTypeCorrect == Spec => []TypeOK
<1>1. SchedulerInv => TypeOK
  <2> SUFFICES ASSUME SchedulerInv PROVE TypeOK
    OBVIOUS
  <2>1. Len(jobs) \in Nat
    BY DEF SchedulerInv, SchedulerTypes
  <2>2. \A f, st : st \in SourceState /\ Sound(f, st) => st \in StateType
    BY <2>1 DEF SourceState, StateType, Sound, SoundFor
  <2>3. store \in [Family -> StateType]
    BY <2>2 DEF SchedulerInv, SchedulerTypes
  <2>4. ticker \in [Ticker -> [pc : Pcs, turn : DOMAIN Families, at : Nat, gold : Int,
                               st : StateType]]
    BY <2>2 DEF SchedulerInv, SchedulerTypes, Invocation
  <2> QED BY <2>3, <2>4 DEF SchedulerInv, SchedulerTypes, TypeOK, Job, Pcs
<1> QED BY <1>1, SchedulerInvariant, PTL

\* The rotating cursor of source-scheduler.ts never runs ahead of the jobs:
\* every identity before it has been in a cohort that was published, whatever
\* ticks overlap, die between fire and mark, or take an unreadable state for
\* an empty one.
THEOREM CursorIsEarned == Spec => []CursorFollowsPublication
<1>1. SchedulerInv => CursorFollowsPublication
  BY DEF SchedulerInv, CursorFollowsPublication, Sound, SoundFor
<1> QED BY <1>1, SchedulerInvariant, PTL

-----------------------------------------------------------------------------
\* An invocation is moved by its own steps only.
LEMMA OthersStay ==
  ASSUME SchedulerInv, NEW u \in Ticker, StartTick(u) \/ Step(u) \/ Crash(u)
  PROVE  \A t \in Ticker : t # u => ticker'[t] = ticker[t]
<1>1. ticker \in [Ticker -> Invocation]
  BY DEF SchedulerInv, SchedulerTypes
<1>2. \A st : Decide(u, st) => \A t \in Ticker : t # u => ticker'[t] = ticker[t]
  BY <1>1 DEF Decide
<1>3. NextFamily(u) => \A t \in Ticker : t # u => ticker'[t] = ticker[t]
  BY <1>1 DEF NextFamily
<1>4. \A pc : Goto(u, pc) => \A t \in Ticker : t # u => ticker'[t] = ticker[t]
  BY <1>1 DEF Goto
<1>5. CASE StartTick(u) \/ Crash(u) \/ ReadGold(u) \/ Fire(u)
  BY <1>1, <1>4, <1>5 DEF StartTick, Crash, ReadGold, Fire
<1>6. CASE Load(u)
  BY <1>1, <1>2, <1>6 DEF Load
<1>7. CASE Observe(u)
  BY <1>1, <1>2, <1>7 DEF Observe
<1>8. CASE Save(u) \/ Keep(u) \/ Mark(u)
  BY <1>1, <1>2, <1>3, <1>8 DEF Save, Keep, Mark, SaveState
<1> QED BY <1>5, <1>6, <1>7, <1>8 DEF Step

\* A tick changes only by its own steps.
LEMMA WhoMoves ==
  ASSUME SchedulerInv, [Next]_vars, NEW t \in Ticker, ticker'[t] # ticker[t]
  PROVE  StartTick(t) \/ Step(t) \/ Crash(t)
<1>1. \A u \in Ticker : StartTick(u) \/ Step(u) \/ Crash(u) => t = u
  BY OthersStay
<1>2. \A j, m : ~JobEnds(j, m)
  BY DEF JobEnds
<1>3. ~Clock /\ ~UNCHANGED vars
  BY DEF Clock, vars
<1> QED BY <1>1, <1>2, <1>3 DEF Next

\* A tick that ends its turn at a family without a fault leaves no job behind
\* that is older than the window (SOURCE_INFLIGHT_TIMEOUT_HOURS): the clearing of a job
\* that hangs survives every decision that runTick makes after it.
THEOREM NothingWedges == Spec => NeverWedged
<1> DEFINE Leaves(t) ==
      LET c == ticker[t]
          f == FamilyOf(t) IN
      /\ At(t, "keep") \/ At(t, "mark")
      /\ ticker'[t] # c /\ faults' = faults
      => \/ store'[f].in_flight = NoJob
         \/ c.at - store'[f].requested_at < InFlightTicks
<1>1. ASSUME SchedulerInv, [Next]_vars, NEW t \in Ticker PROVE Leaves(t)
  <2> DEFINE c == ticker[t]
             f == FamilyOf(t)
  <2>1. SUFFICES ASSUME At(t, "keep") \/ At(t, "mark"), ticker'[t] # c, faults' = faults
                 PROVE  \/ store'[f].in_flight = NoJob
                        \/ c.at - store'[f].requested_at < InFlightTicks
    OBVIOUS
  <2>2. c \in Invocation /\ f \in Family /\ faults \in Nat /\ c.st \in SourceState
        /\ Unwedged(c.st, c.at) /\ store \in [Family -> SourceState]
    <3>1. c \in Invocation /\ f \in Family /\ faults \in Nat /\ c.st \in SourceState
          /\ store \in [Family -> SourceState]
      BY <1>1, Constants1 DEF SchedulerInv, SchedulerTypes, FamilyOf, Invocation
    <3>2. Placed(c)
      BY <1>1 DEF SchedulerInv
    <3> QED BY <2>1, <3>1, <3>2 DEF Placed, At
  <2>3. ~Fault
    BY <2>1, <2>2 DEF Fault
  <2>4. Keep(t) \/ Mark(t)
    <3>1. StartTick(t) \/ Step(t) \/ Crash(t)
      BY <1>1, <2>1, WhoMoves
    <3> QED BY <2>1, <2>3, <3>1 DEF StartTick, Crash, Step, ReadGold, Load, Observe, Save, Fire, At
  <2>5. Put(f, c.st)
    BY <2>3, <2>4 DEF Keep, Mark, SaveState
  <2>6. store'[f] = c.st
    BY <2>2, <2>5 DEF Put
  <2> QED BY <2>2, <2>6 DEF Unwedged, WithinWindow
<1>2. ASSUME SchedulerInv, [Next]_vars PROVE [\A t \in Ticker : Leaves(t)]_vars
  BY <1>1, <1>2
<1>3. NeverWedged <=> [][\A t \in Ticker : Leaves(t)]_vars
  BY DEF NeverWedged
<1> HIDE DEF Leaves
<1> QED BY <1>2, <1>3, SchedulerInvariant, PTL DEF Spec

-----------------------------------------------------------------------------
\* What is known, at a time, by a state of family f.
KeptFor(fired, mk, bl, ra, f, st, time) ==
  /\ st.in_flight # NoJob =>
       /\ st.in_flight \in DOMAIN fired /\ st.requested_at = fired[st.in_flight].at
       /\ st.backoff <= time /\ st.quota_backoff <= time
  /\ f \notin bl =>
       /\ \A i \in DOMAIN fired :
            fired[i].family = f /\ fired[i].manifest = "running" /\ i \in mk
              => i = st.in_flight \/ time - fired[i].at >= InFlightTicks
       /\ ra[f] <= st.backoff \/ ra[f] <= st.quota_backoff \/ ra[f] <= time
       /\ st.in_flight # NoJob => ra[f] <= time

Kept(f, st, time) == KeptFor(jobs, marked, blanked, retry_after, f, st, time)

\* The time up to which the stored states are known: that of the tick at work,
\* if there is one.
HorizonOf(c) == IF c.pc = "idle" THEN now ELSE c.at

\* The steps at which a tick has a family's state in hand.
Holding == {"observe", "save", "keep", "fire", "mark"}

\* What a tick knows of the family it has come to: it fires only outside the
\* backoffs, and the job that it is about to mark is the last one fired.
Knows(c) ==
  /\ c.pc # "idle" => c.at <= now
  /\ c.pc \in Holding => Kept(Families[c.turn], c.st, c.at)
  /\ c.pc = "fire" => ~Held(c.st, c.at)
  /\ IF c.pc = "mark" THEN c.st.in_flight = Len(jobs) ELSE c.st.in_flight \in marked \cup {NoJob}

\* The invariant of one ticker: the stored states and the copy in hand know
\* the jobs at work and the backoffs.
SerialInv ==
  /\ SchedulerInv
  /\ marked \subseteq 0 .. Len(jobs)
  /\ \A f \in Family : store[f].in_flight \in marked \cup {NoJob}
  /\ \A t \in Ticker, f \in Family : Kept(f, store[f], HorizonOf(ticker[t]))
  /\ \A t \in Ticker : Knows(ticker[t])
  /\ OneLiveJobUnlessLost

\* What a state knows it still knows later.
LEMMA KeptLater ==
  ASSUME SchedulerInv, NEW a \in Int, NEW b \in Int, a <= b
  PROVE  \A f \in Family, st \in SourceState : Kept(f, st, a) => Kept(f, st, b)
<1>1. \A i \in DOMAIN jobs : jobs[i].at \in Int
  <2>1. \A i \in DOMAIN jobs : jobs[i] \in Job
    BY DEF SchedulerInv, SchedulerTypes
  <2> QED BY <2>1 DEF Job
<1>2. InFlightTicks \in Int /\ retry_after \in [Family -> Int]
  BY Constants1 DEF SchedulerInv, SchedulerTypes
<1>3. ASSUME NEW f \in Family, NEW st \in SourceState, Kept(f, st, a) PROVE Kept(f, st, b)
  <2>1. st.backoff \in Int /\ st.quota_backoff \in Int /\ retry_after[f] \in Int
    BY <1>2 DEF SourceState
  <2>2. \A i \in DOMAIN jobs : a - jobs[i].at >= InFlightTicks => b - jobs[i].at >= InFlightTicks
    BY <1>1, <1>2
  <2> QED BY <1>3, <2>1, <2>2 DEF Kept, KeptFor
<1> QED BY <1>3

\* What is known stays known when jobs are fired or end, or a family is blanked.
LEMMA KeptStays ==
  ASSUME SchedulerTypes, UNCHANGED retry_after, blanked \subseteq blanked',
         \A i \in DOMAIN jobs : /\ i \in DOMAIN jobs' /\ jobs'[i].family = jobs[i].family
                                /\ jobs'[i].at = jobs[i].at
                                /\ jobs'[i].manifest = "running" => jobs[i].manifest = "running",
         \A i \in DOMAIN jobs' : i \in marked' => i \in DOMAIN jobs /\ i \in marked
  PROVE  \A f, st, time : Kept(f, st, time)
                          => KeptFor(jobs', marked', blanked', retry_after', f, st, time)
BY DEF Kept, KeptFor

\* A state taken for empty knows what is asked of it, since the family then
\* counts as one whose state was lost.
LEMMA EmptyIsKept ==
  ASSUME NEW f, f \in blanked', NEW time
  PROVE  KeptFor(jobs', marked', blanked', retry_after', f, EmptyState, time)
BY EmptyFacts DEF KeptFor

\* So does the empty state when nothing has been fired.
LEMMA EmptyAtInit ==
  ASSUME Init, NEW f \in Family, NEW time \in Nat
  PROVE  Kept(f, EmptyState, time)
<1>1. DOMAIN jobs = {} /\ retry_after[f] = NoTime /\ EmptyState.in_flight = NoJob
  BY EmptyFacts DEF Init
<1> QED BY <1>1 DEF Kept, KeptFor, NoTime

\* The invariant holds when nothing has been fired.
LEMMA InitSerial == Init => SerialInv
<1> SUFFICES ASSUME Init PROVE SerialInv
  OBVIOUS
<1>1. SchedulerInv /\ Len(jobs) = 0 /\ now = 0 /\ DOMAIN jobs = {}
  BY InitScheduler DEF Init
<1>2. \A t \in Ticker : ticker[t] = Idle
  BY DEF Init
<1>3. \A t \in Ticker, f \in Family : Kept(f, store[f], HorizonOf(ticker[t]))
  BY <1>1, <1>2, EmptyAtInit, EmptyFacts DEF Init, HorizonOf
<1>4. \A t \in Ticker : Knows(ticker[t])
  BY <1>2, EmptyFacts DEF Knows, Holding
<1>5. \A f \in Family : store[f].in_flight \in marked \cup {NoJob}
  BY EmptyFacts DEF Init
<1>6. marked \subseteq 0 .. Len(jobs)
  BY DEF Init
<1> QED BY <1>1, <1>3, <1>4, <1>5, <1>6 DEF SerialInv, OneLiveJobUnlessLost

\* A step that puts nothing and fires nothing.
LEMMA LooksOnly ==
  ASSUME SerialInv, SchedulerInv', NEW t \in Ticker, Ticker = {t},
         UNCHANGED <<now, store, jobs, marked, retry_after>>, blanked \subseteq blanked',
         NEW new \in Invocation, ticker' = [ticker EXCEPT ![t] = new],
         HorizonOf(ticker[t]) <= HorizonOf(new),
         Knows(new)'
  PROVE  SerialInv'
<1> USE DEF SerialInv
<1> DEFINE c == ticker[t]
<1>1. c \in Invocation /\ now \in Nat /\ store \in [Family -> SourceState] /\ ticker'[t] = new
  BY Constants1 DEF SchedulerInv, SchedulerTypes
<1>2. HorizonOf(c) \in Int /\ HorizonOf(new) \in Int /\ HorizonOf(new)' = HorizonOf(new)
  BY <1>1 DEF HorizonOf, Invocation
<1>3. ASSUME NEW f \in Family PROVE Kept(f, store[f], HorizonOf(ticker[t]))'
  <2>1. Kept(f, store[f], HorizonOf(c))
    OBVIOUS
  <2>2. Kept(f, store[f], HorizonOf(new))
    BY <1>1, <1>2, <2>1, KeptLater
  <2>3. KeptFor(jobs', marked', blanked', retry_after', f, store[f], HorizonOf(new))
    BY <2>2 DEF Kept, KeptFor
  <2> QED BY <1>1, <1>2, <2>3 DEF Kept
<1>4. OneLiveJobUnlessLost'
  BY DEF OneLiveJobUnlessLost, Duplicates
<1>5. \A u \in Ticker : Knows(ticker[u])'
  BY <1>1 DEF Knows
<1>6. marked' \subseteq 0 .. Len(jobs')
  OBVIOUS
<1> QED BY <1>3, <1>4, <1>5, <1>6

\* Starting a tick, reading the Gold day and dying keep the invariant.
LEMMA BetweenSerial ==
  ASSUME SerialInv, NEW t \in Ticker, Ticker = {t}, StartTick(t) \/ ReadGold(t) \/ Crash(t)
  PROVE  SerialInv'
<1> USE DEF SerialInv
<1> DEFINE c == ticker[t]
<1>1. c \in Invocation /\ now \in Nat /\ gold_day \in Int /\ Knows(c) /\ c.at \in Nat
      /\ Ticker \subseteq {t} /\ SchedulerInv'
  BY SMTT(30), ReadInv, Constants1 DEF SchedulerInv, SchedulerTypes, Invocation
<1>2. UNCHANGED <<now, store, jobs, marked, blanked, retry_after>>
  BY DEF StartTick, ReadGold, Crash, historyVars
<1>3. HorizonOf(c) <= now
  BY <1>1 DEF HorizonOf, Knows
<1>4. CASE StartTick(t)
  <2>1. [Idle EXCEPT !.pc = "gold", !.at = now] \in Invocation
    BY <1>1, EmptyFacts DEF Invocation, Pcs
  <2>2. PICK new \in Invocation : new = [Idle EXCEPT !.pc = "gold", !.at = now]
    BY <2>1
  <2>5. new.st = EmptyState /\ new.pc = "gold" /\ new.at = now
        /\ ticker' = [ticker EXCEPT ![t] = new]
    BY <1>4, <2>2, EmptyFacts DEF StartTick, Invocation
  <2>3. Knows(new)'
    BY <1>1, <1>2, <2>5, EmptyFacts DEF Knows, Holding
  <2>4. HorizonOf(c) <= HorizonOf(new)
    BY <1>3, <2>5 DEF HorizonOf
  <2> QED BY <1>1, <1>2, <2>5, <2>3, <2>4, LooksOnly
<1>5. CASE Crash(t)
  <2>1. Knows(Idle)'
    BY EmptyFacts DEF Knows, Holding
  <2>2. HorizonOf(c) <= HorizonOf(Idle)
    BY <1>3, EmptyFacts DEF HorizonOf
  <2> QED BY <1>1, <1>2, <1>5, <2>1, <2>2, EmptyFacts, LooksOnly DEF Crash
<1>6. CASE ReadGold(t)
  <2> DEFINE New(g) == [c EXCEPT !.gold = g, !.pc = "load"]
  <2>1. \A g \in Int : New(g) \in Invocation /\ New(g).st = c.st /\ New(g).pc = "load"
                       /\ New(g).turn = c.turn /\ New(g).at = c.at
    BY <1>1 DEF Invocation, Pcs
  <2>2. \E g \in {gold_day, c.gold} : ticker' = [ticker EXCEPT ![t] = New(g)]
    <3>1. CASE Goto(t, "load")
      <4>1. New(c.gold) = [c EXCEPT !.pc = "load"]
        BY <1>1 DEF Invocation
      <4> QED BY <3>1, <4>1 DEF Goto, SchedulerInv, SchedulerTypes
    <3>2. CASE ticker' = [ticker EXCEPT ![t].gold = gold_day, ![t].pc = "load"]
      BY <3>2 DEF SchedulerInv, SchedulerTypes
    <3> QED BY <1>6, <3>1, <3>2 DEF ReadGold
  <2>3. c.gold \in Int /\ c.pc = "gold"
    BY <1>1, <1>6 DEF Invocation, ReadGold, At
  <2> HIDE DEF New
  <2>4. PICK new \in Invocation :
          /\ ticker' = [ticker EXCEPT ![t] = new]
          /\ new.st = c.st /\ new.pc = "load" /\ new.turn = c.turn /\ new.at = c.at
    BY <1>1, <2>1, <2>2, <2>3
  <2>5. Knows(new)'
    BY <1>1, <1>2, <2>3, <2>4 DEF Knows, Holding
  <2>6. HorizonOf(c) <= HorizonOf(new)
    BY <1>1, <2>3, <2>4 DEF HorizonOf
  <2> QED BY <1>1, <1>2, <2>4, <2>5, <2>6, LooksOnly
<1> QED BY <1>4, <1>5, <1>6

\* A decision leaves the tick with the state it was taken on.
LEMMA DecideKnows ==
  ASSUME SchedulerInv, NEW t \in Ticker, NEW st \in SourceState, Decide(t, st),
         Sound(FamilyOf(t), st), Unwedged(st, ticker[t].at),
         ticker[t].at <= now, UNCHANGED now,
         KeptFor(jobs', marked', blanked', retry_after', FamilyOf(t), st, ticker[t].at),
         st.in_flight \in marked' \cup {NoJob}
  PROVE  \E new \in Invocation :
           /\ ticker' = [ticker EXCEPT ![t] = new]
           /\ new.pc # "idle" /\ new.at = ticker[t].at
           /\ Knows(new)'
<1>1. PICK new \in Invocation :
           /\ ticker' = [ticker EXCEPT ![t] = new]
           /\ new.turn = ticker[t].turn /\ new.st = st /\ Placed(new)
           /\ new.at = ticker[t].at /\ new.pc \in {"fire", "keep"}
           /\ new.pc = "fire" => ~Held(st, new.at)
  BY DecideGoesOn
<1>2. Knows(new)'
  BY <1>1 DEF Knows, Kept, FamilyOf
<1> QED BY <1>1, <1>2

\* Loading a state keeps it; an unreadable one counts as lost.
LEMMA LoadSerial ==
  ASSUME SerialInv, NEW t \in Ticker, Ticker = {t}, Load(t)
  PROVE  SerialInv'
<1> USE DEF SerialInv
<1> DEFINE c == ticker[t]
           f == FamilyOf(t)
<1>1. c \in Invocation /\ f \in Family /\ Knows(c) /\ SchedulerInv' /\ c.pc = "load"
      /\ c.at \in Nat
  BY Constants1, LoadInv DEF SchedulerInv, SchedulerTypes, FamilyOf, Invocation, Load, At
<1>2. UNCHANGED <<now, store, jobs, marked, retry_after>> /\ blanked \subseteq blanked'
  BY DEF Load
<1>3. PICK st \in {store[f], EmptyState} :
        /\ IF st.in_flight = NoJob THEN Decide(t, st)
           ELSE ticker' = [ticker EXCEPT ![t].st = st, ![t].pc = "observe"]
        /\ st = store[f] \/ f \in blanked'
  BY DEF Load
<1>4. st \in SourceState /\ Sound(f, st)
  BY <1>1, <1>3, EmptyFacts, EmptyIsSound DEF SchedulerInv, SchedulerTypes
<1>5. KeptFor(jobs', marked', blanked', retry_after', f, st, c.at)
  <2>1. CASE st = store[f]
    <3>1. Kept(f, store[f], c.at)
      BY <1>1 DEF HorizonOf
    <3> QED BY <1>2, <2>1, <3>1 DEF Kept, KeptFor
  <2>2. CASE st = EmptyState /\ f \in blanked'
    BY <2>2, EmptyIsKept
  <2> QED BY <1>3, <2>1, <2>2
<1>6. c.at <= now /\ st.in_flight \in marked' \cup {NoJob}
  BY <1>1, <1>2, <1>3, EmptyFacts DEF Knows
<1>7. CASE st.in_flight = NoJob
  <2>1. Decide(t, st) /\ Unwedged(st, c.at)
    BY <1>3, <1>7 DEF Unwedged
  <2>2. PICK new \in Invocation :
           /\ ticker' = [ticker EXCEPT ![t] = new]
           /\ new.pc # "idle" /\ new.at = ticker[t].at
           /\ Knows(new)'
    BY <1>2, <1>4, <1>5, <1>6, <2>1, DecideKnows
  <2>3. HorizonOf(c) <= HorizonOf(new)
    BY <1>1, <2>2 DEF HorizonOf
  <2> QED BY <1>1, <1>2, <2>2, <2>3, LooksOnly
<1>8. CASE st.in_flight # NoJob
  <2>1. [c EXCEPT !.st = st, !.pc = "observe"] \in Invocation
    BY <1>1, <1>4 DEF Invocation, Pcs
  <2>2. PICK new \in Invocation : new = [c EXCEPT !.st = st, !.pc = "observe"]
    BY <2>1
  <2>5. new.st = st /\ new.pc = "observe" /\ new.turn = c.turn /\ new.at = c.at
    BY <1>1, <2>2 DEF Invocation
  <2>6. ticker' = [ticker EXCEPT ![t] = new]
    BY <1>3, <1>8, <2>2 DEF SchedulerInv, SchedulerTypes
  <2>3. Knows(new)'
    BY <1>2, <1>5, <1>6, <2>5 DEF Knows, Kept, FamilyOf
  <2>4. HorizonOf(c) <= HorizonOf(new)
    BY <1>1, <2>5 DEF HorizonOf
  <2> QED BY <1>1, <1>2, <2>5, <2>6, <2>3, <2>4, LooksOnly
<1> QED BY <1>7, <1>8

\* An observation keeps what is known: a job it drops has ended or is past the window.
LEMMA ObservedIsKept ==
  ASSUME SchedulerInv, NEW f \in Family, NEW st \in SourceState, NEW time \in Nat,
         st.in_flight # NoJob, Kept(f, st, time),
         NEW manifest, manifest = "none" \/ manifest = jobs[st.in_flight].manifest
  PROVE  /\ Kept(f, Observed(f, st, manifest, time), time)
         /\ Observed(f, st, manifest, time).in_flight \in {NoJob, st.in_flight}
<1> DEFINE new == Observed(f, st, manifest, time)
<1>1. st.in_flight \in DOMAIN jobs /\ st.requested_at = jobs[st.in_flight].at
  BY DEF Kept, KeptFor
<1>2. QuotaTicks \in Nat /\ FailureTicks \in Nat /\ retry_after \in [Family -> Int]
  BY Constants1 DEF SchedulerInv, SchedulerTypes
<1>3. f \notin blanked => retry_after[f] <= time
  BY DEF Kept, KeptFor
<1>4. CASE new.in_flight = NoJob /\ (manifest \notin {"none", "running"} \/ ~WithinWindow(st, time))
  <2>1. ASSUME NEW i \in DOMAIN jobs, jobs[i].family = f, jobs[i].manifest = "running",
               i \in marked, f \notin blanked
        PROVE  time - jobs[i].at >= InFlightTicks
    <3>1. CASE i = st.in_flight
      <4>1. ~WithinWindow(st, time) /\ jobs[i].at = st.requested_at
        BY <1>1, <1>4, <2>1, <3>1
      <4> QED BY SMTT(30), <4>1, Constants1 DEF WithinWindow, SourceState
    <3>2. CASE i # st.in_flight
      BY <2>1, <3>2 DEF Kept, KeptFor
    <3> QED BY <3>1, <3>2
  <2> QED BY <1>3, <1>4, <2>1 DEF Kept, KeptFor
<1>5. \/ new = st
      \/ new.in_flight = NoJob /\ (manifest \notin {"none", "running"} \/ ~WithinWindow(st, time))
  <2>1. CASE manifest \in {"published", "skipped"}
    <3>1. new = OnSuccess(f, st, time)
      BY <2>1 DEF Observed
    <3> QED BY <2>1, <3>1, OutcomeFacts
  <2>2. CASE manifest = "truncated"
    <3>1. new = OnQuota(st, time)
      BY <2>2 DEF Observed
    <3>2. OnQuota(st, time).in_flight = NoJob
      BY OutcomeFacts
    <3> QED BY <2>2, <3>1, <3>2
  <2>3. CASE manifest = "failed"
    <3>1. new = OnFailure(st, time)
      BY <2>3 DEF Observed
    <3> QED BY <2>3, <3>1, OutcomeFacts
  <2>4. CASE manifest \notin {"published", "skipped", "truncated", "failed"}
    <3>1. new = IF WithinWindow(st, time) THEN st ELSE Clear(st)
      BY <2>4 DEF Observed
    <3> QED BY <3>1, ClearFacts
  <2> QED BY <2>1, <2>2, <2>3, <2>4
<1> QED BY <1>4, <1>5

\* Observing keeps it: a job is cleared only when it has ended or its window
\* is over, and a failure stores the backoff that is due.
LEMMA ObserveSerial ==
  ASSUME SerialInv, NEW t \in Ticker, Ticker = {t}, Observe(t)
  PROVE  SerialInv'
<1> USE DEF SerialInv
<1> DEFINE c == ticker[t]
           f == FamilyOf(t)
<1>1. c \in Invocation /\ f \in Family /\ Knows(c) /\ SchedulerInv' /\ c.pc = "observe"
      /\ c.at \in Nat /\ c.st \in SourceState /\ Sound(f, c.st) /\ c.st.in_flight # NoJob
  BY Constants1, ObserveInv
     DEF SchedulerInv, SchedulerTypes, FamilyOf, Invocation, Observe, At, Placed
<1>2. UNCHANGED <<now, store, jobs, marked, blanked, retry_after>>
  BY DEF Observe, historyVars
<1>3. PICK manifest \in {jobs[c.st.in_flight].manifest, "none"} :
        LET st == Observed(f, c.st, manifest, c.at) IN
        IF st = c.st THEN Decide(t, st)
        ELSE ticker' = [ticker EXCEPT ![t].st = st, ![t].pc = "save"]
  BY DEF Observe
<1> DEFINE st == Observed(f, c.st, manifest, c.at)
<1>4. st \in SourceState /\ Sound(f, st) /\ Unwedged(st, c.at)
  BY <1>1, <1>3, ObservedIsSound
<1>5. Kept(f, c.st, c.at) /\ c.st.in_flight \in marked \cup {NoJob}
  BY <1>1 DEF Knows, Holding, FamilyOf
<1>6. Kept(f, st, c.at) /\ st.in_flight \in {NoJob, c.st.in_flight}
  BY <1>1, <1>3, <1>5, ObservedIsKept
<1>7. IF st = c.st THEN Decide(t, st)
      ELSE ticker' = [ticker EXCEPT ![t].st = st, ![t].pc = "save"]
  BY <1>3
<1> HIDE DEF st
<1>8. KeptFor(jobs', marked', blanked', retry_after', f, st, c.at)
      /\ c.at <= now /\ st.in_flight \in marked' \cup {NoJob}
  BY <1>1, <1>2, <1>5, <1>6 DEF Kept, KeptFor, Knows
<1>9. CASE st = c.st
  <2>1. PICK new \in Invocation :
           /\ ticker' = [ticker EXCEPT ![t] = new]
           /\ new.pc # "idle" /\ new.at = ticker[t].at
           /\ Knows(new)'
    BY <1>2, <1>4, <1>7, <1>8, <1>9, DecideKnows
  <2>2. HorizonOf(c) <= HorizonOf(new)
    BY <1>1, <2>1 DEF HorizonOf
  <2> QED BY <1>1, <1>2, <2>1, <2>2, LooksOnly
<1>10. CASE st # c.st
  <2>1. [c EXCEPT !.st = st, !.pc = "save"] \in Invocation
    BY <1>1, <1>4 DEF Invocation, Pcs
  <2>2. PICK new \in Invocation : new = [c EXCEPT !.st = st, !.pc = "save"]
    BY <2>1
  <2>5. new.st = st /\ new.pc = "save" /\ new.turn = c.turn /\ new.at = c.at
    BY <1>1, <2>2 DEF Invocation
  <2>6. ticker' = [ticker EXCEPT ![t] = new]
    BY <1>7, <1>10, <2>2 DEF SchedulerInv, SchedulerTypes
  <2>3. Knows(new)'
    BY <1>2, <1>8, <2>5 DEF Knows, Kept, FamilyOf
  <2>4. HorizonOf(c) <= HorizonOf(new)
    BY <1>1, <2>5 DEF HorizonOf
  <2> QED BY <1>1, <1>2, <2>5, <2>6, <2>3, <2>4, LooksOnly
<1> QED BY <1>9, <1>10

\* A put keeps what is known of its family and of the others.
LEMMA PutKeeps ==
  ASSUME SchedulerInv, NEW f \in Family, NEW st \in SourceState, Sound(f, st), Put(f, st),
         UNCHANGED <<jobs, blanked>>, NEW time \in Nat
  PROVE  /\ Kept(f, st, time)
              => KeptFor(jobs', marked', blanked', retry_after', f, st, time)
         /\ \A g \in Family, x \in SourceState :
              g # f /\ Kept(g, x, time)
              => KeptFor(jobs', marked', blanked', retry_after', g, x, time)
<1>1. retry_after \in [Family -> Int] /\ st.backoff \in Int /\ st.quota_backoff \in Int
      /\ retry_after[f] \in Int
  BY DEF SchedulerInv, SchedulerTypes, SourceState
<1>2. /\ \A g \in Family : g # f => retry_after'[g] = retry_after[g]
      /\ \/ retry_after'[f] = retry_after[f]
         \/ retry_after'[f] = st.backoff
         \/ retry_after'[f] = st.quota_backoff
  BY <1>1 DEF Put
<1>3. \A i \in DOMAIN jobs : i \in marked' =>
         i \in marked \/ (i = st.in_flight /\ jobs[i].family = f)
  <2>1. DOMAIN jobs = 1..Len(jobs) /\ marked' = marked \cup {st.in_flight}
    BY DEF SchedulerInv, SchedulerTypes, Put
  <2> QED BY <2>1 DEF Sound, SoundFor, NoJob
<1>4. ASSUME Kept(f, st, time)
      PROVE  KeptFor(jobs', marked', blanked', retry_after', f, st, time)
  BY <1>1, <1>2, <1>3, <1>4 DEF Kept, KeptFor
<1>5. ASSUME NEW g \in Family, NEW x \in SourceState, g # f, Kept(g, x, time)
      PROVE  KeptFor(jobs', marked', blanked', retry_after', g, x, time)
  BY <1>2, <1>3, <1>5 DEF Kept, KeptFor
<1> QED BY <1>4, <1>5

\* A step of a tick that puts the state it holds.
LEMMA PutSerial ==
  ASSUME SerialInv, SchedulerInv', NEW t \in Ticker, Ticker = {t},
         ticker[t].pc \in {"save", "keep", "mark"}, Put(FamilyOf(t), ticker[t].st),
         UNCHANGED <<now, jobs, blanked>>,
         NEW new \in Invocation, ticker' = [ticker EXCEPT ![t] = new],
         HorizonOf(ticker[t]) <= HorizonOf(new),
         Knows(new)'
  PROVE  SerialInv'
<1> USE DEF SerialInv
<1> DEFINE c == ticker[t]
           h == FamilyOf(t)
<1>1. c \in Invocation /\ now \in Nat /\ store \in [Family -> SourceState] /\ ticker'[t] = new
      /\ h \in Family /\ c.st \in SourceState /\ Sound(h, c.st) /\ Knows(c) /\ c.at \in Nat
      /\ DOMAIN jobs = 1..Len(jobs) /\ Len(jobs) \in Nat
  BY Constants1 DEF SchedulerInv, SchedulerTypes, FamilyOf, Invocation
<1>2. HorizonOf(c) \in Nat /\ HorizonOf(new) \in Nat /\ HorizonOf(new)' = HorizonOf(new)
      /\ HorizonOf(c) = c.at
  BY <1>1 DEF HorizonOf, Invocation
<1>3. Kept(h, c.st, c.at)
  BY <1>1 DEF Knows, Holding, FamilyOf
<1>4. store' = [store EXCEPT ![h] = c.st] /\ marked' = marked \cup {c.st.in_flight}
  BY DEF Put
<1>5. ASSUME NEW f \in Family PROVE Kept(f, store[f], HorizonOf(ticker[t]))'
  <2>1. CASE f = h
    <3>1. Kept(h, c.st, HorizonOf(new))
      BY <1>1, <1>2, <1>3, KeptLater
    <3>2. KeptFor(jobs', marked', blanked', retry_after', h, c.st, HorizonOf(new))
      BY <1>1, <1>2, <3>1, PutKeeps
    <3> QED BY <1>1, <1>2, <1>4, <2>1, <3>2 DEF Kept
  <2>2. CASE f # h
    <3>1. Kept(f, store[f], HorizonOf(c))
      OBVIOUS
    <3>2. Kept(f, store[f], HorizonOf(new))
      BY <1>1, <1>2, <3>1, KeptLater
    <3>3. KeptFor(jobs', marked', blanked', retry_after', f, store[f], HorizonOf(new))
      BY <1>1, <1>2, <2>2, <3>2, PutKeeps
    <3> QED BY <1>1, <1>2, <1>4, <2>2, <3>3 DEF Kept
  <2> QED BY <2>1, <2>2
<1>6. c.st.in_flight \in marked \cup {NoJob} \/ c.st.in_flight = Len(jobs)
  BY <1>1 DEF Knows
<1>7. OneLiveJobUnlessLost'
  <2>1. ASSUME NEW i \in DOMAIN jobs, NEW j \in DOMAIN jobs, Duplicates(i, j), i \in marked'
        PROVE  i \in marked
    <3>1. i # Len(jobs) /\ i # NoJob
      BY <1>1, <2>1 DEF Duplicates, NoJob
    <3> QED BY <1>4, <1>6, <2>1, <3>1
  <2>2. \A i, j : Duplicates(i, j)' => Duplicates(i, j)
    BY DEF Duplicates
  <2> QED BY <2>1, <2>2 DEF OneLiveJobUnlessLost
<1>8. marked' \subseteq 0 .. Len(jobs')
  <2>1. marked \subseteq 0 .. Len(jobs) /\ Len(jobs') = Len(jobs)
    OBVIOUS
  <2>2. c.st.in_flight \in 0 .. Len(jobs)
    <3>1. CASE c.st.in_flight \in marked
      BY <2>1, <3>1
    <3>2. CASE c.st.in_flight = NoJob
      BY <1>1, <3>2 DEF NoJob
    <3>3. CASE c.st.in_flight = Len(jobs)
      BY <1>1, <3>3
    <3> QED BY <1>6, <3>1, <3>2, <3>3
  <2> QED BY <1>4, <2>1, <2>2
<1>9. \A f \in Family : store'[f].in_flight \in marked' \cup {NoJob}
  BY <1>1, <1>4
<1>10. \A u \in Ticker : Knows(ticker[u])'
  BY <1>1 DEF Knows
<1> QED BY <1>5, <1>7, <1>8, <1>9, <1>10

\* Storing the tick's copy keeps it: no other tick has stored anything since
\* it was read.
LEMMA SaveSerial ==
  ASSUME SerialInv, NEW t \in Ticker, Ticker = {t}, Save(t) \/ Keep(t) \/ Mark(t)
  PROVE  SerialInv'
<1> USE DEF SerialInv
<1> DEFINE c == ticker[t]
           f == FamilyOf(t)
<1>1. c \in Invocation /\ f \in Family /\ c.at \in Nat /\ c.st \in SourceState
      /\ Sound(f, c.st) /\ Knows(c) /\ SchedulerInv' /\ now \in Nat
      /\ c.pc \in {"save", "keep", "mark"} /\ Unwedged(c.st, c.at)
  <2>1. SchedulerInv' /\ Knows(c)
    BY SaveInv
  <2>2. c.pc \in {"save", "keep", "mark"}
    BY DEF Save, Keep, Mark, At
  <2>3. c \in Invocation /\ f \in Family /\ c.at \in Nat /\ c.st \in SourceState /\ now \in Nat
    BY Constants1 DEF SchedulerInv, SchedulerTypes, FamilyOf, Invocation
  <2>4. Sound(f, c.st) /\ Placed(c)
    BY DEF SchedulerInv
  <2> QED BY <2>1, <2>2, <2>3, <2>4 DEF Placed
<1>2. /\ UNCHANGED <<now, gold_day, jobs, covered, blanked>>
      /\ \/ /\ Put(f, c.st)
            /\ \/ c.pc = "save" /\ Decide(t, c.st)
               \/ NextFamily(t)
               \/ ticker' = [ticker EXCEPT ![t] = Idle]
         \/ UNCHANGED <<store, marked, retry_after>> /\ ticker' = [ticker EXCEPT ![t] = Idle]
  BY DEF Save, Keep, Mark, SaveState, At
<1>3. c.at <= now /\ HorizonOf(c) = c.at /\ Kept(f, c.st, c.at)
  BY <1>1 DEF Knows, HorizonOf, Holding, FamilyOf
<1>4. Knows(Idle)'
  BY EmptyFacts DEF Knows, Holding
<1>5. HorizonOf(c) <= HorizonOf(Idle)
  BY <1>3, EmptyFacts DEF HorizonOf
<1>6. CASE UNCHANGED <<store, marked, retry_after>> /\ ticker' = [ticker EXCEPT ![t] = Idle]
  BY <1>1, <1>2, <1>4, <1>5, <1>6, EmptyFacts, LooksOnly
<1>7. CASE Put(f, c.st) /\ ticker' = [ticker EXCEPT ![t] = Idle]
  BY <1>1, <1>2, <1>4, <1>5, <1>7, EmptyFacts, PutSerial
<1>8. CASE Put(f, c.st) /\ NextFamily(t)
  <2>1. PICK new \in Invocation :
           /\ ticker' = [ticker EXCEPT ![t] = new]
           /\ new.st = EmptyState /\ new.pc \in {"idle", "gold"}
           /\ new.pc = "gold" => new.at = ticker[t].at
    BY <1>8, NextFamilyGoesOn
  <2>2. Knows(new)'
    BY <1>2, <1>3, <2>1, EmptyFacts DEF Knows, Holding
  <2>3. HorizonOf(c) <= HorizonOf(new)
    BY <1>1, <1>3, <2>1 DEF HorizonOf
  <2> QED BY <1>1, <1>2, <1>8, <2>1, <2>2, <2>3, PutSerial
<1>9. CASE Put(f, c.st) /\ c.pc = "save" /\ Decide(t, c.st)
  <2>1. KeptFor(jobs', marked', blanked', retry_after', f, c.st, c.at)
    BY <1>1, <1>2, <1>3, <1>9, PutKeeps
  <2>2. c.st.in_flight \in marked' \cup {NoJob}
    BY <1>9 DEF Put
  <2>3. PICK new \in Invocation :
           /\ ticker' = [ticker EXCEPT ![t] = new]
           /\ new.pc # "idle" /\ new.at = ticker[t].at
           /\ Knows(new)'
    BY <1>1, <1>2, <1>3, <1>9, <2>1, <2>2, DecideKnows
  <2>4. HorizonOf(c) <= HorizonOf(new)
    BY <1>1, <1>3, <2>3 DEF HorizonOf
  <2> QED BY <1>1, <1>2, <1>9, <2>3, <2>4, PutSerial
<1> QED BY <1>2, <1>6, <1>7, <1>8, <1>9

\* A job that is fired finds no job of its family within the window that was marked.
LEMMA FireKeeps ==
  ASSUME SchedulerInv, NEW f \in Family, NEW st \in SourceState, NEW time \in Nat,
         Kept(f, st, time), ~Held(st, time)
  PROVE  /\ st.backoff <= time /\ st.quota_backoff <= time
         /\ f \notin blanked =>
              /\ retry_after[f] <= time
              /\ \A i \in DOMAIN jobs :
                   jobs[i].family = f /\ jobs[i].manifest = "running" /\ i \in marked
                     => time - jobs[i].at >= InFlightTicks
<1>1. st.backoff \in Int /\ st.quota_backoff \in Int /\ retry_after[f] \in Int
      /\ InFlightTicks \in Int /\ st.requested_at \in Int
  BY Constants1 DEF SchedulerInv, SchedulerTypes, SourceState
<1>2. st.backoff <= time /\ st.quota_backoff <= time
      /\ (st.in_flight # NoJob => time - st.requested_at >= InFlightTicks)
  BY <1>1 DEF Held, WithinWindow
<1>3. \A i \in DOMAIN jobs : i # NoJob
  BY DEF SchedulerInv, SchedulerTypes, NoJob
<1> QED BY <1>1, <1>2, <1>3 DEF Kept, KeptFor

\* Firing keeps it: the state fired from has no job within its window.
LEMMA FireSerial ==
  ASSUME SerialInv, NEW t \in Ticker, Ticker = {t}, Fire(t)
  PROVE  SerialInv'
<1> USE DEF SerialInv
<1> DEFINE c == ticker[t]
           f == FamilyOf(t)
           n == Len(jobs) + 1
<1>1. c \in Invocation /\ f \in Family /\ c.at \in Nat /\ c.st \in SourceState
      /\ Knows(c) /\ SchedulerInv' /\ now \in Nat /\ c.pc = "fire"
      /\ DOMAIN jobs = 1..Len(jobs) /\ Len(jobs) \in Nat /\ jobs \in Seq(Job)
      /\ store \in [Family -> SourceState]
  <2>1. SchedulerInv' /\ Knows(c)
    BY FireInv
  <2>2. c.pc = "fire"
    BY DEF Fire, At
  <2>3. c \in Invocation /\ f \in Family /\ c.at \in Nat /\ c.st \in SourceState /\ now \in Nat
        /\ jobs \in Seq(Job) /\ store \in [Family -> SourceState]
    BY Constants1 DEF SchedulerInv, SchedulerTypes, FamilyOf, Invocation
  <2>4. DOMAIN jobs = 1..Len(jobs) /\ Len(jobs) \in Nat
    BY <2>3
  <2> QED BY <2>1, <2>2, <2>3, <2>4
<1>2. c.at <= now /\ Kept(f, c.st, c.at) /\ ~Held(c.st, c.at)
  BY <1>1 DEF Knows, Holding, FamilyOf
<1>3. UNCHANGED <<now, store, marked, blanked, retry_after>>
  BY DEF Fire, historyVars
<1>4. PICK job \in Job, new \in Invocation :
           /\ jobs' = Append(jobs, job)
           /\ job.family = f /\ job.at = c.at
           /\ ticker' = [ticker EXCEPT ![t] = new]
           /\ new.pc = "mark" /\ new.turn = c.turn /\ new.at = c.at
           /\ new.st.in_flight = n /\ new.st.requested_at = c.at
           /\ new.st.backoff = c.st.backoff /\ new.st.quota_backoff = c.st.quota_backoff
  BY FireEffect
<1>5. /\ Len(jobs') = n /\ DOMAIN jobs' = 1..n /\ jobs'[n] = job
      /\ \A i \in DOMAIN jobs : i \in DOMAIN jobs' /\ jobs'[i] = jobs[i]
      /\ \A i \in DOMAIN jobs' : i = n \/ i \in DOMAIN jobs
  BY <1>1, <1>4, AppendProperties
<1>6. n \notin marked /\ n # NoJob /\ n \in DOMAIN jobs'
  BY <1>1, <1>5 DEF NoJob
<1> HIDE DEF n
<1>7. \A g, x, time : Kept(g, x, time)
                      => KeptFor(jobs', marked', blanked', retry_after', g, x, time)
  BY <1>3, <1>5, <1>6 DEF Kept, KeptFor
<1>8. /\ c.st.backoff <= c.at /\ c.st.quota_backoff <= c.at
      /\ f \notin blanked =>
           /\ retry_after[f] <= c.at
           /\ \A i \in DOMAIN jobs :
                jobs[i].family = f /\ jobs[i].manifest = "running" /\ i \in marked
                  => c.at - jobs[i].at >= InFlightTicks
  BY <1>1, <1>2, FireKeeps
<1>9. KeptFor(jobs', marked', blanked', retry_after', f, new.st, c.at)
  BY <1>3, <1>4, <1>5, <1>6, <1>8 DEF KeptFor
<1>10. Knows(new)'
  BY <1>2, <1>3, <1>4, <1>5, <1>9 DEF Knows, Kept, FamilyOf
<1>11. ticker'[t] = new /\ HorizonOf(new)' = c.at /\ HorizonOf(c) = c.at
  BY <1>1, <1>4 DEF HorizonOf, SchedulerInv, SchedulerTypes
<1>12. ASSUME NEW g \in Family PROVE Kept(g, store[g], HorizonOf(ticker[t]))'
  <2>1. Kept(g, store[g], c.at)
    BY <1>11
  <2> QED BY <1>3, <1>7, <1>11, <2>1 DEF Kept
<1>13. ASSUME NEW i \in DOMAIN jobs', NEW j \in DOMAIN jobs', Duplicates(i, j)'
       PROVE  i \notin marked' \/ jobs'[i].family \in blanked'
  <2>1. CASE i = n
    BY <1>3, <1>6, <2>1
  <2>2. CASE i # n /\ j = n
    <3>1. i \in DOMAIN jobs /\ jobs'[i] = jobs[i] /\ jobs'[j] = job
      BY <1>5, <2>2
    <3>2. jobs[i].family = f /\ jobs[i].manifest = "running" /\ c.at - jobs[i].at < InFlightTicks
      BY <1>4, <1>13, <3>1 DEF Duplicates
    <3>3. jobs[i].at \in Nat /\ InFlightTicks \in Nat
      <4>1. jobs[i] \in Job
        BY <1>1, <3>1
      <4> QED BY <4>1, Constants1 DEF Job
    <3> QED BY <1>1, <1>3, <1>8, <3>1, <3>2, <3>3
  <2>3. CASE i # n /\ j # n
    <3>1. i \in DOMAIN jobs /\ jobs'[i] = jobs[i] /\ j \in DOMAIN jobs /\ jobs'[j] = jobs[j]
      BY <1>5, <2>3
    <3>2. Duplicates(i, j)
      BY <1>13, <3>1 DEF Duplicates
    <3> QED BY <1>3, <3>1, <3>2 DEF OneLiveJobUnlessLost
  <2> QED BY <2>1, <2>2, <2>3
<1>14. OneLiveJobUnlessLost'
  BY <1>13 DEF OneLiveJobUnlessLost
<1>15. marked' \subseteq 0 .. Len(jobs')
  BY <1>1, <1>3, <1>5 DEF n
<1>16. \A u \in Ticker : Knows(ticker[u])'
  BY <1>10, <1>11 DEF Knows
<1>17. \A g \in Family : store'[g].in_flight \in marked' \cup {NoJob}
  BY <1>3
<1> QED BY <1>1, <1>12, <1>14, <1>15, <1>16, <1>17

\* A job that ends, or a clock that goes on, takes nothing from what is known.
LEMMA WorldSerial ==
  ASSUME SerialInv, NEW t \in Ticker, Ticker = {t}, SchedulerInv',
         UNCHANGED <<store, ticker, marked, blanked, retry_after>>, now' \in Nat, now <= now',
         Len(jobs') = Len(jobs), DOMAIN jobs' = DOMAIN jobs,
         \A i \in DOMAIN jobs : /\ jobs'[i].family = jobs[i].family
                                /\ jobs'[i].at = jobs[i].at
                                /\ jobs'[i].manifest = "running" => jobs[i].manifest = "running"
  PROVE  SerialInv'
<1> USE DEF SerialInv
<1> DEFINE c == ticker[t]
<1>1. \A f, st, time : Kept(f, st, time)
                       => KeptFor(jobs', marked', blanked', retry_after', f, st, time)
  BY KeptStays DEF SchedulerInv
<1>2. c \in Invocation /\ c.at \in Nat /\ now \in Nat /\ Knows(c)
      /\ store \in [Family -> SourceState] /\ ticker'[t] = c
  BY Constants1 DEF SchedulerInv, SchedulerTypes, Invocation
<1>3. HorizonOf(c) \in Int /\ HorizonOf(c)' \in Int /\ HorizonOf(c) <= HorizonOf(c)'
  BY <1>2 DEF HorizonOf
<1>4. PICK time \in Int : time = HorizonOf(c)'
  BY <1>3
<1>5. ASSUME NEW f \in Family PROVE Kept(f, store[f], HorizonOf(ticker[t]))'
  <2>1. Kept(f, store[f], HorizonOf(c))
    OBVIOUS
  <2>2. Kept(f, store[f], time)
    BY <1>2, <1>3, <1>4, <2>1, KeptLater
  <2> QED BY <1>1, <1>4, <2>2 DEF Kept
<1>6. OneLiveJobUnlessLost'
  BY DEF OneLiveJobUnlessLost, Duplicates
<1>7. Knows(ticker[t])'
  <2>1. (c.pc # "idle" => c.at <= now)'
    BY <1>2 DEF Knows
  <2>2. c.pc \in Holding => KeptFor(jobs', marked', blanked', retry_after', Families[c.turn], c.st, c.at)
    BY <1>1, <1>2 DEF Knows
  <2>3. /\ c.pc = "fire" => ~Held(c.st, c.at)
        /\ IF c.pc = "mark" THEN c.st.in_flight = Len(jobs)
           ELSE c.st.in_flight \in marked \cup {NoJob}
    BY <1>2 DEF Knows
  <2> QED BY <1>2, <2>1, <2>2, <2>3 DEF Knows, Kept
<1>8. marked' \subseteq 0 .. Len(jobs')
  OBVIOUS
<1> QED BY <1>5, <1>6, <1>7, <1>8

\* One ticker: ticks do not overlap.
Serial == \E t \in Ticker : Ticker = {t}

\* Every step of one ticker keeps it.
LEMMA StepSerial == Serial /\ SerialInv /\ [Next]_vars => SerialInv'
<1> SUFFICES ASSUME Serial, SerialInv, [Next]_vars PROVE SerialInv'
  OBVIOUS
<1>1. PICK t \in Ticker : Ticker = {t}
  BY DEF Serial
<1>2. SchedulerInv /\ SchedulerInv' /\ now \in Nat
  BY StepScheduler, Constants1 DEF SerialInv, SchedulerInv, SchedulerTypes
<1>3. CASE StartTick(t) \/ Step(t) \/ Crash(t)
  BY <1>1, <1>3, BetweenSerial, LoadSerial, ObserveSerial, SaveSerial, FireSerial DEF Step
<1>4. ASSUME NEW j \in DOMAIN jobs, NEW manifest \in Manifests, JobEnds(j, manifest)
      PROVE  SerialInv'
  <2>1. /\ Len(jobs') = Len(jobs) /\ DOMAIN jobs' = DOMAIN jobs
        /\ jobs[j].manifest = "running" /\ manifest # "running"
        /\ \A i \in DOMAIN jobs :
             jobs'[i] = IF i = j THEN [jobs[j] EXCEPT !.manifest = manifest] ELSE jobs[i]
        /\ \A i \in DOMAIN jobs :
             /\ jobs'[i].family = jobs[i].family /\ jobs'[i].cursor = jobs[i].cursor
             /\ jobs'[i].at = jobs[i].at
    BY <1>2, <1>4, JobEndsEffect
  <2>2. \A i \in DOMAIN jobs : jobs'[i].manifest = "running" => jobs[i].manifest = "running"
    BY <2>1
  <2>3. UNCHANGED <<now, store, ticker, marked, blanked, retry_after>>
    BY <1>4 DEF JobEnds
  <2> QED BY <1>1, <1>2, <2>1, <2>2, <2>3, WorldSerial
<1>5. CASE Clock \/ UNCHANGED vars
  <2>1. UNCHANGED <<store, jobs, ticker, marked, blanked, retry_after>>
        /\ now' \in Nat /\ now <= now'
    BY <1>2, <1>5 DEF Clock, vars, historyVars
  <2> QED BY <1>1, <1>2, <2>1, WorldSerial
<1> QED BY <1>1, <1>3, <1>4, <1>5 DEF Next

\* The invariant of one ticker holds in every state of every behaviour.
LEMMA SerialInvariant ==
  ASSUME Serial
  PROVE  Spec => []SerialInv
<1>1. Init => SerialInv
  BY InitSerial
<1>2. SerialInv /\ [Next]_vars => SerialInv'
  BY StepSerial
<1> QED BY <1>1, <1>2, PTL DEF Spec

\* While ticks do not overlap, a family has one job at work within a window,
\* whatever fails to start, hangs, ends late or is never observed - unless the
\* tick that fired the first died before its mark was stored, or the state was
\* taken for empty because it could not be read (runTick, saveState,
\* loadState).
THEOREM OneJobAtWork ==
  ASSUME Serial
  PROVE  Spec => []OneLiveJobUnlessLost
<1>1. SerialInv => OneLiveJobUnlessLost
  BY DEF SerialInv
<1> QED BY <1>1, SerialInvariant, PTL

\* Only a tick that has come to fire adds a job.
LEMMA WhoFires ==
  ASSUME SchedulerInv, [Next]_vars, Len(jobs') > Len(jobs)
  PROVE  \E t \in Ticker : Fire(t)
<1>1. Len(jobs) \in Nat
  BY DEF SchedulerInv, SchedulerTypes
<1>2. UNCHANGED jobs => FALSE
  BY <1>1
<1>3. ASSUME NEW j \in DOMAIN jobs, NEW manifest \in Manifests, JobEnds(j, manifest) PROVE FALSE
  <2>1. Len(jobs') = Len(jobs)
    BY <1>3, JobEndsEffect
  <2> QED BY <1>1, <2>1
<1>4. ASSUME NEW t \in Ticker, StartTick(t) \/ Step(t) \/ Crash(t) PROVE Fire(t)
  BY <1>2, <1>4 DEF StartTick, Step, Crash, ReadGold, Load, Observe, Save, Keep, Mark, SaveState
<1> QED BY <1>2, <1>3, <1>4 DEF Next, Clock, vars

\* While ticks do not overlap, no job is fired before the end of a backoff
\* that runTick stored after a failure or an exhausted quota, unless the state
\* that held it was taken for empty.
THEOREM BackoffsHold ==
  ASSUME Serial
  PROVE  Spec => BackoffHonoured
<1> DEFINE InTime == Fired => \/ NewJob.at >= retry_after[NewJob.family]
                              \/ NewJob.family \in blanked
<1>1. ASSUME SerialInv, [Next]_vars PROVE InTime
  <2>1. SUFFICES ASSUME Fired PROVE \/ NewJob.at >= retry_after[NewJob.family]
                                    \/ NewJob.family \in blanked
    OBVIOUS
  <2>2. SchedulerInv
    BY <1>1 DEF SerialInv
  <2>3. PICK t \in Ticker : Fire(t)
    BY <1>1, <2>1, <2>2, WhoFires DEF Fired
  <2> DEFINE c == ticker[t]
             f == FamilyOf(t)
  <2>4. PICK job \in Job : jobs' = Append(jobs, job) /\ job.family = f /\ job.at = c.at
    BY <2>2, <2>3, FireEffect
  <2>5. c.at \in Nat /\ f \in Family /\ c.st \in SourceState /\ jobs \in Seq(Job)
        /\ retry_after \in [Family -> Int]
    BY <2>2, Constants1 DEF SchedulerInv, SchedulerTypes, Invocation, FamilyOf
  <2>6. Kept(f, c.st, c.at) /\ ~Held(c.st, c.at)
    BY <1>1, <2>3 DEF SerialInv, Knows, Holding, FamilyOf, Fire, At
  <2>7. NewJob = job
    BY <2>4, <2>5, AppendProperties DEF NewJob
  <2>8. f \notin blanked => retry_after[f] <= c.at
    BY <2>2, <2>5, <2>6, FireKeeps
  <2> QED BY <2>4, <2>5, <2>7, <2>8
<1>2. BackoffHonoured <=> [][InTime]_vars
  BY DEF BackoffHonoured
<1> HIDE DEF InTime
<1> QED BY <1>1, <1>2, SerialInvariant, PTL DEF Spec
===============================================================================
