---------------------------- MODULE HostedPromotion ----------------------------
(***************************************************************************)
(* How a Serving generation reaches the hosted terminal (terminal-runtime).*)
(* Each deployment has a cron (hosted-promotion.ts, runTick) and one       *)
(* container behind a Durable Object (terminal-container-do.ts) that reads *)
(* Serving CURRENT when it starts (terminal_entrypoint.py).  The cron      *)
(* restarts the container when CURRENT advances, then verifies by /health  *)
(* what it serves.  The promotion state is one JSON object in R2, read and *)
(* several awaits later overwritten; every deployment uses the same key.   *)
(* A cold start may take three times the cron's period, so ticks overlap.  *)
(* Generations are numbered in the order of their publication.             *)
(***************************************************************************)
EXTENDS Naturals

CONSTANTS Deployments,
          Ticks,          \* invocations of the crons at work at the same time
          MaxFailures,    \* PROMOTION_MAX_FAILURES
          MaxGenerations, \* bound on publications
          MaxFaults       \* bound on failed calls, containers that die or do not

ASSUME HPAssumption == MaxFailures \in Nat \ {0} /\ MaxGenerations \in Nat /\ MaxFaults \in Nat

VARIABLES
  serving,    \* the generation Serving CURRENT names, 0: there is no CURRENT
  state,      \* the promotion state in R2
  tick,       \* the invocations: what they do, where, and what they have read
  box,        \* the container of each deployment, the generation it reports
              \* and that of the database it opened
  faults,
  restarts,   \* history: how often a tick has restarted a container for a generation
  overlap     \* history: two ticks have been at work at once

hpVars == <<serving, state, tick, box, faults, restarts, overlap>>

Generations == 0..MaxGenerations

EmptyState == [trigger |-> 0, status |-> "IDLE", hosted |-> 0, failures |-> 0, waiting |-> FALSE]

Idle == [pc |-> "off", at |-> CHOOSE d \in Deployments : TRUE, serving |-> 0,
         state |-> EmptyState]

NoBox == [pc |-> "off", gen |-> 0, db |-> 0]

HPInit ==
  /\ serving = 0 /\ state = EmptyState
  /\ tick = [t \in Ticks |-> Idle]
  /\ box = [d \in Deployments |-> NoBox]
  /\ faults = 0 /\ restarts = [g \in Generations |-> 0] /\ overlap = FALSE

NoFault == UNCHANGED faults
Fault == faults < MaxFaults /\ faults' = faults + 1

At(t, pc) == tick[t].pc = pc
Off(t) == tick' = [tick EXCEPT ![t] = Idle]
Goto(t, pc) == tick' = [tick EXCEPT ![t].pc = pc]

\* A serving build moves CURRENT.
Publish ==
  /\ serving < MaxGenerations /\ serving' = serving + 1
  /\ UNCHANGED <<state, tick, box, faults, restarts, overlap>>

\* retry_after has passed.
BackoffEnds ==
  /\ state.waiting /\ state' = [state EXCEPT !.waiting = FALSE]
  /\ UNCHANGED <<serving, tick, box, faults, restarts, overlap>>

(***************************************************************************)
(* The container.                                                          *)
(***************************************************************************)
\* The first request to a container that is not running starts it.
Start(d) == box' = [box EXCEPT ![d] = [NoBox EXCEPT !.pc = "metadata"]]

Visit(d) ==
  /\ box[d].pc = "off" /\ Start(d)
  /\ UNCHANGED <<serving, state, tick, faults, restarts, overlap>>

\* Without a CURRENT the entrypoint exits.
ReadMetadata(d) ==
  /\ box[d].pc = "metadata"
  /\ box' = [box EXCEPT ![d] = IF serving = 0 THEN NoBox
                               ELSE [pc |-> "stream", gen |-> serving, db |-> 0]]
  /\ UNCHANGED <<serving, state, tick, faults, restarts, overlap>>

\* The database is that of the CURRENT of now; its SHA-256 must be the one read.
StreamMatches(d) == box[d].gen = serving

StreamDatabase(d) ==
  /\ box[d].pc = "stream"
  /\ box' = [box EXCEPT ![d] = IF StreamMatches(d) THEN [@ EXCEPT !.pc = "up", !.db = serving]
                               ELSE NoBox]
  /\ UNCHANGED <<serving, state, tick, faults, restarts, overlap>>

\* The container dies, is put to sleep, or fails to download.
Die(d) ==
  /\ box[d].pc # "off" /\ Fault
  /\ box' = [box EXCEPT ![d] = NoBox]
  /\ UNCHANGED <<serving, state, tick, restarts, overlap>>

(***************************************************************************)
(* A tick.                                                                 *)
(***************************************************************************)
\* Serving CURRENT is read; any exception means there is none.
Begin(t) ==
  /\ At(t, "off")
  /\ \E d \in Deployments :
       \/ NoFault /\ tick' = [tick EXCEPT ![t] = [Idle EXCEPT !.pc = "load", !.at = d,
                                                              !.serving = serving]]
       \/ Fault /\ tick' = [tick EXCEPT ![t] = [Idle EXCEPT !.pc = "load", !.at = d]]
  /\ overlap' = (overlap \/ \E u \in Ticks : ~At(u, "off"))
  /\ UNCHANGED <<serving, state, box, restarts>>

InFlight(g, st) == st.trigger = g /\ st.status = "IN_FLIGHT"

\* mutant: a promotion that was given up stops those of later generations
StoppedForGood(g, st) == st.status = "FAILED"

Stopped(g, st) == st.trigger = g /\ st.status = "FAILED"

\* mutant: a promotion in flight is not recognised
DecideAnew(g, st) ==
  IF g = 0 \/ st.hosted = g \/ Stopped(g, st) THEN "off" ELSE "restart"

\* decidePromotion, after the state was read
Decision(g, st) ==
  IF g = 0 \/ st.hosted = g \/ Stopped(g, st) THEN "off"
  ELSE IF ~InFlight(g, st) THEN "restart"
  ELSE IF st.waiting \/ st.failures >= MaxFailures THEN "off" ELSE "verify"

\* A state that cannot be read is taken for the empty one.
Load(t) ==
  /\ At(t, "load")
  /\ \/ NoFault /\ tick' = [tick EXCEPT ![t].state = state,
                                        ![t].pc = Decision(tick[t].serving, state)]
     \/ Fault /\ tick' = [tick EXCEPT ![t].state = EmptyState,
                                      ![t].pc = Decision(tick[t].serving, EmptyState)]
  /\ UNCHANGED <<serving, state, box, restarts, overlap>>

\* mutant: the generation is taken for hosted when the restart was requested
FreshOnRestart(g) == [EmptyState EXCEPT !.trigger = g, !.status = "IN_FLIGHT", !.hosted = g]

StateAfterTrigger(g) == [EmptyState EXCEPT !.trigger = g, !.status = "IN_FLIGHT"]

StateAfterVerified(g) == [EmptyState EXCEPT !.trigger = g, !.status = "HOSTED_FRESH", !.hosted = g]

\* mutant: off by one, the last failure leaves the promotion in flight
FailedTooLate(st) ==
  [st EXCEPT !.failures = @ + 1, !.waiting = TRUE,
             !.status = IF st.failures >= MaxFailures THEN "FAILED" ELSE "IN_FLIGHT"]

StateAfterVerifyFailure(st) ==
  [st EXCEPT !.failures = @ + 1, !.waiting = TRUE,
             !.status = IF st.failures + 1 >= MaxFailures THEN "FAILED" ELSE "IN_FLIGHT"]

\* restartContainer: a destroy that fails is logged, and the call succeeds; a
\* call that throws may have had its effect.
Restart(t) ==
  /\ At(t, "restart")
  /\ LET d == tick[t].at
         gone == [box EXCEPT ![d] = NoBox]
     IN \/ NoFault /\ box' = gone /\ Goto(t, "triggered")
        \/ Fault /\ box' = box /\ Goto(t, "triggered")
        \/ Fault /\ box' \in {box, gone} /\ Goto(t, "failed")
  /\ restarts' = [restarts EXCEPT ![tick[t].serving] = @ + 1]
  /\ UNCHANGED <<serving, state, overlap>>

\* The request for /health goes to the container, which it starts if need be.
AskHealth(t) ==
  /\ At(t, "verify")
  /\ IF box[tick[t].at].pc = "off" THEN Start(tick[t].at) ELSE UNCHANGED box
  /\ Goto(t, "asked")
  /\ UNCHANGED <<serving, state, faults, restarts, overlap>>

HealthMatches(t) == box[tick[t].at].gen = tick[t].serving

\* The answer of a container that is up; or none, when it has died or the call
\* fails, which takes the time of START_TIMEOUT_MS.
Health(t) ==
  /\ At(t, "asked")
  /\ LET up == box[tick[t].at].pc = "up" IN
     \/ up /\ NoFault /\ Goto(t, IF HealthMatches(t) THEN "verified" ELSE "failed")
     \/ box[tick[t].at].pc = "off" /\ NoFault /\ Goto(t, "failed")
     \/ box[tick[t].at].pc # "off" /\ Fault /\ Goto(t, "failed")
  /\ UNCHANGED <<serving, state, box, restarts, overlap>>

\* saveState; a put that throws after a restart is answered by saving a failure.
Save(t) ==
  /\ \E pc \in {"triggered", "verified", "failed"} :
       /\ At(t, pc)
       /\ LET new == CASE pc = "triggered" -> StateAfterTrigger(tick[t].serving)
                       [] pc = "verified" -> StateAfterVerified(tick[t].serving)
                       [] pc = "failed" -> StateAfterVerifyFailure(tick[t].state)
          IN \/ NoFault /\ state' = new /\ Off(t)
             \/ /\ Fault /\ state' \in {state, new}
                /\ IF pc = "triggered" THEN Goto(t, "failed") ELSE Off(t)
  /\ UNCHANGED <<serving, box, restarts, overlap>>

TickStep(t) == Begin(t) \/ Load(t) \/ Restart(t) \/ AskHealth(t) \/ Health(t) \/ Save(t)
BootStep(d) == ReadMetadata(d) \/ StreamDatabase(d)

HPNext ==
  \/ Publish \/ BackoffEnds
  \/ \E d \in Deployments : Visit(d) \/ BootStep(d) \/ Die(d)
  \/ \E t \in Ticks : TickStep(t)

\* The platform runs the cron and what it has started; a container that was
\* started boots or exits; time passes.
HPFairness ==
  /\ \A t \in Ticks : WF_hpVars(TickStep(t))
  /\ \A d \in Deployments : WF_hpVars(BootStep(d))
  /\ WF_hpVars(BackoffEnds)

HPSpec == HPInit /\ [][HPNext]_hpVars /\ HPFairness

(***************************************************************************)
(* Properties.                                                             *)
(***************************************************************************)
States == [trigger : Generations, status : {"IDLE", "IN_FLIGHT", "HOSTED_FRESH", "FAILED"},
           hosted : Generations, failures : Nat, waiting : BOOLEAN]

\* Types; and the state that is stopped is the one whose failures are used up.
HPTypeOK ==
  /\ serving \in Generations /\ state \in States
  /\ state.status = "FAILED" <=> state.failures >= MaxFailures
  /\ \A t \in Ticks : tick[t].at \in Deployments /\ tick[t].state \in States
                      /\ tick[t].serving \in Generations
  /\ box \in [Deployments -> [pc : {"off", "metadata", "stream", "up"}, gen : Generations,
                           db : Generations]]
  /\ restarts \in [Generations -> Nat] /\ faults \in 0..MaxFaults

\* "HOSTED_FRESH: hosted /health matches Serving CURRENT"
\* (docs/terminal-production-operations.md): no container shows a generation
\* older than the one the promotion state calls hosted, or than the one /health
\* names, however ticks overlap, destroys fail and CURRENT advances while a
\* container boots.  It holds of one deployment.
HostedIsServed ==
  \A d \in Deployments :
    box[d].pc = "up" => box[d].db = box[d].gen /\ box[d].db >= state.hosted

\* A generation restarts the container once: again only after a call or a
\* container failed, or when ticks overwrote each other's state.
RestartedOnce == overlap \/ \A g \in Generations : restarts[g] <= 1 + faults

\* When CURRENT has come to rest the promotion comes to rest with it: the
\* container was seen to serve it, or the promotion of this very generation was
\* given up after MaxFailures.
PromotionSettles ==
  <>[](\/ state.hosted = serving
       \/ state.trigger = serving /\ state.status = "FAILED")
===============================================================================
