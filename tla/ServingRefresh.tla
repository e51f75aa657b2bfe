---------------------------- MODULE ServingRefresh ----------------------------
(***************************************************************************)
(* From a Gold generation to the screen.  The cron of cloud-runtime        *)
(* (index.ts, watermark-controller.ts) compares what Gold has with what    *)
(* Serving CURRENT says it was built from, and starts a serving build in a *)
(* batch container of its own; the build (batch_jobs.py,                   *)
(* run_terminal_serving_build) publishes CURRENT if it is still the one it *)
(* found when it began; HostedPromotion shows it.                          *)
(*                                                                         *)
(* Two families of Gold stand for all: "w", whose generations the cron     *)
(* watches (Wikimedia, Spotify), and "f", which the build folds in early   *)
(* and the cron does not watch (factor tape, ticket market: the cron takes *)
(* their live generation from Serving itself).  What a Serving generation  *)
(* has of w is the lineage that the build collects late and records, and   *)
(* that the cron compares; the data of w is not followed, nor sentiment,   *)
(* which has no lineage in CURRENT.  A pair <<w, f>> is a fingerprint; the *)
(* generations of a family are numbered, and 0 is null.                    *)
(***************************************************************************)
EXTENDS HostedPromotion, FiniteSets, Sequences

CONSTANTS Crons,      \* invocations of the cron at work at the same time
          MaxGold,    \* bound on the generations of both families together
          MaxNights,  \* bound on nightly builds
          MaxRuns     \* bound on builds, at most MaxGenerations

ASSUME SRAssumption ==
  MaxGold \in Nat /\ MaxNights \in Nat /\ MaxRuns \in Nat /\ MaxRuns <= MaxGenerations

VARIABLES
  gold,       \* the newest generation of each family
  lineage,    \* the fingerprint each Serving generation carries
  ledger,     \* last_seen_gold in control/watermarks/serving_trigger.json, or Nothing
  cron,       \* the invocations and what they have read
  runs,       \* the builds ever started
  blind       \* history: the families each Serving generation failed to read

srVars == <<gold, lineage, ledger, cron, runs, blind>>
chainVars == <<hpVars, srVars>>

Nothing == <<0, 0>>

FingerprintOf(g) == IF g = 0 THEN Nothing ELSE lineage[g]

Resting == [pc |-> "off", gold |-> 0, serving |-> 0, ledger |-> Nothing, got |-> {},
            live |-> Nothing, nightly |-> FALSE]

SRInit ==
  /\ gold = [w |-> 0, f |-> 0] /\ lineage = << >> /\ ledger = Nothing
  /\ cron = [c \in Crons |-> Resting] /\ runs = << >> /\ blind = << >>

CronAt(c, pc) == cron[c].pc = pc
CronOff(c) == cron' = [cron EXCEPT ![c] = Resting]

\* Only a build moves CURRENT.
ServingStays == UNCHANGED <<serving, lineage, blind>>
PromotionStays == UNCHANGED <<state, tick, box, restarts, overlap>>

\* A job publishes a generation of Gold.
GoldAdvances ==
  /\ gold.w + gold.f < MaxGold /\ \E k \in {"w", "f"} : gold' = [gold EXCEPT ![k] = @ + 1]
  /\ ServingStays /\ PromotionStays /\ UNCHANGED <<faults, ledger, cron, runs>>

(***************************************************************************)
(* The cron.                                                               *)
(***************************************************************************)
CronBegins(c) ==
  /\ CronAt(c, "off") /\ cron' = [cron EXCEPT ![c].pc = "read"]
  /\ ServingStays /\ PromotionStays /\ UNCHANGED <<faults, gold, ledger, runs>>

\* The objects are read at once, so in any order; one that cannot be parsed is
\* taken for missing.
Reads(c) ==
  /\ CronAt(c, "read")
  /\ \E key \in {"gold", "serving", "ledger"} \ cron[c].got :
       LET had == [cron[c] EXCEPT !.got = @ \cup {key}] IN
       \/ /\ NoFault
          /\ cron' = [cron EXCEPT ![c] =
               CASE key = "gold" -> [had EXCEPT !.gold = gold.w]
                 [] key = "serving" -> [had EXCEPT !.serving = serving]
                 [] key = "ledger" -> [had EXCEPT !.ledger = ledger]]
       \/ Fault /\ cron' = [cron EXCEPT ![c] = had]
  /\ ServingStays /\ PromotionStays /\ UNCHANGED <<gold, ledger, runs>>

\* A read that throws hides all of them: there is no Gold, and nothing is done.
ReadThrows(c) ==
  /\ CronAt(c, "read") /\ Fault /\ CronOff(c)
  /\ ServingStays /\ PromotionStays /\ UNCHANGED <<gold, ledger, runs>>

Nights == {r \in DOMAIN runs : runs[r].nightly}

\* mutant: the ledger is not looked at
NotDeduped(live, seen) == FALSE

\* mutant: what has triggered once is not built again, whatever it is now
DedupedForGood(live, seen) == seen # Nothing

Deduped(live, seen) == seen # Nothing /\ live = seen

\* decideServingTrigger on the Gold w, the Serving generation g and the ledger.
Live(w, g) == <<w, FingerprintOf(g)[2]>>

GoldIsAhead(w, g, seen) ==
  Live(w, g) \notin {Nothing, FingerprintOf(g)} /\ ~Deduped(Live(w, g), seen)

\* LAST_REFRESH.json, read by now, is 24 hours old, missing, or cannot be parsed:
\* what seems caught up is built nevertheless.
NightlyIsDue(w, g) ==
  Live(w, g) # Nothing /\ Live(w, g) = FingerprintOf(g) /\ Cardinality(Nights) < MaxNights

Decide(c) ==
  /\ CronAt(c, "read") /\ cron[c].got = {"gold", "serving", "ledger"}
  /\ LET w == cron[c].gold
         g == cron[c].serving
         Trigger(nightly) ==
           cron' = [cron EXCEPT ![c] = [Resting EXCEPT !.pc = "start", !.live = Live(w, g),
                                                       !.nightly = nightly]]
     IN \/ GoldIsAhead(w, g, cron[c].ledger) /\ Len(runs) < MaxRuns /\ Trigger(FALSE)
        \/ NightlyIsDue(w, g) /\ Len(runs) < MaxRuns /\ Trigger(TRUE)
        \/ ~(GoldIsAhead(w, g, cron[c].ledger) /\ Len(runs) < MaxRuns) /\ CronOff(c)
  /\ ServingStays /\ PromotionStays /\ UNCHANGED <<faults, gold, ledger, runs>>

Build(pc, seen, nightly) ==
  [pc |-> pc, parent |-> 0, w |-> 0, f |-> 0, blind |-> {}, seen |-> seen, nightly |-> nightly]

NewRun(c, pc) == Append(runs, Build(pc, cron[c].live, cron[c].nightly))

\* A container that does not start is answered by startJob like one that does:
\* the job has failed, and the trigger is recorded.
StartBuild(c) ==
  /\ CronAt(c, "start")
  /\ \/ NoFault /\ runs' = NewRun(c, "begin") /\ cron' = [cron EXCEPT ![c].pc = "record"]
     \/ Fault /\ runs' = NewRun(c, "failed") /\ cron' = [cron EXCEPT ![c].pc = "record"]
     \/ Fault /\ runs' \in {runs, NewRun(c, "begin")} /\ CronOff(c)
  /\ ServingStays /\ PromotionStays /\ UNCHANGED <<gold, ledger>>

\* Two puts at once; that of the ledger may fail unnoticed.
Record(c) ==
  /\ CronAt(c, "record")
  /\ \/ NoFault /\ ledger' = cron[c].live
     \/ Fault /\ ledger' = ledger
  /\ CronOff(c)
  /\ ServingStays /\ PromotionStays /\ UNCHANGED <<gold, runs>>

CronStep(c) ==
  CronBegins(c) \/ Reads(c) \/ ReadThrows(c) \/ Decide(c) \/ StartBuild(c) \/ Record(c)

(***************************************************************************)
(* The build.                                                              *)
(***************************************************************************)
RunAt(r, pc) == r \in DOMAIN runs /\ runs[r].pc = pc
Advance(r, new) == runs' = [runs EXCEPT ![r] = new]
Ends(r, pc) == Advance(r, Build(pc, runs[r].seen, runs[r].nightly))

FindParent(r) ==
  /\ RunAt(r, "begin") /\ Advance(r, [runs[r] EXCEPT !.pc = "fold", !.parent = serving])
  /\ ServingStays /\ PromotionStays /\ UNCHANGED <<faults, gold, ledger, cron>>

\* Missing Gold is tolerated, and read_checkpoint answers None for a CURRENT it
\* fails to read as for one that does not exist.
FoldGold(r) ==
  /\ RunAt(r, "fold")
  /\ \/ NoFault /\ Advance(r, [runs[r] EXCEPT !.pc = "lineage", !.f = gold.f])
     \/ Fault /\ Advance(r, [runs[r] EXCEPT !.pc = "lineage", !.blind = @ \cup {"f"}])
  /\ ServingStays /\ PromotionStays /\ UNCHANGED <<gold, ledger, cron>>

\* A lineage that cannot be read is published as null.
CollectLineage(r) ==
  /\ RunAt(r, "lineage")
  /\ \/ NoFault /\ Advance(r, [runs[r] EXCEPT !.pc = "publish", !.w = gold.w])
     \/ Fault /\ Advance(r, [runs[r] EXCEPT !.pc = "publish", !.blind = @ \cup {"w"}])
  /\ ServingStays /\ PromotionStays /\ UNCHANGED <<gold, ledger, cron>>

\* mutant: CURRENT is overwritten whatever it is
AnyParent(r) == TRUE

ParentIsCurrent(r) == runs[r].parent = serving

MoveCurrent(r) ==
  /\ serving' = serving + 1 /\ lineage' = Append(lineage, <<runs[r].w, runs[r].f>>)
  /\ blind' = Append(blind, runs[r].blind)

\* put_json_if_version; one that throws may have had its effect, and the
\* manifest after it may fail.
PublishCurrent(r) ==
  /\ RunAt(r, "publish")
  /\ \/ ParentIsCurrent(r) /\ MoveCurrent(r) /\ NoFault /\ Ends(r, "ok")
     \/ ParentIsCurrent(r) /\ MoveCurrent(r) /\ Fault /\ Ends(r, "failed")
     \/ ~ParentIsCurrent(r) /\ ServingStays /\ NoFault /\ Ends(r, "failed")
  /\ PromotionStays /\ UNCHANGED <<gold, ledger, cron>>

\* Anything else that fails, or the end of the container.
BuildFails(r) ==
  /\ r \in DOMAIN runs /\ runs[r].pc \in {"begin", "fold", "lineage", "publish"} /\ Fault
  /\ Ends(r, "failed")
  /\ ServingStays /\ PromotionStays /\ UNCHANGED <<gold, ledger, cron>>

RunStep(r) == FindParent(r) \/ FoldGold(r) \/ CollectLineage(r) \/ PublishCurrent(r)

(***************************************************************************)
(* The chain: the build publishes what HostedPromotion shows.              *)
(***************************************************************************)
PromotionNext ==
  /\ \/ BackoffEnds
     \/ \E d \in Deployments : Visit(d) \/ BootStep(d) \/ Die(d)
     \/ \E t \in Ticks : TickStep(t)
  /\ UNCHANGED srVars

RefreshNext ==
  \/ GoldAdvances
  \/ \E c \in Crons : CronStep(c)
  \/ \E r \in 1..MaxRuns : RunStep(r) \/ BuildFails(r)

\* The cron runs every minute; a container that was started runs its job.
ChainFairness ==
  /\ \A c \in Crons : WF_chainVars(CronStep(c))
  /\ \A r \in 1..MaxRuns : WF_chainVars(RunStep(r))
  /\ WF_chainVars(BackoffEnds /\ UNCHANGED srVars)
  /\ \A t \in Ticks : WF_chainVars(TickStep(t) /\ UNCHANGED srVars)
  /\ \A d \in Deployments : WF_chainVars(BootStep(d) /\ UNCHANGED srVars)

ChainSpec ==
  HPInit /\ SRInit /\ [][PromotionNext \/ RefreshNext]_chainVars /\ ChainFairness

(***************************************************************************)
(* Properties.                                                             *)
(***************************************************************************)
Fingerprints == (0..MaxGold) \X (0..MaxGold)

RunStates == {"begin", "fold", "lineage", "publish", "ok", "failed"}

\* Types; CURRENT has a lineage for each generation.
ChainTypeOK ==
  /\ HPTypeOK
  /\ gold \in [{"w", "f"} -> 0..MaxGold] /\ ledger \in Fingerprints
  /\ lineage \in Seq(Fingerprints) /\ Len(lineage) = serving
  /\ runs \in Seq([pc : RunStates, parent : Generations, w : 0..MaxGold, f : 0..MaxGold,
                   blind : SUBSET {"w", "f"},
                   seen : Fingerprints, nightly : BOOLEAN])
  /\ Len(runs) <= MaxRuns

\* "stale generation cannot replace newer generation" (watermark-controller.ts):
\* whichever builds overlap, a generation of Serving holds no older Gold than any
\* one before it.  It may lack a family that it failed to read.
ServingNeverRegresses ==
  \A i, j \in DOMAIN lineage : i < j =>
    /\ lineage[i][1] <= lineage[j][1] \/ "w" \in blind[j]
    /\ lineage[i][2] <= lineage[j][2] \/ "f" \in blind[j]

\* "repeated Gold check -> no duplicate Serving build": the same fingerprint is
\* built once by the ticks of one cron, but for a tick that failed.
NoDuplicateBuild ==
  \A i, j \in DOMAIN runs :
    i < j /\ ~runs[i].nightly /\ ~runs[j].nightly /\ runs[i].seen = runs[j].seen => faults > 0

\* What the cron will not build again: the build of this very fingerprint came
\* to nothing, or the last one published could not read its lineage.
GivenUp ==
  /\ ledger = <<gold.w, FingerprintOf(serving)[2]>>
  /\ \/ \E r \in DOMAIN runs : runs[r].seen = ledger /\ runs[r].pc = "failed"
     \/ serving # 0 /\ FingerprintOf(serving)[1] = 0

\* A build of what Gold has now is only kept from starting by the model's bound.
OnlyTheBoundStops == Len(runs) = MaxRuns /\ GoldIsAhead(gold.w, serving, ledger)

\* When Gold has come to rest, Serving is built from its last generation, also
\* when that came while the one before was being built or after it, or its build
\* was given up; and the terminal shows this generation of Serving, or its
\* promotion was given up.
GoldReachesTheScreen ==
  <>[](/\ FingerprintOf(serving)[1] = gold.w \/ GivenUp \/ OnlyTheBoundStops
       /\ Stopped(serving, state) \/ \A d \in Deployments : box[d].pc = "up" => box[d].db = serving)

\* "After failure, trigger state would have been cleared or expired; next minute
\* we can retry" (tests/watermark-controller.test.ts): a failed build is
\* followed by another.
FailedBuildsAreRetried == <>[](FingerprintOf(serving)[1] = gold.w \/ OnlyTheBoundStops)
===============================================================================
