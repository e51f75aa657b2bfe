------------------------ MODULE HostedPromotion_proofs -------------------------
(***************************************************************************)
(* A deployment that has the promotion state for itself never shows a      *)
(* generation older than the one the state calls hosted, however many      *)
(* ticks overlap and whatever fails.  What is called hosted was served     *)
(* when some tick saw it, and a container that boots later opens what      *)
(* CURRENT names then, which never goes back: so "hosted" may be forgotten *)
(* by a tick with an old copy of the state, but is never too new.          *)
(*                                                                         *)
(* And ticks that do not overlap restart a container once for each         *)
(* generation, and once more for each fault: when a tick decides to        *)
(* restart, either no restart for that generation is without a fault, or   *)
(* the last one is on record, and then the tick would have verified it     *)
(* (RestartInv).                                                           *)
(***************************************************************************)
EXTENDS HostedPromotion, TLAPS

\* No container shows, now or later, a generation older than g.
Served(g) == /\ g <= serving
             /\ \A d \in Deployments : box[d].pc = "up" => box[d].db >= g

PromotionState ==
  [trigger : Nat, status : {"IDLE", "IN_FLIGHT", "HOSTED_FRESH", "FAILED"},
   hosted : Nat, failures : Nat, waiting : BOOLEAN]

TickPcs == {"off", "load", "restart", "verify", "asked", "triggered", "verified", "failed"}
BoxPcs == {"off", "metadata", "stream", "up"}

Boxes == [Deployments -> [pc : BoxPcs, gen : Nat, db : Nat]]
Invocation == [pc : TickPcs, at : Deployments, serving : Nat, state : PromotionState]

PromotionTypes ==
  /\ serving \in Nat /\ state \in PromotionState
  /\ tick \in [Ticks -> Invocation]
  /\ box \in Boxes

ReportsWhatItOpened == \A d \in Deployments : box[d].pc = "up" => box[d].db = box[d].gen

\* What a tick has read of the state, and what it has verified.
TickIsBehind(t) ==
  /\ tick[t].serving <= serving
  /\ Served(tick[t].state.hosted)
  /\ At(t, "verified") => Served(tick[t].serving)

PromotionInv ==
  /\ PromotionTypes /\ ReportsWhatItOpened
  /\ Served(state.hosted)
  /\ \A t \in Ticks : TickIsBehind(t)

Alone == \E d \in Deployments : Deployments = {d}

\* The initial states satisfy it.
LEMMA InitPromotion == Alone /\ HPInit => PromotionInv
<1> SUFFICES ASSUME Alone, HPInit PROVE PromotionInv
  OBVIOUS
<1>1. Idle.at \in Deployments /\ Idle.pc = "off" /\ Idle.serving = 0 /\ Idle.state = EmptyState
  BY DEF Alone, Idle
<1>2. EmptyState \in PromotionState /\ EmptyState.hosted = 0
  BY DEF EmptyState, PromotionState
<1>3. PromotionTypes
  BY <1>1, <1>2 DEF HPInit, PromotionTypes, NoBox, Idle, Boxes, BoxPcs, Invocation, TickPcs
<1> QED
  BY <1>1, <1>2, <1>3
     DEF HPInit, PromotionInv, ReportsWhatItOpened, TickIsBehind, Served, NoBox, At

\* A step that touches neither containers nor ticks nor state may move CURRENT
\* forward.
LEMMA CurrentMovesForward ==
  ASSUME PromotionInv, serving' \in Nat, serving' >= serving, UNCHANGED <<state, tick, box>>
  PROVE  PromotionInv'
<1>1. \A g \in Nat : Served(g) => Served(g)'
  BY DEF Served, PromotionInv, PromotionTypes
<1>2. \A t \in Ticks : tick[t].serving \in Nat /\ tick[t].state.hosted \in Nat
  BY DEF PromotionInv, PromotionTypes, Invocation, PromotionState
<1>3. state.hosted \in Nat
  BY DEF PromotionInv, PromotionTypes, Invocation, PromotionState
<1>4. \A t \in Ticks : TickIsBehind(t)'
  BY <1>1, <1>2 DEF PromotionInv, PromotionTypes, TickIsBehind, At
<1> QED BY <1>1, <1>3, <1>4 DEF PromotionInv, PromotionTypes, ReportsWhatItOpened

\* A step of the container: it goes on booting, opens what CURRENT names, or is
\* gone.
LEMMA BoxChanges ==
  ASSUME PromotionInv, UNCHANGED <<serving, state, tick>>,
         box' \in Boxes,
         \A d \in Deployments :
           box'[d].pc = "up" =>
             box'[d] = box[d] \/ (box'[d].db = serving /\ box'[d].gen = serving)
  PROVE  PromotionInv'
<1>1. \A g \in Nat : Served(g) => Served(g)'
  BY DEF Served, PromotionInv, PromotionTypes
<1>2. \A t \in Ticks : tick[t].serving \in Nat /\ tick[t].state.hosted \in Nat
  BY DEF PromotionInv, PromotionTypes, Invocation, PromotionState
<1>3. state.hosted \in Nat
  BY DEF PromotionInv, PromotionTypes, Invocation, PromotionState
<1>4. \A t \in Ticks : TickIsBehind(t)'
  BY <1>1, <1>2 DEF PromotionInv, PromotionTypes, TickIsBehind, At
<1>5. ReportsWhatItOpened'
  BY DEF PromotionInv, ReportsWhatItOpened
<1> QED BY <1>1, <1>3, <1>4, <1>5 DEF PromotionInv, PromotionTypes

\* A step of one tick, whose container is gone or as it was: the state that it
\* saves, the one it has read and what it has verified are served.
LEMMA TickChanges ==
  ASSUME PromotionInv, UNCHANGED serving,
         NEW t \in Ticks,
         NEW new \in Invocation,
         tick' = [tick EXCEPT ![t] = new],
         state' \in PromotionState, Served(state'.hosted),
         box' \in Boxes,
         \A d \in Deployments : box'[d].pc = "up" => box'[d] = box[d],
         new.serving <= serving, Served(new.state.hosted),
         new.pc = "verified" => Served(new.serving)
  PROVE  PromotionInv'
<1>1. \A g \in Nat : Served(g) => Served(g)'
  BY DEF Served, PromotionInv, PromotionTypes
<1>2. tick' \in [Ticks -> Invocation]
  BY DEF PromotionInv, PromotionTypes
<1>3. \A u \in Ticks : TickIsBehind(u)'
  <2> TAKE u \in Ticks
  <2>1. tick[u].serving \in Nat /\ tick[u].state.hosted \in Nat
        /\ new.serving \in Nat /\ new.state.hosted \in Nat
    BY DEF PromotionInv, PromotionTypes, Invocation, PromotionState
  <2>2. CASE u = t
    <3>1. tick'[u] = new
      BY <2>2 DEF PromotionInv, PromotionTypes
    <3> QED BY <1>1, <2>1, <3>1 DEF TickIsBehind, At
  <2>3. CASE u # t
    <3>1. tick'[u] = tick[u]
      BY <2>3 DEF PromotionInv, PromotionTypes
    <3> QED BY <1>1, <2>1, <3>1 DEF PromotionInv, TickIsBehind, At
  <2> QED BY <2>2, <2>3
<1>4. Served(state.hosted)'
  BY <1>1 DEF PromotionState
<1>5. ReportsWhatItOpened'
  BY DEF PromotionInv, ReportsWhatItOpened
<1> QED BY <1>2, <1>3, <1>4, <1>5 DEF PromotionInv, PromotionTypes

\* A container that was started has opened nothing yet.
LEMMA ContainerStep ==
  ASSUME PromotionInv, NEW d \in Deployments,
         Visit(d) \/ ReadMetadata(d) \/ StreamDatabase(d) \/ Die(d)
  PROVE  PromotionInv'
<1> USE DEF PromotionInv, PromotionTypes, Boxes, BoxPcs
<1>1. NoBox \in [pc : BoxPcs, gen : Nat, db : Nat] /\ NoBox.pc = "off"
  BY DEF NoBox
<1>2. CASE Visit(d)
  <2>1. UNCHANGED <<serving, state, tick>>
        /\ box' = [box EXCEPT ![d] = [NoBox EXCEPT !.pc = "metadata"]]
    BY <1>2 DEF Visit, Start
  <2> QED BY <1>1, <2>1, BoxChanges DEF NoBox
<1>3. CASE ReadMetadata(d)
  <2>1. UNCHANGED <<serving, state, tick>>
        /\ \/ box' = [box EXCEPT ![d] = NoBox]
           \/ box' = [box EXCEPT ![d] = [pc |-> "stream", gen |-> serving, db |-> 0]]
    BY <1>3 DEF ReadMetadata
  <2> QED BY <1>1, <2>1, BoxChanges
<1>4. CASE StreamDatabase(d)
  <2>1. CASE StreamMatches(d)
    <3>1. UNCHANGED <<serving, state, tick>> /\ box[d].gen = serving
          /\ box' = [box EXCEPT ![d] = [@ EXCEPT !.pc = "up", !.db = serving]]
      BY <1>4, <2>1 DEF StreamDatabase, StreamMatches
    <3> QED BY <3>1, BoxChanges
  <2>2. CASE ~StreamMatches(d)
    <3>1. UNCHANGED <<serving, state, tick>> /\ box' = [box EXCEPT ![d] = NoBox]
      BY <1>4, <2>2 DEF StreamDatabase
    <3> QED BY <1>1, <3>1, BoxChanges
  <2> QED BY <2>1, <2>2
<1>5. CASE Die(d)
  <2>1. UNCHANGED <<serving, state, tick>> /\ box' = [box EXCEPT ![d] = NoBox]
    BY <1>5 DEF Die
  <2> QED BY <1>1, <2>1, BoxChanges
<1> QED BY <1>2, <1>3, <1>4, <1>5

\* What a tick may be after a step that changes its program counter only.
LEMMA GotoKeepsMemory ==
  ASSUME PromotionInv, NEW t \in Ticks, NEW pc \in TickPcs, Goto(t, pc)
  PROVE  LET new == [tick[t] EXCEPT !.pc = pc] IN
         /\ tick' = [tick EXCEPT ![t] = new]
         /\ new \in Invocation /\ new.pc = pc
         /\ new.serving = tick[t].serving /\ new.state = tick[t].state
BY DEF PromotionInv, PromotionTypes, Invocation, Goto

\* A tick that ends forgets what it has read.
LEMMA OffForgets ==
  ASSUME PromotionInv, Alone
  PROVE  /\ Idle \in Invocation /\ Idle.pc = "off" /\ Idle.serving = 0
         /\ Idle.state = EmptyState /\ Served(0)
         /\ EmptyState \in PromotionState /\ EmptyState.hosted = 0
BY DEF Alone, Idle, EmptyState, Invocation, PromotionState, TickPcs, Served,
       PromotionInv, PromotionTypes, Boxes, BoxPcs

\* Begin and Load: what is read is CURRENT, or the state, or nothing.
LEMMA ReadingStep ==
  ASSUME PromotionInv, Alone, NEW t \in Ticks, Begin(t) \/ Load(t)
  PROVE  PromotionInv'
<1> USE DEF PromotionInv, PromotionTypes
<1>1. \A d \in Deployments : box'[d].pc = "up" => box'[d] = box[d]
  BY DEF Begin, Load
<1>2. UNCHANGED <<serving, state, box>>
  BY DEF Begin, Load
<1>3. CASE Begin(t)
  <2>1. PICK d \in Deployments :
          \/ tick' = [tick EXCEPT ![t] = [Idle EXCEPT !.pc = "load", !.at = d,
                                                      !.serving = serving]]
          \/ tick' = [tick EXCEPT ![t] = [Idle EXCEPT !.pc = "load", !.at = d]]
    BY <1>3 DEF Begin
  <2>2. PICK new \in {[Idle EXCEPT !.pc = "load", !.at = d, !.serving = serving],
                      [Idle EXCEPT !.pc = "load", !.at = d]} :
          tick' = [tick EXCEPT ![t] = new]
    BY <2>1
  <2>3. new \in Invocation /\ new.pc = "load" /\ new.serving \in {0, serving}
        /\ new.state = EmptyState
    BY ZenonT(40), OffForgets DEF Invocation, TickPcs
  <2>4. new.serving <= serving /\ Served(new.state.hosted)
    BY <2>3, OffForgets
  <2> QED BY <1>1, <1>2, <2>2, <2>3, <2>4, TickChanges
<1>4. CASE Load(t)
  <2>1. PICK st \in {state, EmptyState} :
          tick' = [tick EXCEPT ![t].state = st, ![t].pc = Decision(tick[t].serving, st)]
    BY <1>4 DEF Load
  <2> DEFINE new == [tick[t] EXCEPT !.state = st, !.pc = Decision(tick[t].serving, st)]
  <2>2. tick' = [tick EXCEPT ![t] = new]
    BY <2>1 DEF Invocation
  <2>3. Decision(tick[t].serving, st) \in {"off", "verify", "restart"}
    BY DEF Decision
  <2>4. st \in PromotionState /\ Served(st.hosted)
    BY OffForgets
  <2>5. new \in Invocation /\ new.pc # "verified"
        /\ new.serving = tick[t].serving /\ new.state = st
    BY <2>3, <2>4 DEF Invocation, TickPcs
  <2>6. tick[t].serving <= serving
    BY DEF TickIsBehind
  <2> QED BY <1>1, <1>2, <2>2, <2>4, <2>5, <2>6, TickChanges
<1> QED BY <1>3, <1>4

\* Restart and AskHealth: the container is gone, starts, or is as it was.
LEMMA AskingStep ==
  ASSUME PromotionInv, NEW t \in Ticks, Restart(t) \/ AskHealth(t)
  PROVE  PromotionInv'
<1> USE DEF PromotionInv, PromotionTypes
<1>1. PICK pc \in {"triggered", "failed", "asked"} : Goto(t, pc)
  BY DEF Restart, AskHealth
<1>2. UNCHANGED <<serving, state>>
  BY DEF Restart, AskHealth
<1>3. tick[t].at \in Deployments
  BY DEF Invocation
<1>4. PICK b \in {box[tick[t].at], NoBox, [NoBox EXCEPT !.pc = "metadata"]} :
        box' = [box EXCEPT ![tick[t].at] = b]
  BY <1>3 DEF Restart, AskHealth, Start, Boxes
<1>5. box' \in Boxes /\ \A d \in Deployments : box'[d].pc = "up" => box'[d] = box[d]
  BY <1>3, <1>4 DEF NoBox, Boxes, BoxPcs
<1>6. tick[t].serving <= serving /\ Served(tick[t].state.hosted)
  BY DEF TickIsBehind
<1>7. pc \in TickPcs
  BY DEF TickPcs
<1>8. pc # "verified" /\ state' \in PromotionState /\ Served(state'.hosted)
  BY <1>1, <1>2
<1> DEFINE new == [tick[t] EXCEPT !.pc = pc]
<1>9. /\ tick' = [tick EXCEPT ![t] = new]
      /\ new \in Invocation /\ new.pc = pc
      /\ new.serving = tick[t].serving /\ new.state = tick[t].state
  BY <1>1, <1>7, GotoKeepsMemory
<1> HIDE DEF new
<1> QED BY <1>2, <1>5, <1>6, <1>8, <1>9, TickChanges

\* Health: a generation is verified that the only container serves now, and the
\* container that replaces it will open no older one.
LEMMA HealthStep ==
  ASSUME PromotionInv, Alone, NEW t \in Ticks, Health(t)
  PROVE  PromotionInv'
<1> USE DEF PromotionInv, PromotionTypes
<1>1. UNCHANGED <<serving, state, box>>
  BY DEF Health
<1>2. PICK pc \in {"verified", "failed"} :
        Goto(t, pc) /\ (pc = "verified" => box[tick[t].at].pc = "up" /\ HealthMatches(t))
  BY DEF Health
<1>3. tick[t].serving <= serving /\ Served(tick[t].state.hosted)
  BY DEF TickIsBehind
<1>4. pc = "verified" => Served(tick[t].serving)
  <2> SUFFICES ASSUME pc = "verified" PROVE Served(tick[t].serving)
    OBVIOUS
  <2>1. Deployments = {tick[t].at}
    BY DEF Alone, Invocation
  <2>2. box[tick[t].at].db = tick[t].serving /\ tick[t].serving \in Nat
    BY <1>2, <2>1 DEF HealthMatches, ReportsWhatItOpened, Invocation
  <2> QED BY <1>3, <2>1, <2>2 DEF Served
<1>5. pc \in TickPcs
  BY DEF TickPcs
<1>6. box' \in Boxes /\ \A d \in Deployments : box'[d].pc = "up" => box'[d] = box[d]
  BY <1>1
<1> QED BY ZenonT(40), <1>1, <1>2, <1>3, <1>4, <1>5, <1>6, GotoKeepsMemory, TickChanges

\* A failure is counted; what was hosted stays so.
LEMMA FailureKeepsHosted ==
  ASSUME NEW st \in PromotionState
  PROVE  /\ StateAfterVerifyFailure(st) \in PromotionState
         /\ StateAfterVerifyFailure(st).hosted = st.hosted
<1> DEFINE status == IF st.failures + 1 >= MaxFailures THEN "FAILED" ELSE "IN_FLIGHT"
<1>1. st.failures + 1 \in Nat /\ status \in {"IN_FLIGHT", "FAILED"}
  BY DEF PromotionState
<1>2. StateAfterVerifyFailure(st) =
        [st EXCEPT !.failures = st.failures + 1, !.waiting = TRUE, !.status = status]
  BY DEF StateAfterVerifyFailure, PromotionState
<1> HIDE DEF status
<1> QED BY <1>1, <1>2 DEF PromotionState

\* Save: hosted becomes what was verified, what the tick had read, or 0.
LEMMA SaveStep ==
  ASSUME PromotionInv, Alone, NEW t \in Ticks, Save(t)
  PROVE  PromotionInv'
<1> USE DEF PromotionInv, PromotionTypes
<1>1. UNCHANGED <<serving, box>>
  BY DEF Save
<1>2. PICK pc \in {"triggered", "verified", "failed"} :
        /\ At(t, pc)
        /\ LET new == CASE pc = "triggered" -> StateAfterTrigger(tick[t].serving)
                        [] pc = "verified" -> StateAfterVerified(tick[t].serving)
                        [] pc = "failed" -> StateAfterVerifyFailure(tick[t].state)
           IN state' \in {state, new}
        /\ Goto(t, "failed") \/ Off(t)
  BY DEF Save
<1>3. /\ tick[t].serving \in Nat /\ tick[t].state \in PromotionState
      /\ tick[t].serving <= serving /\ Served(tick[t].state.hosted)
      /\ pc = "verified" => Served(tick[t].serving)
  BY <1>2 DEF TickIsBehind, Invocation
<1>4. state' \in PromotionState /\ Served(state'.hosted)
  <2>1. CASE state' = state
    BY <2>1
  <2>2. CASE pc = "triggered" /\ state' = StateAfterTrigger(tick[t].serving)
    BY <1>3, <2>2, OffForgets DEF StateAfterTrigger, PromotionState
  <2>3. CASE pc = "verified" /\ state' = StateAfterVerified(tick[t].serving)
    BY <1>3, <2>3, OffForgets DEF StateAfterVerified, PromotionState
  <2>4. CASE pc = "failed" /\ state' = StateAfterVerifyFailure(tick[t].state)
    <3>1. state'.hosted = tick[t].state.hosted /\ state' \in PromotionState
      BY <1>3, <2>4, FailureKeepsHosted
    <3> QED BY <1>3, <3>1
  <2> QED BY <1>2, <2>1, <2>2, <2>3, <2>4
<1>5. box' \in Boxes /\ \A d \in Deployments : box'[d].pc = "up" => box'[d] = box[d]
  BY <1>1
<1>6. CASE Goto(t, "failed")
  <2>1. "failed" \in TickPcs
    BY DEF TickPcs
  <2> QED BY ZenonT(40), <1>1, <1>3, <1>4, <1>5, <1>6, <2>1, GotoKeepsMemory, TickChanges
<1>7. CASE Off(t)
  <2>1. tick' = [tick EXCEPT ![t] = Idle]
    BY <1>7 DEF Off
  <2>2. Idle.serving <= serving /\ Served(Idle.state.hosted)
    BY OffForgets
  <2> QED BY <1>1, <1>4, <1>5, <2>1, <2>2, OffForgets, TickChanges
<1> QED BY <1>2, <1>6, <1>7

\* Every step of the promotion other than a publication.
LEMMA PromotionStep ==
  ASSUME PromotionInv, Alone,
         \/ BackoffEnds
         \/ \E d \in Deployments : Visit(d) \/ BootStep(d) \/ Die(d)
         \/ \E t \in Ticks : TickStep(t)
  PROVE  PromotionInv'
<1>1. CASE BackoffEnds
  <2>1. /\ UNCHANGED <<serving, tick, box>>
        /\ state' \in PromotionState /\ state'.hosted = state.hosted
    BY <1>1 DEF BackoffEnds, PromotionInv, PromotionTypes, PromotionState
  <2> QED BY <2>1 DEF PromotionInv, PromotionTypes, ReportsWhatItOpened, Served,
                      TickIsBehind, At
<1>2. CASE \E d \in Deployments : Visit(d) \/ BootStep(d) \/ Die(d)
  BY <1>2, ContainerStep DEF BootStep
<1>3. CASE \E t \in Ticks : TickStep(t)
  BY <1>3, ReadingStep, AskingStep, HealthStep, SaveStep DEF TickStep
<1> QED BY <1>1, <1>2, <1>3

\* A deployment that is alone never shows a generation older than the one its
\* promotion state calls hosted, for any number of overlapping ticks, faults and
\* publications (hosted-promotion.ts, runTick).
THEOREM HostedIsCorrect == Alone => (HPSpec => []HostedIsServed)
<1> SUFFICES ASSUME Alone PROVE HPSpec => []HostedIsServed
  OBVIOUS
<1>1. HPInit => PromotionInv
  BY InitPromotion
<1>2. PromotionInv /\ [HPNext]_hpVars => PromotionInv'
  <2> SUFFICES ASSUME PromotionInv, [HPNext]_hpVars PROVE PromotionInv'
    OBVIOUS
  <2>1. CASE Publish
    BY <2>1, CurrentMovesForward DEF Publish, PromotionInv, PromotionTypes
  <2>2. CASE UNCHANGED hpVars
    BY <2>2, CurrentMovesForward DEF hpVars, PromotionInv, PromotionTypes
  <2> QED BY <2>1, <2>2, PromotionStep DEF HPNext
<1>3. PromotionInv => HostedIsServed
  BY DEF PromotionInv, ReportsWhatItOpened, Served, HostedIsServed
<1> QED BY <1>1, <1>2, <1>3, PTL DEF HPSpec
-----------------------------------------------------------------------------
(* Types. *)

\* A promotion that is stopped has used up its failures; one that is hosted is of
\* the generation that triggered it.
WellFormed(st) ==
  /\ st \in States
  /\ st.status = "FAILED" <=> st.failures >= MaxFailures
  /\ st.status = "IDLE" => st.trigger = 0
  /\ st.status = "HOSTED_FRESH" => st.hosted = st.trigger

\* Types of a tick and of all that the promotion keeps.
Tick == [pc : TickPcs, at : Deployments, serving : Generations, state : States]

\* The type invariant: with the types, the states are well formed.
HPTypes ==
  /\ serving \in Generations /\ WellFormed(state)
  /\ tick \in [Ticks -> Tick] /\ \A t \in Ticks : WellFormed(tick[t].state)
  /\ box \in [Deployments -> [pc : BoxPcs, gen : Generations, db : Generations]]
  /\ restarts \in [Generations -> Nat] /\ faults \in 0..MaxFaults
  /\ overlap \in BOOLEAN

(* Restarts. *)

\* A restart of g more would be paid for by a fault.
Slack(g) == restarts[g] <= faults
AllSlack == \A g \in Generations : Slack(g)

\* The restart for g is on record, or about to be.
Recorded(g) == state.trigger = g \/ \E t \in Ticks : At(t, "triggered") /\ tick[t].serving = g

\* No tick will decide about g again.
Past(g) == g # serving /\ \A t \in Ticks : At(t, "load") => tick[t].serving # g

\* At most one tick is at work.
OneAtATime == \A t, u \in Ticks : t # u => At(t, "off") \/ At(u, "off")

\* What the tick at work has read of CURRENT and of the state.
TickIsUpToDate(t) ==
  /\ tick[t].pc # "off" =>
       /\ tick[t].serving <= serving /\ tick[t].state.trigger <= serving
       /\ tick[t].serving = 0 => At(t, "load")
       /\ tick[t].serving # 0 => state.trigger <= tick[t].serving
  /\ At(t, "restart") => Slack(tick[t].serving)
  /\ tick[t].pc \in {"verify", "asked", "verified"} =>
       state.trigger = tick[t].serving /\ tick[t].state.trigger = state.trigger
  /\ At(t, "failed") => tick[t].state.trigger = state.trigger \/ AllSlack

\* What is known of the restarts for generation g: at most one more than there
\* were faults; and if that one has been made, it is on record, or no tick
\* will ask again.
RestartIsPaidFor(g) ==
  /\ restarts[g] <= 1 + faults
  /\ g > serving => Slack(g)
  /\ g = 0 \/ Slack(g) \/ Recorded(g) \/ Past(g)

\* The invariant of ticks that have not overlapped.
RestartInv ==
  overlap \/
    /\ OneAtATime /\ state.trigger <= serving
    /\ \A g \in Generations : RestartIsPaidFor(g)
    /\ \A t \in Ticks : TickIsUpToDate(t)

\* The states that are saved are well formed.
LEMMA SavedStates ==
  ASSUME NEW g \in Generations
  PROVE  /\ WellFormed(EmptyState) /\ EmptyState.trigger = 0 /\ EmptyState.hosted = 0
         /\ EmptyState.status = "IDLE"
         /\ WellFormed(StateAfterTrigger(g)) /\ StateAfterTrigger(g).trigger = g
         /\ WellFormed(StateAfterVerified(g)) /\ StateAfterVerified(g).trigger = g
<1>1. 0 \in Generations /\ ~(0 >= MaxFailures)
  BY HPAssumption DEF Generations
<1>2. EmptyState = [trigger |-> 0, status |-> "IDLE", hosted |-> 0, failures |-> 0, waiting |-> FALSE]
  BY DEF EmptyState
<1>3. EmptyState \in States
  BY <1>1, <1>2 DEF States
<1>4. PICK st : st = StateAfterTrigger(g)
  OBVIOUS
<1>5. /\ st \in States /\ st.trigger = g /\ st.status = "IN_FLIGHT" /\ st.failures = 0
  BY <1>2, <1>3, <1>4 DEF StateAfterTrigger, States
<1>6. PICK verified : verified = StateAfterVerified(g)
  OBVIOUS
<1>7. /\ verified \in States /\ verified.trigger = g /\ verified.hosted = g
       /\ verified.status = "HOSTED_FRESH" /\ verified.failures = 0
  BY <1>2, <1>3, <1>6 DEF StateAfterVerified, States
<1>8. WellFormed(EmptyState) /\ EmptyState.trigger = 0 /\ EmptyState.hosted = 0 /\ EmptyState.status = "IDLE"
  BY <1>1, <1>2 DEF WellFormed, States
<1>9. WellFormed(StateAfterTrigger(g)) /\ StateAfterTrigger(g).trigger = g
  BY <1>1, <1>4, <1>5 DEF WellFormed
<1>10. WellFormed(StateAfterVerified(g)) /\ StateAfterVerified(g).trigger = g
  BY <1>1, <1>6, <1>7 DEF WellFormed
<1> QED BY <1>8, <1>9, <1>10

\* A failed verification keeps the trigger and reaches FAILED at the limit.
LEMMA FailureIsWellFormed ==
  ASSUME NEW st, WellFormed(st)
  PROVE  /\ WellFormed(StateAfterVerifyFailure(st))
         /\ StateAfterVerifyFailure(st).trigger = st.trigger
<1> DEFINE status == IF st.failures + 1 >= MaxFailures THEN "FAILED" ELSE "IN_FLIGHT"
<1>1. /\ st.failures + 1 \in Nat /\ status \in {"IN_FLIGHT", "FAILED"}
      /\ status = "FAILED" <=> st.failures + 1 >= MaxFailures
  BY DEF WellFormed, States
<1>2. StateAfterVerifyFailure(st) =
        [st EXCEPT !.failures = st.failures + 1, !.waiting = TRUE, !.status = status]
  BY DEF StateAfterVerifyFailure, WellFormed, States
<1> HIDE DEF status
<1> QED BY <1>1, <1>2 DEF WellFormed, States

\* Nobody at work and no container: both have their types.
LEMMA IdleIsTyped ==
  ASSUME Deployments # {}
  PROVE  /\ Idle \in Tick /\ Idle.pc = "off" /\ Idle.serving = 0 /\ Idle.state = EmptyState
         /\ NoBox \in [pc : BoxPcs, gen : Generations, db : Generations] /\ NoBox.pc = "off"
<1>1. Idle.at \in Deployments
  BY DEF Idle
<1>2. 0 \in Generations /\ EmptyState \in States
  BY HPAssumption DEF Generations, EmptyState, States
<1> QED BY <1>1, <1>2 DEF Idle, Tick, TickPcs, NoBox, BoxPcs

\* The types hold at the beginning.
LEMMA InitTypes ==
  ASSUME Deployments # {}, HPInit
  PROVE  HPTypes
<1>1. 0 \in Generations
  BY HPAssumption DEF Generations
<1>2. WellFormed(EmptyState)
  BY <1>1, SavedStates
<1>3. faults \in 0..MaxFaults /\ restarts \in [Generations -> Nat]
  BY HPAssumption DEF HPInit
<1> QED BY <1>1, <1>2, <1>3, IdleIsTyped DEF HPInit, HPTypes

\* A tick takes a step: what it is then, and what it leaves alone.
TickGoes(t, x) == tick' = [tick EXCEPT ![t] = x]

\* A tick that goes on keeps what it has read.
LEMMA GotoGoes ==
  ASSUME HPTypes, NEW t \in Ticks, NEW pc \in TickPcs, Goto(t, pc)
  PROVE  \E x \in Tick : /\ TickGoes(t, x) /\ x.pc = pc /\ x.at = tick[t].at
                         /\ x.serving = tick[t].serving /\ x.state = tick[t].state
<1>1. PICK x : x = [tick[t] EXCEPT !.pc = pc]
  OBVIOUS
<1>2. tick[t] \in Tick
  BY DEF HPTypes
<1>3. TickGoes(t, x)
  BY <1>1, <1>2 DEF Goto, TickGoes, HPTypes
<1>4. /\ x \in Tick /\ x.pc = pc /\ x.at = tick[t].at
      /\ x.serving = tick[t].serving /\ x.state = tick[t].state
  BY <1>1, <1>2 DEF Tick
<1> QED BY <1>3, <1>4

\* A tick that ends forgets it.
LEMMA OffGoes ==
  ASSUME Deployments # {}, NEW t \in Ticks, Off(t)
  PROVE  \E x \in Tick : TickGoes(t, x) /\ x.pc = "off" /\ x.serving = 0 /\ x.state = EmptyState
BY IdleIsTyped DEF Off, TickGoes

\* What Begin makes of a tick: it has read CURRENT, or nothing.
LEMMA BeginGoes ==
  ASSUME Deployments # {}, HPTypes, NEW t \in Ticks, Begin(t)
  PROVE  \E x \in Tick : /\ TickGoes(t, x) /\ x.pc = "load" /\ x.state = EmptyState
                         /\ \/ NoFault /\ x.serving = serving
                            \/ Fault /\ x.serving = 0
<1>1. PICK d \in Deployments :
        \/ NoFault /\ tick' = [tick EXCEPT ![t] = [Idle EXCEPT !.pc = "load", !.at = d,
                                                               !.serving = serving]]
        \/ Fault /\ tick' = [tick EXCEPT ![t] = [Idle EXCEPT !.pc = "load", !.at = d]]
  BY DEF Begin
<1>2. Idle \in Tick /\ Idle.serving = 0 /\ Idle.state = EmptyState /\ serving \in Generations
  BY IdleIsTyped DEF HPTypes
<1>3. CASE NoFault /\ tick' = [tick EXCEPT ![t] = [Idle EXCEPT !.pc = "load", !.at = d,
                                                               !.serving = serving]]
  <2>1. PICK x : x = [Idle EXCEPT !.pc = "load", !.at = d, !.serving = serving]
    OBVIOUS
  <2>2. x \in Tick /\ x.pc = "load" /\ x.serving = serving /\ x.state = EmptyState
    BY <1>2, <2>1 DEF Tick, TickPcs
  <2> QED BY <1>3, <2>1, <2>2 DEF TickGoes
<1>4. CASE Fault /\ tick' = [tick EXCEPT ![t] = [Idle EXCEPT !.pc = "load", !.at = d]]
  <2>1. PICK x : x = [Idle EXCEPT !.pc = "load", !.at = d]
    OBVIOUS
  <2>2. x \in Tick /\ x.pc = "load" /\ x.serving = 0 /\ x.state = EmptyState
    BY <1>2, <2>1 DEF Tick, TickPcs
  <2> QED BY <1>4, <2>1, <2>2 DEF TickGoes
<1> QED BY <1>1, <1>3, <1>4

\* What Load makes of it: it has read the state, or nothing, and decided.
LEMMA LoadGoes ==
  ASSUME HPTypes, NEW t \in Ticks, Load(t)
  PROVE  \E x \in Tick, st \in {state, EmptyState} :
           /\ TickGoes(t, x) /\ x.pc = Decision(tick[t].serving, st) /\ x.state = st
           /\ x.serving = tick[t].serving /\ x.pc \in {"off", "verify", "restart"}
           /\ WellFormed(st)
           /\ \/ NoFault /\ st = state
              \/ Fault /\ st = EmptyState
<1>1. PICK st \in {state, EmptyState} :
        /\ tick' = [tick EXCEPT ![t].state = st, ![t].pc = Decision(tick[t].serving, st)]
        /\ \/ NoFault /\ st = state
           \/ Fault /\ st = EmptyState
  <2>1. CASE NoFault /\ tick' = [tick EXCEPT ![t].state = state,
                                             ![t].pc = Decision(tick[t].serving, state)]
    BY <2>1
  <2>2. CASE Fault /\ tick' = [tick EXCEPT ![t].state = EmptyState,
                                           ![t].pc = Decision(tick[t].serving, EmptyState)]
    BY <2>2
  <2> QED BY <2>1, <2>2 DEF Load
<1>2. PICK pc : pc = Decision(tick[t].serving, st)
  OBVIOUS
<1>3. pc \in {"off", "verify", "restart"}
  BY <1>2 DEF Decision
<1>4. tick[t] \in Tick /\ 0 \in Generations
  BY HPAssumption DEF HPTypes, Generations
<1>5. WellFormed(st) /\ st \in States
  <2>1. WellFormed(EmptyState) /\ WellFormed(state)
    BY <1>4, SavedStates DEF HPTypes
  <2> QED BY <2>1 DEF WellFormed
<1>6. PICK x : x = [tick[t] EXCEPT !.state = st, !.pc = pc]
  OBVIOUS
<1>7. TickGoes(t, x)
  BY <1>1, <1>2, <1>4, <1>6 DEF TickGoes, HPTypes
<1>8. x \in Tick /\ x.pc = pc /\ x.state = st /\ x.serving = tick[t].serving
  BY <1>3, <1>4, <1>5, <1>6 DEF Tick, TickPcs
<1> QED BY <1>1, <1>2, <1>3, <1>5, <1>7, <1>8

\* What Save makes of the state.
NewState(t, pc) ==
  CASE pc = "triggered" -> StateAfterTrigger(tick[t].serving)
    [] pc = "verified" -> StateAfterVerified(tick[t].serving)
    [] pc = "failed" -> StateAfterVerifyFailure(tick[t].state)

\* A put of the state ends the tick; if it throws, the state is the old one or
\* the new one, and a fault has been spent.
LEMMA SaveGoes ==
  ASSUME Deployments # {}, HPTypes, NEW t \in Ticks, Save(t)
  PROVE  \E x \in Tick, pc \in {"triggered", "verified", "failed"} :
           /\ At(t, pc) /\ TickGoes(t, x) /\ WellFormed(x.state)
           /\ WellFormed(NewState(t, pc)) /\ state' \in {state, NewState(t, pc)}
           /\ NewState(t, pc).trigger =
                IF pc = "failed" THEN tick[t].state.trigger ELSE tick[t].serving
           /\ \/ NoFault /\ x.pc = "off" /\ state' = NewState(t, pc)
              \/ Fault /\ x.pc = "off"
              \/ /\ Fault /\ x.pc = "failed" /\ pc = "triggered"
                 /\ x.serving = tick[t].serving /\ x.state = tick[t].state
<1>1. PICK pc \in {"triggered", "verified", "failed"} :
        /\ At(t, pc)
        /\ \/ NoFault /\ state' = NewState(t, pc) /\ Off(t)
           \/ /\ Fault /\ state' \in {state, NewState(t, pc)}
              /\ IF pc = "triggered" THEN Goto(t, "failed") ELSE Off(t)
  BY DEF Save, NewState
<1>2. tick[t].serving \in Generations /\ WellFormed(tick[t].state)
  BY DEF HPTypes, Tick
<1>3. /\ WellFormed(NewState(t, pc))
      /\ NewState(t, pc).trigger = IF pc = "failed" THEN tick[t].state.trigger ELSE tick[t].serving
  BY <1>2, SavedStates, FailureIsWellFormed DEF NewState
<1>4. WellFormed(EmptyState)
  BY <1>2, SavedStates
<1>5. CASE Off(t)
  <2>1. PICK x \in Tick : TickGoes(t, x) /\ x.pc = "off" /\ x.serving = 0 /\ x.state = EmptyState
    BY <1>5, OffGoes
  <2> QED BY <1>1, <1>3, <1>4, <2>1
<1>6. CASE Goto(t, "failed") /\ Fault /\ pc = "triggered"
  <2>1. PICK x \in Tick : /\ TickGoes(t, x) /\ x.pc = "failed"
                          /\ x.serving = tick[t].serving /\ x.state = tick[t].state
    BY <1>6, GotoGoes DEF TickPcs
  <2> QED BY <1>1, <1>2, <1>3, <1>6, <2>1
<1> QED BY <1>1, <1>5, <1>6

-----------------------------------------------------------------------------
(* Types are preserved. *)

\* Faults only become more, up to their bound.
LEMMA FaultsAreBounded ==
  ASSUME HPTypes, Fault \/ NoFault
  PROVE  faults' \in 0..MaxFaults /\ faults' \in Nat /\ faults \in Nat /\ faults' >= faults
BY HPAssumption DEF HPTypes, Fault, NoFault

\* What is compared and counted are numbers.
LEMMA Numbers ==
  ASSUME HPTypes
  PROVE  /\ serving \in Nat /\ Generations \subseteq Nat /\ 0 \in Generations
         /\ restarts \in [Generations -> Nat] /\ faults \in Nat /\ state.trigger \in Nat
         /\ \A t \in Ticks : tick[t].serving \in Generations /\ tick[t].state.trigger \in Nat
<1>1. Generations \subseteq Nat /\ 0 \in Generations
  BY HPAssumption DEF Generations
<1>2. serving \in Nat /\ restarts \in [Generations -> Nat] /\ faults \in Nat
  BY HPAssumption, <1>1 DEF HPTypes
<1>3. state.trigger \in Nat
  BY <1>1 DEF HPTypes, WellFormed, States
<1>4. ASSUME NEW t \in Ticks
      PROVE  tick[t].serving \in Generations /\ tick[t].state.trigger \in Nat
  <2>1. tick[t] \in Tick /\ tick[t].state \in States
    BY DEF HPTypes, WellFormed
  <2> QED BY <1>1, <2>1 DEF Tick, States
<1> QED BY <1>1, <1>2, <1>3, <1>4

\* A step of a tick keeps the types.
LEMMA TypedTickGoes ==
  ASSUME HPTypes, NEW t \in Ticks, NEW x \in Tick, TickGoes(t, x), WellFormed(x.state),
         WellFormed(state'), UNCHANGED serving, Fault \/ NoFault, overlap' \in BOOLEAN,
         restarts' \in [Generations -> Nat],
         box' \in [Deployments -> [pc : BoxPcs, gen : Generations, db : Generations]]
  PROVE  HPTypes'
<1>1. tick' \in [Ticks -> Tick] /\ \A u \in Ticks : WellFormed(tick'[u].state)
  BY DEF HPTypes, TickGoes
<1>2. (\A u \in Ticks : WellFormed(tick[u].state))'
  BY <1>1 DEF WellFormed
<1>3. WellFormed(state)'
  BY DEF WellFormed
<1> QED BY <1>1, <1>2, <1>3, FaultsAreBounded DEF HPTypes

\* A step of a tick keeps the types.
LEMMA TickTypes ==
  ASSUME Deployments # {}, HPTypes, NEW t \in Ticks, TickStep(t)
  PROVE  HPTypes'
<1>1. tick[t] \in Tick /\ WellFormed(tick[t].state) /\ WellFormed(state)
  BY DEF HPTypes
<1>2. tick[t].at \in Deployments /\ tick[t].serving \in Generations
  BY <1>1 DEF Tick
<1>3. WellFormed(EmptyState)
  BY <1>2, SavedStates
<1> USE DEF HPTypes
<1>4. CASE Begin(t)
  <2>1. PICK x \in Tick : TickGoes(t, x) /\ x.state = EmptyState /\ (Fault \/ NoFault)
    BY <1>4, BeginGoes
  <2>2. UNCHANGED <<serving, state, box, restarts>> /\ overlap' \in BOOLEAN
    BY <1>4 DEF Begin
  <2> QED BY <1>1, <1>3, <2>1, <2>2, TypedTickGoes
<1>5. CASE Load(t)
  <2>1. PICK x \in Tick : TickGoes(t, x) /\ WellFormed(x.state) /\ (Fault \/ NoFault)
    BY <1>5, LoadGoes
  <2>2. UNCHANGED <<serving, state, box, restarts, overlap>>
    BY <1>5 DEF Load
  <2> QED BY <1>1, <2>1, <2>2, TypedTickGoes
<1>6. CASE Restart(t)
  <2>1. PICK pc \in {"triggered", "failed"} : Goto(t, pc) /\ (Fault \/ NoFault)
    BY <1>6 DEF Restart
  <2>2. PICK x \in Tick : TickGoes(t, x) /\ x.state = tick[t].state
    BY <2>1, GotoGoes DEF TickPcs
  <2>3. UNCHANGED <<serving, state, overlap>> /\ restarts' \in [Generations -> Nat]
    BY <1>2, <1>6 DEF Restart
  <2>4. box' \in [Deployments -> [pc : BoxPcs, gen : Generations, db : Generations]]
    BY <1>2, <1>6, IdleIsTyped DEF Restart
  <2> QED BY <1>1, <2>1, <2>2, <2>3, <2>4, TypedTickGoes
<1>7. CASE AskHealth(t)
  <2>1. PICK x \in Tick : TickGoes(t, x) /\ x.state = tick[t].state
    BY <1>7, GotoGoes DEF AskHealth, TickPcs
  <2>2. UNCHANGED <<serving, state, faults, restarts, overlap>>
    BY <1>7 DEF AskHealth
  <2>3. PICK b \in [pc : BoxPcs, gen : Generations, db : Generations] :
          b = [NoBox EXCEPT !.pc = "metadata"]
    BY IdleIsTyped DEF NoBox, BoxPcs
  <2>4. box' \in [Deployments -> [pc : BoxPcs, gen : Generations, db : Generations]]
    BY <1>2, <1>7, <2>3 DEF AskHealth, Start
  <2> QED BY <1>1, <2>1, <2>2, <2>4, TypedTickGoes DEF NoFault
<1>8. CASE Health(t)
  <2>1. PICK pc \in {"verified", "failed"} : Goto(t, pc) /\ (Fault \/ NoFault)
    BY <1>8 DEF Health
  <2>2. PICK x \in Tick : TickGoes(t, x) /\ x.state = tick[t].state
    BY <2>1, GotoGoes DEF TickPcs
  <2>3. UNCHANGED <<serving, state, box, restarts, overlap>>
    BY <1>8 DEF Health
  <2> QED BY <1>1, <2>1, <2>2, <2>3, TypedTickGoes
<1>9. CASE Save(t)
  <2>1. PICK x \in Tick : /\ TickGoes(t, x) /\ WellFormed(x.state) /\ WellFormed(state')
                          /\ Fault \/ NoFault
    BY <1>1, <1>9, SaveGoes
  <2>2. UNCHANGED <<serving, box, restarts, overlap>>
    BY <1>9 DEF Save
  <2> QED BY <2>1, <2>2, TypedTickGoes
<1> QED BY <1>4, <1>5, <1>6, <1>7, <1>8, <1>9 DEF TickStep

\* So does a container that boots, is visited or dies.
LEMMA ContainerTypes ==
  ASSUME Deployments # {}, HPTypes, NEW d \in Deployments, Visit(d) \/ BootStep(d) \/ Die(d)
  PROVE  HPTypes'
<1> DEFINE Container == [pc : BoxPcs, gen : Generations, db : Generations]
<1>1. UNCHANGED <<serving, state, tick, restarts, overlap>> /\ (Fault \/ NoFault)
  BY DEF Visit, BootStep, ReadMetadata, StreamDatabase, Die, Fault, NoFault
<1>2. box \in [Deployments -> Container] /\ serving \in Generations /\ 0 \in Generations
  BY HPAssumption DEF HPTypes, Generations
<1>3. box' \in [Deployments -> Container]
  <2>1. PICK b \in {[NoBox EXCEPT !.pc = "metadata"], NoBox,
                    [pc |-> "stream", gen |-> serving, db |-> 0],
                    [box[d] EXCEPT !.pc = "up", !.db = serving]} :
          box' = [box EXCEPT ![d] = b]
    BY DEF Visit, BootStep, ReadMetadata, StreamDatabase, Die, Start
  <2>2. b \in Container
    <3>1. box[d] \in Container
      BY <1>2
    <3>2. [box[d] EXCEPT !.pc = "up", !.db = serving] \in Container
      BY <1>2, <3>1 DEF BoxPcs
    <3>3. /\ [NoBox EXCEPT !.pc = "metadata"] \in Container /\ NoBox \in Container
          /\ [pc |-> "stream", gen |-> serving, db |-> 0] \in Container
      BY <1>2 DEF NoBox, BoxPcs
    <3> QED BY <3>2, <3>3
  <2> HIDE DEF Container
  <2> QED BY <1>2, <2>1, <2>2
<1>4. WellFormed(state)' /\ (\A u \in Ticks : WellFormed(tick[u].state))'
  BY <1>1 DEF HPTypes, WellFormed
<1> QED BY <1>1, <1>3, <1>4, FaultsAreBounded DEF HPTypes

\* And the end of a backoff.
LEMMA BackoffTypes ==
  ASSUME HPTypes, BackoffEnds
  PROVE  HPTypes' /\ state'.trigger = state.trigger
<1>1. /\ UNCHANGED <<serving, tick, box, faults, restarts, overlap>>
      /\ state' = [state EXCEPT !.waiting = FALSE] /\ WellFormed(state)
  BY DEF BackoffEnds, HPTypes
<1>2. WellFormed(state)' /\ state'.trigger = state.trigger
  BY <1>1 DEF WellFormed, States
<1>3. (\A u \in Ticks : WellFormed(tick[u].state))'
  BY <1>1 DEF HPTypes, WellFormed
<1> QED BY <1>1, <1>2, <1>3 DEF HPTypes

\* A step of the rest of the system may move CURRENT and use up faults.
LEMMA OthersKeepTypes ==
  ASSUME HPTypes, UNCHANGED <<state, tick, box, restarts, overlap>>,
         serving' \in Generations, faults' \in 0..MaxFaults
  PROVE  HPTypes'
<1>1. WellFormed(state)' /\ (\A u \in Ticks : WellFormed(tick[u].state))'
  BY DEF HPTypes, WellFormed
<1> QED BY <1>1 DEF HPTypes

\* So does every step but the publication of Serving, which a module that
\* publishes proves for itself.
LEMMA PromotionTypesStep ==
  ASSUME Deployments # {}, HPTypes,
         \/ BackoffEnds
         \/ \E d \in Deployments : Visit(d) \/ BootStep(d) \/ Die(d)
         \/ \E t \in Ticks : TickStep(t)
  PROVE  HPTypes'
BY BackoffTypes, ContainerTypes, TickTypes

-----------------------------------------------------------------------------
(* Restarts are paid for. *)

\* The invariant as it bears on the one tick that may be at work: x is that
\* tick, trigger the promotion on record, r the restarts and f the faults so far.
UpToDate(x, trigger, r, f) ==
  /\ x.pc # "off" =>
       /\ x.serving <= serving /\ x.state.trigger <= serving
       /\ x.serving = 0 => x.pc = "load"
       /\ x.serving # 0 => trigger <= x.serving
  /\ x.pc = "restart" => r[x.serving] <= f
  /\ x.pc \in {"verify", "asked", "verified"} => trigger = x.serving /\ x.state.trigger = trigger
  /\ x.pc = "failed" => x.state.trigger = trigger \/ \A g \in Generations : r[g] <= f

\* The same of RestartIsPaidFor.
Paid(g, x, trigger, r, f) ==
  /\ r[g] <= 1 + f
  /\ g > serving => r[g] <= f
  /\ \/ g = 0 \/ r[g] <= f \/ trigger = g
     \/ x.pc = "triggered" /\ x.serving = g
     \/ g # serving /\ (x.pc = "load" => x.serving # g)

\* Both, of all generations.
Sound(x, trigger, r, f) ==
  trigger <= serving /\ UpToDate(x, trigger, r, f) /\ \A g \in Generations : Paid(g, x, trigger, r, f)

\* Tick t is the only one at work.
OthersAreOff(t) == \A u \in Ticks : u # t => At(u, "off")

\* What the invariant says of the only tick at work.
LEMMA SoundBefore ==
  ASSUME RestartInv, ~overlap, NEW t \in Ticks, OthersAreOff(t)
  PROVE  Sound(tick[t], state.trigger, restarts, faults)
<1>1. UpToDate(tick[t], state.trigger, restarts, faults)
  BY DEF RestartInv, TickIsUpToDate, UpToDate, At, Slack, AllSlack
<1>2. ASSUME NEW g \in Generations
      PROVE  Paid(g, tick[t], state.trigger, restarts, faults)
  <2>1. RestartIsPaidFor(g)
    BY DEF RestartInv
  <2>2. Recorded(g) => \/ state.trigger = g
                       \/ tick[t].pc = "triggered" /\ tick[t].serving = g
    <3> SUFFICES ASSUME NEW u \in Ticks, At(u, "triggered"), tick[u].serving = g
                 PROVE  tick[t].pc = "triggered" /\ tick[t].serving = g
      BY DEF Recorded
    <3>1. u = t
      BY DEF OthersAreOff, At
    <3> QED BY <3>1 DEF At
  <2>3. Past(g) => g # serving /\ (tick[t].pc = "load" => tick[t].serving # g)
    BY DEF Past, At
  <2> QED BY <2>1, <2>2, <2>3 DEF RestartIsPaidFor, Paid, Slack
<1> QED BY <1>1, <1>2 DEF Sound, RestartInv

\* What has to be shown of it after its step.
LEMMA SoundAfter ==
  ASSUME HPTypes, NEW t \in Ticks, OthersAreOff(t), NEW x \in Tick, TickGoes(t, x),
         UNCHANGED serving, Sound(x, state'.trigger, restarts', faults')
  PROVE  RestartInv'
<1>1. /\ tick'[t] = x
      /\ \A u \in Ticks : u # t => tick'[u].pc = "off"
  BY DEF HPTypes, TickGoes, OthersAreOff, At
<1>2. OneAtATime'
  BY <1>1 DEF OneAtATime, At
<1>3. ASSUME NEW u \in Ticks
      PROVE  TickIsUpToDate(u)'
  <2>1. CASE u = t
    BY <1>1, <2>1 DEF Sound, UpToDate, TickIsUpToDate, At, Slack, AllSlack
  <2>2. CASE u # t
    BY <1>1, <2>2 DEF TickIsUpToDate, At
  <2> QED BY <2>1, <2>2
<1>4. ASSUME NEW g \in Generations
      PROVE  RestartIsPaidFor(g)'
  <2>1. Paid(g, x, state'.trigger, restarts', faults')
    BY DEF Sound
  <2>2. x.pc = "triggered" /\ x.serving = g => Recorded(g)'
    BY <1>1 DEF Recorded, At
  <2>3. g # serving /\ (x.pc = "load" => x.serving # g) => Past(g)'
    BY <1>1 DEF Past, At
  <2>4. state'.trigger = g => Recorded(g)'
    BY DEF Recorded
  <2> QED BY <2>1, <2>2, <2>3, <2>4 DEF Paid, RestartIsPaidFor, Slack
<1>5. state'.trigger <= serving'
  BY DEF Sound
<1>6. (\A g \in Generations : RestartIsPaidFor(g))'
  BY <1>4 DEF Generations
<1> QED BY <1>2, <1>3, <1>5, <1>6 DEF RestartInv

\* A fault pays for whatever is restarted next.
LEMMA FaultPays ==
  ASSUME HPTypes, Fault, NEW r \in [Generations -> Nat],
         \A g \in Generations : r[g] <= 1 + faults
  PROVE  \A g \in Generations : r[g] <= faults'
BY DEF HPTypes, Fault

\* With slack for every generation all that is left to show is what the tick read.
LEMMA SlackIsSound ==
  ASSUME HPTypes, NEW x, NEW trigger, NEW r \in [Generations -> Nat], faults' \in Nat,
         \A g \in Generations : r[g] <= faults', trigger <= serving,
         x.serving \in Generations,
         x.pc # "off" =>
           /\ x.serving <= serving /\ x.state.trigger <= serving
           /\ x.serving = 0 => x.pc = "load"
           /\ x.serving # 0 => trigger <= x.serving,
         x.pc \notin {"verify", "asked", "verified"}
  PROVE  Sound(x, trigger, r, faults')
<1>1. \A g \in Generations : Paid(g, x, trigger, r, faults')
  BY DEF Paid
<1>2. UpToDate(x, trigger, r, faults')
  BY DEF UpToDate
<1> QED BY <1>1, <1>2 DEF Sound

\* The invariant holds at the beginning.
LEMMA InitRestarts == Deployments # {} /\ HPInit => RestartInv
<1> SUFFICES ASSUME Deployments # {}, HPInit PROVE RestartInv
  OBVIOUS
<1>1. /\ serving = 0 /\ state.trigger = 0 /\ faults = 0
      /\ \A g \in Generations : g \in Nat /\ restarts[g] = 0
  BY HPAssumption DEF HPInit, EmptyState, Generations
<1>2. \A t \in Ticks : At(t, "off")
  BY IdleIsTyped DEF HPInit, At
<1>3. OneAtATime /\ \A t \in Ticks : TickIsUpToDate(t)
  BY <1>2 DEF OneAtATime, TickIsUpToDate, At
<1>4. \A g \in Generations : RestartIsPaidFor(g)
  BY <1>1 DEF RestartIsPaidFor, Slack
<1> QED BY <1>1, <1>3, <1>4 DEF RestartInv

\* The tick that takes the step is the only one at work.
LEMMA SteppingAlone ==
  ASSUME RestartInv, ~overlap, NEW t \in Ticks, TickStep(t), ~overlap'
  PROVE  OthersAreOff(t)
<1>1. CASE Begin(t)
  BY <1>1 DEF Begin, OthersAreOff, At
<1>2. CASE ~Begin(t)
  <2>1. ~At(t, "off")
    BY <1>2 DEF TickStep, Load, Restart, AskHealth, Health, Save, At
  <2> QED BY <2>1 DEF RestartInv, OneAtATime, OthersAreOff
<1> QED BY <1>1, <1>2

\* A tick that has read the true state restarts a generation only if that one is
\* not on record.
LEMMA TrueStateRestartsNew ==
  ASSUME WellFormed(state), NEW g, Decision(g, state) = "restart"
  PROVE  g # 0 /\ state.trigger # g
<1>1. g # 0 /\ state.hosted # g /\ ~Stopped(g, state) /\ ~InFlight(g, state)
  BY DEF Decision
<1> QED BY <1>1 DEF WellFormed, States, Stopped, InFlight

\* A tick verifies only the generation that was triggered.
LEMMA VerifyIsInFlight ==
  ASSUME NEW g, NEW st, Decision(g, st) = "verify"
  PROVE  g # 0 /\ st.trigger = g /\ st.status = "IN_FLIGHT"
<1>1. g # 0 /\ st.hosted # g /\ ~Stopped(g, st)
  BY DEF Decision
<1>2. CASE ~InFlight(g, st)
  BY <1>1, <1>2 DEF Decision
<1>3. CASE InFlight(g, st)
  BY <1>1, <1>3 DEF InFlight
<1> QED BY <1>2, <1>3

\* Without a generation nothing is decided.
LEMMA DecisionNeedsGeneration ==
  ASSUME NEW st
  PROVE  Decision(0, st) = "off"
<1>1. 0 = 0 \/ st.hosted = 0 \/ Stopped(0, st)
  OBVIOUS
<1> QED BY <1>1 DEF Decision

\* The steps of a tick that is alone at work.
LEMMA BeginIsSound ==
  ASSUME Deployments # {}, HPTypes, NEW t \in Ticks, Begin(t), OthersAreOff(t),
         Sound(tick[t], state.trigger, restarts, faults)
  PROVE  RestartInv'
<1>1. PICK x \in Tick : /\ TickGoes(t, x) /\ x.pc = "load" /\ x.state = EmptyState
                        /\ \/ NoFault /\ x.serving = serving
                           \/ Fault /\ x.serving = 0
  BY BeginGoes
<1>2. UNCHANGED <<serving, state, restarts>> /\ tick[t].pc = "off"
  BY DEF Begin, At
<1>3. /\ serving \in Nat /\ x.serving \in Generations /\ x.state.trigger = 0
      /\ 0 \in Generations /\ Generations \subseteq Nat
  <2>1. /\ serving \in Nat /\ x.serving \in Generations /\ 0 \in Generations
        /\ Generations \subseteq Nat
    BY HPAssumption, <1>1 DEF HPTypes, Generations, Tick
  <2> QED BY <1>1, <2>1, SavedStates
<1>4. restarts \in [Generations -> Nat] /\ faults' \in Nat /\ state.trigger \in Nat
  BY <1>1, <1>3, FaultsAreBounded DEF HPTypes, WellFormed, States
<1>5. CASE NoFault /\ x.serving = serving
  <2>1. UpToDate(x, state.trigger, restarts, faults)
    BY <1>1, <1>3, <1>4, <1>5 DEF Sound, UpToDate
  <2>2. \A g \in Generations : Paid(g, x, state.trigger, restarts, faults)
    BY <1>1, <1>2, <1>5 DEF Sound, Paid
  <2>3. Sound(x, state'.trigger, restarts', faults')
    BY <1>2, <1>5, <2>1, <2>2 DEF Sound, NoFault
  <2> QED BY <1>1, <1>2, <2>3, SoundAfter
<1>6. CASE Fault /\ x.serving = 0
  <2>1. \A g \in Generations : restarts[g] <= faults'
    BY <1>4, <1>6, FaultPays DEF Sound, Paid
  <2>2. Sound(x, state'.trigger, restarts', faults')
    BY <1>1, <1>2, <1>3, <1>4, <1>6, <2>1, SlackIsSound DEF Sound
  <2> QED BY <1>1, <1>2, <2>2, SoundAfter
<1> QED BY <1>1, <1>5, <1>6

\* Reading the state and deciding keeps it: a restart is decided only for a
\* generation that is not on record.
LEMMA LoadIsSound ==
  ASSUME HPTypes, NEW t \in Ticks, Load(t), OthersAreOff(t),
         Sound(tick[t], state.trigger, restarts, faults)
  PROVE  RestartInv'
<1>1. PICK x \in Tick, st \in {state, EmptyState} :
        /\ TickGoes(t, x) /\ x.pc = Decision(tick[t].serving, st) /\ x.state = st
        /\ x.serving = tick[t].serving /\ x.pc \in {"off", "verify", "restart"}
        /\ WellFormed(st)
        /\ \/ NoFault /\ st = state
           \/ Fault /\ st = EmptyState
  BY LoadGoes
<1>2. UNCHANGED <<serving, state, restarts>> /\ tick[t].pc = "load"
  BY DEF Load, At
<1>3. /\ serving \in Nat /\ x.serving \in Generations /\ 0 \in Generations
      /\ Generations \subseteq Nat
  BY HPAssumption, <1>1 DEF HPTypes, Generations, Tick
<1>4. /\ restarts \in [Generations -> Nat] /\ faults' \in Nat /\ state.trigger \in Nat
      /\ EmptyState.trigger = 0 /\ EmptyState.status = "IDLE"
  BY <1>1, <1>3, FaultsAreBounded, SavedStates DEF HPTypes, WellFormed, States
<1>5. /\ x.serving <= serving /\ st.trigger <= serving /\ state.trigger <= serving
      /\ x.serving # 0 => state.trigger <= x.serving
      /\ x.serving = 0 => x.pc = "off"
  <2>1. x.serving <= serving /\ state.trigger <= serving
        /\ (x.serving # 0 => state.trigger <= x.serving)
    BY <1>1, <1>2 DEF Sound, UpToDate
  <2>2. x.serving = 0 => x.pc = "off"
    BY <1>1, DecisionNeedsGeneration
  <2>3. st.trigger <= serving
    BY <1>1, <1>3, <1>4, <2>1
  <2> QED BY <2>1, <2>2, <2>3
<1>6. CASE NoFault /\ st = state
  <2>1. x.pc = "restart" => restarts[x.serving] <= faults
    <3> SUFFICES ASSUME x.pc = "restart" PROVE restarts[x.serving] <= faults
      OBVIOUS
    <3>1. x.serving # 0 /\ state.trigger # x.serving
      BY <1>1, <1>6, TrueStateRestartsNew
    <3>2. Paid(x.serving, tick[t], state.trigger, restarts, faults)
      BY <1>3 DEF Sound
    <3> QED BY <1>1, <1>2, <3>1, <3>2 DEF Paid
  <2>2. x.pc = "verify" => state.trigger = x.serving /\ x.state.trigger = state.trigger
    BY <1>1, <1>6, VerifyIsInFlight
  <2>3. UpToDate(x, state.trigger, restarts, faults)
    BY <1>1, <1>5, <2>1, <2>2 DEF UpToDate
  <2>4. \A g \in Generations : Paid(g, x, state.trigger, restarts, faults)
    BY <1>1, <1>2 DEF Sound, Paid
  <2>5. Sound(x, state'.trigger, restarts', faults')
    BY <1>2, <1>5, <1>6, <2>3, <2>4 DEF Sound, NoFault
  <2> QED BY <1>1, <1>2, <2>5, SoundAfter
<1>7. CASE Fault /\ st = EmptyState
  <2>1. \A g \in Generations : restarts[g] <= faults'
    BY <1>4, <1>7, FaultPays DEF Sound, Paid
  <2>2. x.pc # "verify"
    BY <1>1, <1>4, <1>7, VerifyIsInFlight
  <2>3. Sound(x, state'.trigger, restarts', faults')
    BY <1>1, <1>2, <1>3, <1>4, <1>5, <2>1, <2>2, SlackIsSound
  <2> QED BY <1>1, <1>2, <2>3, SoundAfter
<1> QED BY <1>1, <1>6, <1>7

\* The restart keeps it: it is the first, or a fault has paid for it.
LEMMA RestartIsSound ==
  ASSUME HPTypes, NEW t \in Ticks, Restart(t), OthersAreOff(t),
         Sound(tick[t], state.trigger, restarts, faults)
  PROVE  RestartInv'
<1>1. PICK pc \in {"triggered", "failed"} :
        /\ Goto(t, pc)
        /\ \/ NoFault /\ pc = "triggered"
           \/ Fault
  BY DEF Restart
<1>2. PICK x \in Tick : /\ TickGoes(t, x) /\ x.pc = pc
                        /\ x.serving = tick[t].serving /\ x.state = tick[t].state
  BY <1>1, GotoGoes DEF TickPcs
<1>3. PICK g : g = tick[t].serving
  OBVIOUS
<1>4. /\ UNCHANGED <<serving, state>> /\ tick[t].pc = "restart"
      /\ restarts' = [restarts EXCEPT ![g] = @ + 1]
  BY <1>3 DEF Restart, At
<1>5. /\ g \in Generations /\ Generations \subseteq Nat /\ serving \in Nat
      /\ restarts \in [Generations -> Nat] /\ faults \in Nat /\ faults' \in Nat
      /\ state.trigger \in Nat
  BY <1>1, <1>3, Numbers, FaultsAreBounded
<1>6. /\ restarts' \in [Generations -> Nat] /\ restarts'[g] = restarts[g] + 1
      /\ \A h \in Generations : h # g => restarts'[h] = restarts[h]
  BY <1>4, <1>5
<1>7. /\ g # 0 /\ g <= serving /\ tick[t].state.trigger <= serving
      /\ state.trigger <= g /\ state.trigger <= serving /\ restarts[g] <= faults
  BY <1>3, <1>4 DEF Sound, UpToDate
<1>8. CASE NoFault /\ pc = "triggered"
  <2>1. UpToDate(x, state.trigger, restarts', faults)
    BY <1>2, <1>3, <1>7, <1>8 DEF UpToDate
  <2>2. ASSUME NEW h \in Generations
        PROVE  Paid(h, x, state.trigger, restarts', faults)
    <3>1. Paid(h, tick[t], state.trigger, restarts, faults)
      BY DEF Sound
    <3>2. CASE h = g
      BY <1>2, <1>3, <1>5, <1>6, <1>7, <1>8, <3>2 DEF Paid
    <3>3. CASE h # g
      BY <1>2, <1>4, <1>6, <1>8, <3>1, <3>3 DEF Paid
    <3> QED BY <3>2, <3>3
  <2>3. Sound(x, state'.trigger, restarts', faults')
    BY <1>4, <1>7, <1>8, <2>1, <2>2 DEF Sound, NoFault
  <2> QED BY <1>2, <1>4, <2>3, SoundAfter
<1>9. CASE Fault
  <2>1. \A h \in Generations : restarts[h] <= faults'
    BY <1>5, <1>9, FaultPays DEF Sound, Paid
  <2>2. \A h \in Generations : restarts'[h] <= faults'
    BY <1>5, <1>6, <1>7, <1>9, <2>1 DEF Fault
  <2>3. x.pc \notin {"verify", "asked", "verified", "off", "load"}
    BY <1>1, <1>2
  <2>4. Sound(x, state.trigger, restarts', faults')
    BY <1>2, <1>3, <1>5, <1>6, <1>7, <2>2, <2>3, SlackIsSound
  <2>5. Sound(x, state'.trigger, restarts', faults')
    BY <1>4, <2>4
  <2> QED BY <1>2, <1>4, <2>5, SoundAfter
<1> QED BY <1>1, <1>8, <1>9

\* Asking for /health, and its answer: nothing is restarted or recorded.
LEMMA HealthIsSound ==
  ASSUME HPTypes, NEW t \in Ticks, AskHealth(t) \/ Health(t), OthersAreOff(t),
         Sound(tick[t], state.trigger, restarts, faults)
  PROVE  RestartInv'
<1>1. PICK pc \in {"asked", "verified", "failed"} : Goto(t, pc)
  BY DEF AskHealth, Health
<1>2. PICK x \in Tick : /\ TickGoes(t, x) /\ x.pc = pc
                        /\ x.serving = tick[t].serving /\ x.state = tick[t].state
  BY <1>1, GotoGoes DEF TickPcs
<1>3. /\ UNCHANGED <<serving, state, restarts>> /\ tick[t].pc \in {"verify", "asked"}
      /\ Fault \/ NoFault
  BY DEF AskHealth, Health, At, NoFault
<1>4. /\ faults \in Nat /\ faults' \in Nat /\ faults' >= faults
      /\ restarts \in [Generations -> Nat]
  BY <1>3, FaultsAreBounded DEF HPTypes
<1>5. UpToDate(x, state.trigger, restarts, faults')
  BY <1>1, <1>2, <1>3 DEF Sound, UpToDate
<1>6. ASSUME NEW g \in Generations
      PROVE  Paid(g, x, state.trigger, restarts, faults')
  <2>1. Paid(g, tick[t], state.trigger, restarts, faults) /\ restarts[g] \in Nat
    BY <1>4 DEF Sound
  <2> QED BY <1>1, <1>2, <1>3, <1>4, <2>1 DEF Paid
<1>7. Sound(x, state'.trigger, restarts', faults')
  BY <1>3, <1>5, <1>6 DEF Sound
<1> QED BY <1>2, <1>3, <1>7, SoundAfter

\* Saving: the promotion on record is replaced by that of the tick.
LEMMA SaveIsSound ==
  ASSUME Deployments # {}, HPTypes, NEW t \in Ticks, Save(t), OthersAreOff(t),
         Sound(tick[t], state.trigger, restarts, faults)
  PROVE  RestartInv'
<1>1. PICK x \in Tick, pc \in {"triggered", "verified", "failed"} :
        /\ At(t, pc) /\ TickGoes(t, x)
        /\ state' \in {state, NewState(t, pc)}
        /\ NewState(t, pc).trigger =
             IF pc = "failed" THEN tick[t].state.trigger ELSE tick[t].serving
        /\ \/ NoFault /\ x.pc = "off" /\ state' = NewState(t, pc)
           \/ Fault /\ x.pc = "off"
           \/ /\ Fault /\ x.pc = "failed" /\ pc = "triggered"
              /\ x.serving = tick[t].serving /\ x.state = tick[t].state
  BY SaveGoes
<1>2. UNCHANGED <<serving, restarts>> /\ tick[t].pc = pc
  BY <1>1 DEF Save, At
<1>3. PICK new : new = NewState(t, pc).trigger
  OBVIOUS
<1>4. /\ serving \in Nat /\ x.serving \in Generations /\ Generations \subseteq Nat
      /\ restarts \in [Generations -> Nat] /\ faults' \in Nat
      /\ tick[t].serving \in Nat /\ tick[t].state.trigger \in Nat /\ state.trigger \in Nat
  BY <1>1, Numbers, FaultsAreBounded DEF Tick
<1>5. /\ tick[t].serving <= serving /\ tick[t].state.trigger <= serving
      /\ tick[t].serving # 0 /\ state.trigger <= tick[t].serving /\ state.trigger <= serving
  BY <1>1, <1>2 DEF Sound, UpToDate
<1>6. new <= serving /\ state'.trigger \in {state.trigger, new}
  BY <1>1, <1>3, <1>5
<1>7. CASE NoFault /\ x.pc = "off" /\ state' = NewState(t, pc)
  <2>1. UpToDate(x, new, restarts, faults)
    BY <1>7 DEF UpToDate
  <2>2. ASSUME NEW g \in Generations
        PROVE  Paid(g, x, new, restarts, faults)
    <3>1. Paid(g, tick[t], state.trigger, restarts, faults) /\ g \in Nat
      BY <1>4 DEF Sound
    <3>2. CASE pc = "triggered"
      <4>1. new = tick[t].serving
        BY <1>1, <1>3, <3>2
      <4>2. state.trigger = g => g = new \/ g # serving
        BY <1>4, <1>5, <4>1
      <4> QED BY <1>2, <1>7, <3>1, <3>2, <4>1, <4>2 DEF Paid
    <3>3. CASE pc = "verified"
      <4>1. new = state.trigger
        BY <1>1, <1>2, <1>3, <3>3 DEF Sound, UpToDate
      <4> QED BY <1>2, <1>7, <3>1, <3>3, <4>1 DEF Paid
    <3>4. CASE pc = "failed"
      <4>1. new = state.trigger \/ restarts[g] <= faults
        BY <1>1, <1>2, <1>3, <3>4 DEF Sound, UpToDate
      <4> QED BY <1>2, <1>7, <3>1, <3>4, <4>1 DEF Paid
    <3> QED BY <3>2, <3>3, <3>4
  <2>3. Sound(x, state'.trigger, restarts', faults')
    BY <1>2, <1>3, <1>6, <1>7, <2>1, <2>2 DEF Sound, NoFault
  <2> QED BY <1>1, <1>2, <2>3, SoundAfter
<1>8. CASE ~(NoFault /\ x.pc = "off" /\ state' = NewState(t, pc))
  <2>1. Fault /\ x.pc \in {"off", "failed"}
    BY <1>1, <1>8
  <2>2. \A g \in Generations : restarts[g] <= faults'
    BY <1>4, <2>1, FaultPays DEF Sound, Paid
  <2>3. x.pc # "off" =>
          /\ x.serving <= serving /\ x.state.trigger <= serving /\ x.serving # 0
          /\ state'.trigger <= x.serving
    <3> SUFFICES ASSUME x.pc # "off"
                 PROVE  /\ x.serving <= serving /\ x.state.trigger <= serving /\ x.serving # 0
                        /\ state'.trigger <= x.serving
      OBVIOUS
    <3>1. pc = "triggered" /\ x.serving = tick[t].serving /\ x.state = tick[t].state
      BY <1>1
    <3>2. new = x.serving
      BY <1>1, <1>3, <3>1
    <3> QED BY <1>4, <1>5, <1>6, <3>1, <3>2
  <2>4. Sound(x, state'.trigger, restarts, faults')
    <3>1. PICK trigger : trigger = state'.trigger
      OBVIOUS
    <3>2. trigger <= serving
      BY <1>5, <1>6, <3>1
    <3>3. Sound(x, trigger, restarts, faults')
      BY <1>4, <2>1, <2>2, <2>3, <3>1, <3>2, SlackIsSound
    <3> QED BY <3>1, <3>3
  <2>5. Sound(x, state'.trigger, restarts', faults')
    BY <1>2, <2>4
  <2> QED BY <1>1, <1>2, <2>5, SoundAfter
<1> QED BY <1>7, <1>8

\* Where no tick moves, CURRENT may advance, a container come and go, a backoff end.
LEMMA RestartsStay ==
  ASSUME HPTypes, RestartInv, UNCHANGED <<tick, restarts, overlap>>,
         state'.trigger = state.trigger, serving' \in Nat, serving' >= serving,
         faults' \in Nat, faults' >= faults
  PROVE  RestartInv'
<1> SUFFICES ASSUME ~overlap PROVE RestartInv'
  BY DEF RestartInv
<1>1. /\ serving \in Nat /\ Generations \subseteq Nat /\ faults \in Nat
      /\ restarts \in [Generations -> Nat] /\ state.trigger \in Nat
      /\ \A t \in Ticks : tick[t].serving \in Generations /\ tick[t].state.trigger \in Nat
  BY Numbers
<1>2. OneAtATime' /\ state'.trigger <= serving'
  BY <1>1 DEF RestartInv, OneAtATime, At
<1>3. AllSlack => AllSlack'
  BY <1>1 DEF AllSlack, Slack
<1>4. ASSUME NEW t \in Ticks
      PROVE  TickIsUpToDate(t)'
  <2>1. TickIsUpToDate(t)
    BY DEF RestartInv
  <2>2. At(t, "restart") => restarts'[tick[t].serving] <= faults'
    <3>1. restarts[tick[t].serving] \in Nat
      BY <1>1
    <3> QED BY <1>1, <2>1, <3>1 DEF TickIsUpToDate, Slack
  <2>3. tick'[t] = tick[t] /\ serving <= serving'
    OBVIOUS
  <2>4. tick[t].serving \in Nat /\ tick[t].state.trigger \in Nat
    BY <1>1
  <2>5. /\ tick'[t].pc # "off" =>
             /\ tick'[t].serving <= serving' /\ tick'[t].state.trigger <= serving'
             /\ tick'[t].serving = 0 => At(t, "load")
             /\ tick'[t].serving # 0 => state'.trigger <= tick'[t].serving
        /\ tick'[t].pc \in {"verify", "asked", "verified"} =>
             state'.trigger = tick'[t].serving /\ tick'[t].state.trigger = state'.trigger
    BY <1>1, <2>1, <2>3, <2>4 DEF TickIsUpToDate
  <2>6. At(t, "failed") => tick'[t].state.trigger = state'.trigger \/ AllSlack'
    BY <1>3, <2>1, <2>3 DEF TickIsUpToDate
  <2>7. At(t, "load") => At(t, "load")'
    BY DEF At
  <2>8. (At(t, "restart") <=> At(t, "restart")') /\ (At(t, "failed") <=> At(t, "failed")')
    BY DEF At
  <2> QED BY <2>2, <2>3, <2>5, <2>6, <2>7, <2>8 DEF TickIsUpToDate, Slack
<1>5. ASSUME NEW g \in Generations
      PROVE  RestartIsPaidFor(g)'
  <2>1. RestartIsPaidFor(g) /\ g \in Nat /\ restarts[g] \in Nat
    BY <1>1 DEF RestartInv
  <2>2. Recorded(g) => Recorded(g)'
    BY DEF Recorded, At
  <2>3. Past(g) /\ g # serving' => Past(g)'
    BY DEF Past, At
  <2>4. g > serving => Slack(g)
    BY <2>1 DEF RestartIsPaidFor
  <2>5. Slack(g) => Slack(g)'
    BY <1>1, <2>1 DEF Slack
  <2>6. Past(g) => Slack(g) \/ Past(g)'
    BY <1>1, <2>1, <2>3, <2>4 DEF Past
  <2> QED BY <1>1, <2>1, <2>2, <2>4, <2>5, <2>6 DEF RestartIsPaidFor
<1> QED BY <1>2, <1>4, <1>5 DEF RestartInv, Generations

\* A step of a tick, other ticks being at work or not.
LEMMA TickStepIsSound ==
  ASSUME Deployments # {}, HPTypes, HPTypes', RestartInv, NEW t \in Ticks, TickStep(t)
  PROVE  RestartInv'
<1>1. CASE overlap'
  BY <1>1 DEF RestartInv
<1>2. CASE ~overlap'
  <2>1. overlap \in BOOLEAN /\ (overlap => overlap')
    BY DEF HPTypes, TickStep, Begin, Load, Restart, AskHealth, Health, Save
  <2>2. ~overlap
    BY <1>2, <2>1
  <2>3. OthersAreOff(t)
    BY <1>2, <2>2, SteppingAlone
  <2>4. Sound(tick[t], state.trigger, restarts, faults)
    BY <2>2, <2>3, SoundBefore
  <2> QED
    BY <2>3, <2>4, BeginIsSound, LoadIsSound, RestartIsSound, HealthIsSound, SaveIsSound
       DEF TickStep
<1> QED BY <1>1, <1>2

\* Every step keeps it.
LEMMA RestartStep ==
  ASSUME Deployments # {}, HPTypes, HPTypes', RestartInv, [HPNext]_hpVars
  PROVE  RestartInv'
<1> USE Numbers, FaultsAreBounded
<1>1. CASE Publish
  BY <1>1, RestartsStay DEF Publish
<1>2. CASE BackoffEnds
  BY <1>2, BackoffTypes, RestartsStay DEF BackoffEnds
<1>3. ASSUME NEW d \in Deployments, Visit(d) \/ BootStep(d) \/ Die(d)
      PROVE  RestartInv'
  <2>1. UNCHANGED <<serving, state, tick, restarts, overlap>> /\ (Fault \/ NoFault)
    BY <1>3 DEF Visit, BootStep, ReadMetadata, StreamDatabase, Die, Fault, NoFault
  <2> QED BY <2>1, RestartsStay
<1>4. ASSUME NEW t \in Ticks, TickStep(t)
      PROVE  RestartInv'
  BY <1>4, TickStepIsSound
<1>5. CASE UNCHANGED hpVars
  BY <1>5, RestartsStay DEF hpVars
<1> QED BY <1>1, <1>2, <1>3, <1>4, <1>5 DEF HPNext

\* A generation restarts the container once: again only after a call or a
\* container failed, or when ticks overwrote each other's state (hosted-
\* promotion.ts, runTick), however often CURRENT advances while a tick or a
\* container is at work.
THEOREM RestartsAreFew ==
  ASSUME Deployments # {}
  PROVE  HPSpec => []RestartedOnce
<1>1. HPInit => HPTypes /\ RestartInv
  BY InitTypes, InitRestarts
<1>2. HPTypes /\ RestartInv /\ [HPNext]_hpVars => (HPTypes /\ RestartInv)'
  <2> SUFFICES ASSUME HPTypes, RestartInv, [HPNext]_hpVars PROVE (HPTypes /\ RestartInv)'
    OBVIOUS
  <2>1. CASE Publish
    <3>1. serving' \in Generations
      BY <2>1, HPAssumption DEF HPTypes, Publish, Generations
    <3> QED BY <2>1, <3>1, OthersKeepTypes, RestartStep DEF Publish, HPTypes
  <2>2. CASE HPNext /\ ~Publish
    BY <2>2, PromotionTypesStep, RestartStep DEF HPNext
  <2>3. CASE UNCHANGED hpVars
    BY <2>3, OthersKeepTypes, RestartStep DEF hpVars, HPTypes
  <2> QED BY <2>1, <2>2, <2>3
<1>3. RestartInv => RestartedOnce
  BY DEF RestartInv, RestartIsPaidFor, RestartedOnce
<1> QED BY <1>1, <1>2, <1>3, PTL DEF HPSpec

===============================================================================
