------------------------- MODULE ServingRefresh_proofs -------------------------
(***************************************************************************)
(* Whatever builds overlap and whatever crons start them, Serving never    *)
(* goes back to older Gold, and the terminal shows no older Serving than   *)
(* its promotion calls hosted.  A build remembers the CURRENT it found     *)
(* before it read any Gold; all that CURRENT and its predecessors hold was *)
(* published by then, and Gold only advances; so what the build has read   *)
(* is no older than any of them, and it may publish over no other.         *)
(*                                                                         *)
(* One cron builds no fingerprint twice while nothing fails.  The          *)
(* fingerprints it sees only climb, since Gold and Serving only advance,   *)
(* and between two ticks its ledger is the last one it built; so a         *)
(* fingerprint that differs from the ledger is above all that were built   *)
(* (BuildInv).  And one cron starts no more than MaxRuns builds, so that   *)
(* there are no more generations than that (BoundedInv).                   *)
(***************************************************************************)
EXTENDS ServingRefresh, HostedPromotion_proofs, FiniteSetTheorems, SequenceTheorems

Fingerprint == Nat \X Nat
Family == {"w", "f"}

Invocations ==
  [pc : {"off", "read", "start", "record"}, gold : Nat, serving : Nat, ledger : Fingerprint,
   got : SUBSET {"gold", "serving", "ledger"}, live : Fingerprint, nightly : BOOLEAN]

Builds == [pc : RunStates, parent : Nat, w : Nat, f : Nat, blind : SUBSET Family,
           seen : Fingerprint, nightly : BOOLEAN]

ChainTypes ==
  /\ serving \in Nat /\ gold \in [w : Nat, f : Nat]
  /\ lineage \in Seq(Fingerprint) /\ Len(lineage) = serving
  /\ blind \in Seq(SUBSET Family) /\ Len(blind) = serving
  /\ ledger \in Fingerprint
  /\ cron \in [Crons -> Invocations] /\ \A c \in Crons : cron[c].serving <= serving
  /\ runs \in Seq(Builds)

\* Serving holds nothing that Gold does not.
ServingIsBehind ==
  \A i \in 1..serving : lineage[i][1] <= gold.w /\ lineage[i][2] <= gold.f

\* What build b has read is no older than its parent and those before it.
NoOlderThanParent(b) ==
  /\ b.parent <= serving /\ b.w <= gold.w /\ b.f <= gold.f
  /\ \A i \in 1..b.parent :
       /\ b.pc \in {"lineage", "publish"} => lineage[i][2] <= b.f \/ "f" \in b.blind
       /\ b.pc = "publish" => lineage[i][1] <= b.w \/ "w" \in b.blind

ServingInv ==
  /\ ChainTypes /\ ServingIsBehind
  /\ \A r \in DOMAIN runs : NoOlderThanParent(runs[r])
  /\ ServingNeverRegresses

\* The initial states satisfy it.
LEMMA InitServing == HPInit /\ SRInit => ServingInv
<1> SUFFICES ASSUME HPInit, SRInit PROVE ServingInv
  OBVIOUS
<1>1. Resting \in Invocations /\ Resting.serving = 0 /\ Nothing \in Fingerprint
  BY DEF Resting, Invocations, Nothing, Fingerprint
<1>2. serving = 0 /\ lineage = << >> /\ blind = << >> /\ runs = << >>
  BY DEF HPInit, SRInit
<1>3. gold \in [w : Nat, f : Nat] /\ ledger \in Fingerprint
  BY <1>1 DEF SRInit
<1>4. ChainTypes
  BY <1>1, <1>2, <1>3 DEF SRInit, ChainTypes
<1> QED BY <1>2, <1>4 DEF ServingInv, ServingIsBehind, ServingNeverRegresses

\* Gold advances, crons read and record: no build is touched.
LEMMA BuildsUntouched ==
  ASSUME ServingInv, ServingStays, UNCHANGED runs,
         gold' \in [w : Nat, f : Nat], gold'.w >= gold.w, gold'.f >= gold.f,
         ledger' \in Fingerprint,
         cron' \in [Crons -> Invocations], \A c \in Crons : cron'[c].serving <= serving
  PROVE  ServingInv'
<1> USE DEF ServingInv, ChainTypes, ServingStays
<1>1. ChainTypes'
  OBVIOUS
<1>2. \A i \in 1..serving : lineage[i] \in Fingerprint
  OBVIOUS
<1>3. ServingIsBehind'
  BY SMTT(30), <1>2 DEF ServingIsBehind, Fingerprint
<1>4. \A r \in DOMAIN runs' : NoOlderThanParent(runs[r])'
  <2> TAKE r \in DOMAIN runs'
  <2>1. runs[r] \in Builds /\ NoOlderThanParent(runs[r])
    OBVIOUS
  <2> QED BY SMTT(30), <2>1 DEF NoOlderThanParent, Builds
<1>5. ServingNeverRegresses'
  BY DEF ServingNeverRegresses
<1> QED BY <1>1, <1>3, <1>4, <1>5

\* One build goes on.
LEMMA BuildGoesOn ==
  ASSUME ServingInv, ServingStays, UNCHANGED <<gold, ledger, cron>>,
         NEW r \in DOMAIN runs, NEW b \in Builds, runs' = [runs EXCEPT ![r] = b],
         NoOlderThanParent(b)
  PROVE  ServingInv'
<1> USE DEF ServingInv, ChainTypes, ServingStays
<1>1. runs' \in Seq(Builds) /\ DOMAIN runs' = DOMAIN runs
  OBVIOUS
<1>2. \A q \in DOMAIN runs' : NoOlderThanParent(runs[q])'
  BY <1>1 DEF NoOlderThanParent
<1> QED BY <1>1, <1>2 DEF ServingIsBehind, ServingNeverRegresses

\* A build is started, or fails to start; it has read nothing.
LEMMA BuildStarts ==
  ASSUME ServingInv, ServingStays, UNCHANGED <<gold, ledger>>,
         cron' \in [Crons -> Invocations], \A c \in Crons : cron'[c].serving <= serving,
         NEW b \in Builds, b.parent = 0, b.w = 0, b.f = 0,
         runs' \in {runs, Append(runs, b)}
  PROVE  ServingInv'
<1> USE DEF ServingInv, ChainTypes, ServingStays
<1>1. runs' \in Seq(Builds)
  <2>1. Append(runs, b) \in Seq(Builds)
    BY AppendProperties
  <2> QED BY <2>1
<1>2. NoOlderThanParent(b)
  BY DEF NoOlderThanParent
<1>3. \A q \in DOMAIN runs' : NoOlderThanParent(runs'[q])
  <2>1. CASE runs' = runs
    BY <2>1
  <2>2. CASE runs' = Append(runs, b)
    <3>1. \A q \in DOMAIN runs' : runs'[q] = b \/ (q \in DOMAIN runs /\ runs'[q] = runs[q])
      BY <2>2, AppendProperties
    <3> QED BY <1>2, <3>1
  <2> QED BY <2>1, <2>2
<1>4. \A q \in DOMAIN runs' : NoOlderThanParent(runs[q])'
  BY <1>3 DEF NoOlderThanParent
<1> QED BY <1>1, <1>4 DEF ServingIsBehind, ServingNeverRegresses

\* A build that found CURRENT to be its parent publishes.
LEMMA BuildPublishes ==
  ASSUME ServingInv, UNCHANGED <<gold, ledger, cron>>,
         NEW r \in DOMAIN runs, RunAt(r, "publish"), ParentIsCurrent(r), MoveCurrent(r),
         NEW pc \in {"ok", "failed"},
         runs' = [runs EXCEPT ![r] = Build(pc, runs[r].seen, runs[r].nightly)]
  PROVE  ServingInv'
<1> USE DEF ServingInv, ChainTypes
<1> DEFINE b == runs[r]
           held == <<b.w, b.f>>
           done == Build(pc, b.seen, b.nightly)
<1>1. b \in Builds /\ NoOlderThanParent(b) /\ b.pc = "publish" /\ b.parent = serving
  BY DEF RunAt, ParentIsCurrent
<1>2. held \in Fingerprint /\ held[1] = b.w /\ held[2] = b.f
  BY <1>1 DEF Builds, Fingerprint
<1>3. /\ serving' = serving + 1 /\ serving' \in Nat
      /\ lineage' = Append(lineage, held) /\ blind' = Append(blind, b.blind)
  BY DEF MoveCurrent
<1>4. b.blind \in SUBSET Family
  BY <1>1 DEF Builds
<1> HIDE DEF held
<1>5. /\ lineage' \in Seq(Fingerprint) /\ Len(lineage') = serving'
      /\ \A i \in 1..serving : lineage'[i] = lineage[i]
      /\ lineage'[serving + 1] = held
  BY <1>2, <1>3, AppendProperties
<1>6. /\ blind' \in Seq(SUBSET Family) /\ Len(blind') = serving'
      /\ \A i \in 1..serving : blind'[i] = blind[i]
      /\ blind'[serving + 1] = b.blind
  BY <1>3, <1>4, AppendProperties
<1>7. runs' = [runs EXCEPT ![r] = done] /\ done \in Builds
  BY <1>1 DEF Build, Builds, RunStates
<1>8. runs' \in Seq(Builds) /\ DOMAIN runs' = DOMAIN runs
  BY <1>7
<1>9. ChainTypes'
  BY <1>3, <1>5, <1>6, <1>8 DEF Invocations
<1>10. \A i \in 1..serving : lineage[i] \in Fingerprint
  OBVIOUS
<1>11. ServingIsBehind'
  BY <1>1, <1>2, <1>3, <1>5 DEF ServingIsBehind, NoOlderThanParent
<1>12. \A q \in DOMAIN runs' : NoOlderThanParent(runs[q])'
  <2> TAKE q \in DOMAIN runs'
  <2>1. runs[q] \in Builds /\ NoOlderThanParent(runs[q])
    BY <1>8
  <2>2. \/ runs'[q] = runs[q]
        \/ runs'[q].parent = 0 /\ runs'[q].w = 0 /\ runs'[q].f = 0
    <3>1. done.parent = 0 /\ done.w = 0 /\ done.f = 0
      BY DEF Build
    <3> HIDE DEF done
    <3>2. runs'[q] = IF q = r THEN done ELSE runs[q]
      BY <1>7
    <3> QED BY <3>1, <3>2
  <2>3. runs[q].parent \in Nat /\ runs[q].parent <= serving
    BY <2>1 DEF NoOlderThanParent, Builds
  <2>4. \A i \in 1..runs[q].parent : lineage'[i] = lineage[i]
    BY <1>5, <2>3
  <2>5. runs[q].parent <= serving'
    BY <1>3, <2>3
  <2>6. CASE runs'[q] = runs[q]
    BY <2>1, <2>4, <2>5, <2>6 DEF NoOlderThanParent
  <2>7. CASE runs'[q].parent = 0 /\ runs'[q].w = 0 /\ runs'[q].f = 0
    BY <1>3, <2>7 DEF NoOlderThanParent
  <2> QED BY <2>2, <2>6, <2>7
<1>13. ServingNeverRegresses'
  <2>1. DOMAIN lineage' = 1..(serving + 1) /\ DOMAIN lineage = 1..serving
    BY <1>3, <1>5
  <2> SUFFICES ASSUME NEW i \in 1..(serving + 1), NEW j \in 1..(serving + 1), i < j
               PROVE  /\ lineage'[i][1] <= lineage'[j][1] \/ "w" \in blind'[j]
                      /\ lineage'[i][2] <= lineage'[j][2] \/ "f" \in blind'[j]
    BY <2>1 DEF ServingNeverRegresses
  <2>2. i \in 1..serving /\ lineage'[i] = lineage[i]
    BY <1>5
  <2>3. CASE j \in 1..serving
    BY <1>5, <1>6, <2>1, <2>2, <2>3 DEF ServingNeverRegresses
  <2>4. CASE j = serving + 1
    <3>1. /\ lineage[i][1] <= b.w \/ "w" \in b.blind
          /\ lineage[i][2] <= b.f \/ "f" \in b.blind
      BY <1>1, <2>2 DEF NoOlderThanParent
    <3> QED BY <1>2, <1>5, <1>6, <2>2, <2>4, <3>1
  <2> QED BY <2>3, <2>4
<1> QED BY <1>9, <1>11, <1>12, <1>13

\* A cron begins, reads, decides or records; a build that it starts is new.
LEMMA CronStepInv ==
  ASSUME ServingInv, NEW c \in Crons, CronStep(c)
  PROVE  ServingInv'
<1> USE DEF ServingInv, ChainTypes
<1>1. cron[c] \in Invocations /\ cron[c].serving <= serving /\ ServingStays
  BY DEF CronStep, CronBegins, Reads, ReadThrows, Decide, StartBuild, Record
<1>2. /\ Resting \in Invocations /\ Resting.serving = 0
      /\ CronOff(c) => cron' = [cron EXCEPT ![c] = Resting]
  BY DEF CronOff, Resting, Invocations, Nothing, Fingerprint
<1>3. ASSUME NEW new \in Invocations, cron' = [cron EXCEPT ![c] = new], new.serving <= serving
      PROVE  cron' \in [Crons -> Invocations] /\ \A d \in Crons : cron'[d].serving <= serving
  BY <1>3
<1>4. CASE CronBegins(c)
  <2> DEFINE new == [cron[c] EXCEPT !.pc = "read"]
  <2>1. cron' = [cron EXCEPT ![c] = new] /\ UNCHANGED <<runs, gold, ledger>>
    BY <1>4 DEF CronBegins
  <2>2. new \in Invocations /\ new.serving = cron[c].serving
    BY <1>1 DEF Invocations
  <2> HIDE DEF new
  <2> QED BY <1>1, <1>3, <2>1, <2>2, BuildsUntouched
<1>5. CASE Reads(c)
  <2>1. PICK key \in {"gold", "serving", "ledger"} :
          LET had == [cron[c] EXCEPT !.got = @ \cup {key}] IN
          \/ cron' = [cron EXCEPT ![c] =
                 CASE key = "gold" -> [had EXCEPT !.gold = gold.w]
                   [] key = "serving" -> [had EXCEPT !.serving = serving]
                   [] key = "ledger" -> [had EXCEPT !.ledger = ledger]]
          \/ cron' = [cron EXCEPT ![c] = had]
    BY <1>5 DEF Reads
  <2> DEFINE had == [cron[c] EXCEPT !.got = @ \cup {key}]
  <2>2. had \in Invocations /\ had.serving = cron[c].serving
    BY <1>1 DEF Invocations
  <2>3. PICK new \in {had, [had EXCEPT !.gold = gold.w], [had EXCEPT !.serving = serving],
                      [had EXCEPT !.ledger = ledger]} : cron' = [cron EXCEPT ![c] = new]
    BY <2>1
  <2> HIDE DEF had
  <2>4. new \in Invocations /\ new.serving \in {cron[c].serving, serving}
    BY ZenonT(40), <2>2, <2>3 DEF Invocations
  <2>5. UNCHANGED <<runs, gold, ledger>>
    BY <1>5 DEF Reads
  <2> QED BY <1>1, <1>3, <2>3, <2>4, <2>5, BuildsUntouched
<1>6. CASE ReadThrows(c)
  BY <1>1, <1>2, <1>3, <1>6, BuildsUntouched DEF ReadThrows
<1>7. CASE Decide(c)
  <2> DEFINE claimed == FingerprintOf(cron[c].serving)
             live == <<cron[c].gold, claimed[2]>>
  <2>1. PICK nightly \in BOOLEAN :
          \/ cron' = [cron EXCEPT ![c] = [Resting EXCEPT !.pc = "start", !.live = live,
                                                          !.nightly = nightly]]
          \/ CronOff(c)
    BY <1>7 DEF Decide, Live
  <2>2. claimed \in Fingerprint
    <3>1. cron[c].serving \in 0..serving
      BY <1>1 DEF Invocations
    <3>2. \A i \in 1..serving : lineage[i] \in Fingerprint
      OBVIOUS
    <3>3. << 0, 0 >> \in Fingerprint
      BY DEF Fingerprint
    <3> QED BY <3>1, <3>2, <3>3 DEF FingerprintOf, Nothing
  <2>3. live \in Fingerprint
    BY <1>1, <2>2 DEF Fingerprint, Invocations
  <2> HIDE DEF live
  <2> DEFINE new == [Resting EXCEPT !.pc = "start", !.live = live, !.nightly = nightly]
  <2>4. new \in Invocations /\ new.serving = 0
    BY <1>2, <2>3 DEF Invocations
  <2>5. cron' = [cron EXCEPT ![c] = new] \/ cron' = [cron EXCEPT ![c] = Resting]
    BY <1>2, <2>1
  <2>6. UNCHANGED <<runs, gold, ledger>>
    BY <1>7 DEF Decide
  <2> HIDE DEF new
  <2>7. new.serving <= serving
    BY <2>4
  <2> QED BY <1>1, <1>2, <1>3, <2>4, <2>5, <2>6, <2>7, BuildsUntouched
<1>8. CASE StartBuild(c)
  <2>1. PICK pc \in {"begin", "failed"} :
          /\ runs' \in {runs, NewRun(c, pc)}
          /\ cron' = [cron EXCEPT ![c].pc = "record"] \/ CronOff(c)
    BY <1>8 DEF StartBuild, CronOff
  <2> DEFINE b == [pc |-> pc, parent |-> 0, w |-> 0, f |-> 0, blind |-> {},
                   seen |-> cron[c].live, nightly |-> cron[c].nightly]
  <2>2. NewRun(c, pc) = Append(runs, b)
    BY DEF NewRun, Build
  <2>3. b \in Builds /\ b.parent = 0 /\ b.w = 0 /\ b.f = 0
    BY <1>1 DEF Builds, RunStates, Invocations
  <2> HIDE DEF b
  <2> DEFINE new == [cron[c] EXCEPT !.pc = "record"]
  <2>4. new \in Invocations /\ new.serving = cron[c].serving
    BY <1>1 DEF Invocations
  <2>5. cron' = [cron EXCEPT ![c] = new] \/ cron' = [cron EXCEPT ![c] = Resting]
    BY <1>2, <2>1
  <2>6. UNCHANGED <<gold, ledger>>
    BY <1>8 DEF StartBuild
  <2> HIDE DEF new
  <2>7. cron' \in [Crons -> Invocations] /\ \A d \in Crons : cron'[d].serving <= serving
    BY <1>1, <1>2, <1>3, <2>4, <2>5
  <2> QED BY <1>1, <2>1, <2>2, <2>3, <2>6, <2>7, BuildStarts
<1>9. CASE Record(c)
  <2>1. ledger' \in Fingerprint
    BY <1>1, <1>9 DEF Record, Invocations
  <2>2. cron' = [cron EXCEPT ![c] = Resting] /\ UNCHANGED <<runs, gold>>
    BY <1>2, <1>9 DEF Record
  <2> QED BY <1>1, <1>2, <1>3, <2>1, <2>2, BuildsUntouched
<1> QED BY <1>4, <1>5, <1>6, <1>7, <1>8, <1>9 DEF CronStep

\* The generations up to a parent are not ahead of Gold either.
LEMMA ParentIsBehind ==
  ASSUME ServingIsBehind, serving \in Nat, NEW p \in Nat, p <= serving
  PROVE  \A i \in 1..p : lineage[i][1] <= gold.w /\ lineage[i][2] <= gold.f
<1>1. 1..p \subseteq 1..serving
  OBVIOUS
<1> QED BY <1>1 DEF ServingIsBehind

\* A build reads, publishes or fails.
LEMMA BuildStepInv ==
  ASSUME ServingInv, NEW r, RunStep(r) \/ BuildFails(r)
  PROVE  ServingInv'
<1> USE DEF ServingInv, ChainTypes
<1>1. r \in DOMAIN runs /\ UNCHANGED <<gold, ledger, cron>>
  BY DEF RunStep, FindParent, FoldGold, CollectLineage, PublishCurrent, BuildFails, RunAt
<1>2. runs[r] \in Builds /\ NoOlderThanParent(runs[r])
  BY <1>1
<1>3. gold.w \in Nat /\ gold.f \in Nat
  OBVIOUS
<1>4. \A i \in 1..runs[r].parent :
        lineage[i][1] <= gold.w /\ lineage[i][2] <= gold.f
  <2>1. runs[r].parent \in Nat /\ runs[r].parent <= serving /\ serving \in Nat
    BY <1>2 DEF NoOlderThanParent, Builds
  <2> QED BY <2>1, ParentIsBehind
<1>5. CASE FindParent(r)
  <2> DEFINE b == [runs[r] EXCEPT !.pc = "fold", !.parent = serving]
  <2>1. runs' = [runs EXCEPT ![r] = b] /\ ServingStays
    BY <1>5 DEF FindParent, Advance
  <2>2. b \in Builds /\ b.parent = serving /\ b.w = runs[r].w /\ b.f = runs[r].f /\ b.pc = "fold"
    BY <1>2 DEF Builds, RunStates
  <2> HIDE DEF b
  <2>3. NoOlderThanParent(b)
    BY <1>2, <2>2 DEF NoOlderThanParent
  <2> QED BY <1>1, <2>1, <2>2, <2>3, BuildGoesOn
<1>6. CASE FoldGold(r)
  <2>1. PICK b \in {[runs[r] EXCEPT !.pc = "lineage", !.f = gold.f],
                    [runs[r] EXCEPT !.pc = "lineage", !.blind = @ \cup {"f"}]} :
          runs' = [runs EXCEPT ![r] = b] /\ ServingStays
    BY <1>6 DEF FoldGold, Advance
  <2>2. /\ b \in Builds /\ b.parent = runs[r].parent /\ b.w = runs[r].w /\ b.pc = "lineage"
        /\ b.f = gold.f \/ (b.f = runs[r].f /\ "f" \in b.blind)
    <3>1. CASE b = [runs[r] EXCEPT !.pc = "lineage", !.f = gold.f]
      BY <1>2, <1>3, <3>1 DEF Builds, RunStates
    <3>2. CASE b = [runs[r] EXCEPT !.pc = "lineage", !.blind = @ \cup {"f"}]
      <4>1. runs[r].blind \cup {"f"} \in SUBSET Family
        BY <1>2 DEF Builds, Family
      <4> QED BY <1>2, <3>2, <4>1 DEF Builds, RunStates
    <3> QED BY <2>1, <3>1, <3>2
  <2>3. NoOlderThanParent(b)
    BY <1>2, <1>3, <1>4, <2>2 DEF NoOlderThanParent
  <2> QED BY <1>1, <2>1, <2>2, <2>3, BuildGoesOn
<1>7. CASE CollectLineage(r)
  <2>1. PICK b \in {[runs[r] EXCEPT !.pc = "publish", !.w = gold.w],
                    [runs[r] EXCEPT !.pc = "publish", !.blind = @ \cup {"w"}]} :
          runs' = [runs EXCEPT ![r] = b] /\ ServingStays
    BY <1>7 DEF CollectLineage, Advance
  <2>2. /\ b \in Builds /\ b.parent = runs[r].parent /\ b.f = runs[r].f /\ b.pc = "publish"
        /\ runs[r].blind \subseteq b.blind
        /\ b.w = gold.w \/ (b.w = runs[r].w /\ "w" \in b.blind)
    <3>1. CASE b = [runs[r] EXCEPT !.pc = "publish", !.w = gold.w]
      BY <1>2, <1>3, <3>1 DEF Builds, RunStates
    <3>2. CASE b = [runs[r] EXCEPT !.pc = "publish", !.blind = @ \cup {"w"}]
      <4>1. runs[r].blind \cup {"w"} \in SUBSET Family
        BY <1>2 DEF Builds, Family
      <4> QED BY <1>2, <3>2, <4>1 DEF Builds, RunStates
    <3> QED BY <2>1, <3>1, <3>2
  <2>3. runs[r].pc = "lineage"
    BY <1>7 DEF CollectLineage, RunAt
  <2>4. NoOlderThanParent(b)
    BY <1>2, <1>3, <1>4, <2>2, <2>3 DEF NoOlderThanParent
  <2> QED BY <1>1, <2>1, <2>2, <2>4, BuildGoesOn
<1>8. ASSUME ServingStays, NEW pc \in {"failed"}, runs' = [runs EXCEPT ![r] = Build(pc, runs[r].seen, runs[r].nightly)]
      PROVE  ServingInv'
  <2> DEFINE b == Build(pc, runs[r].seen, runs[r].nightly)
  <2>1. runs' = [runs EXCEPT ![r] = b]
    BY <1>8
  <2>2. b \in Builds /\ b.parent = 0 /\ b.w = 0 /\ b.f = 0 /\ b.pc = "failed"
    BY <1>2 DEF Build, Builds, RunStates
  <2> HIDE DEF b
  <2>3. NoOlderThanParent(b)
    BY <1>2, <2>2 DEF NoOlderThanParent
  <2> QED BY <1>1, <1>8, <2>1, <2>2, <2>3, BuildGoesOn
<1>9. CASE PublishCurrent(r)
  <2>1. RunAt(r, "publish")
    BY <1>9 DEF PublishCurrent
  <2>2. CASE ParentIsCurrent(r)
    <3>1. PICK pc \in {"ok", "failed"} : 
                 MoveCurrent(r) /\ runs' = [runs EXCEPT ![r] = Build(pc, runs[r].seen, runs[r].nightly)]
      BY <1>9, <2>2 DEF PublishCurrent, Ends, Advance
    <3> QED BY <1>1, <2>1, <2>2, <3>1, BuildPublishes
  <2>3. CASE ~ParentIsCurrent(r)
    BY <1>8, <1>9, <2>3 DEF PublishCurrent, Ends, Advance
  <2> QED BY <2>2, <2>3
<1>10. CASE BuildFails(r)
  BY <1>8, <1>10 DEF BuildFails, Ends, Advance
<1> QED BY <1>5, <1>6, <1>7, <1>9, <1>10 DEF RunStep

\* Every step of the chain preserves it.
LEMMA ChainStepInv ==
  ASSUME ServingInv, [PromotionNext \/ RefreshNext]_chainVars
  PROVE  ServingInv'
<1> USE DEF ServingInv, ChainTypes
<1>1. CASE (PromotionNext \/ UNCHANGED chainVars) /\ UNCHANGED serving
  BY <1>1, BuildsUntouched DEF PromotionNext, chainVars, srVars, hpVars, ServingStays
<1>2. PromotionNext => UNCHANGED serving
  BY DEF PromotionNext, BackoffEnds, Visit, BootStep, ReadMetadata, StreamDatabase, Die,
         TickStep, Begin, Load, Restart, AskHealth, Health, Save
<1>3. CASE GoldAdvances
  <2>1. gold' \in [w : Nat, f : Nat] /\ gold'.w >= gold.w /\ gold'.f >= gold.f
    BY <1>3 DEF GoldAdvances
  <2> QED BY <1>3, <2>1, BuildsUntouched DEF GoldAdvances
<1>5. CASE RefreshNext
  BY <1>3, <1>5, CronStepInv, BuildStepInv DEF RefreshNext
<1>6. UNCHANGED chainVars => UNCHANGED serving
  BY DEF chainVars, hpVars
<1> QED BY <1>1, <1>2, <1>5, <1>6

\* A generation of Serving holds no older Gold than any before it, but for a
\* family its build failed to read, for any number of crons, builds and faults
\* (watermark-controller.ts, run_terminal_serving_build).
THEOREM ServingIsMonotone == ChainSpec => []ServingNeverRegresses
<1>1. HPInit /\ SRInit => ServingInv
  BY InitServing
<1>2. ServingInv /\ [PromotionNext \/ RefreshNext]_chainVars => ServingInv'
  BY ChainStepInv
<1>3. ServingInv => ServingNeverRegresses
  BY DEF ServingInv
<1> QED BY <1>1, <1>2, <1>3, PTL DEF ChainSpec

\* In the chain a container that is alone never shows an older generation than
\* its promotion state calls hosted, although it is builds that publish and two
\* of them may be at work (hosted-promotion.ts, batch_jobs.py).
THEOREM ChainIsHosted == Alone => (ChainSpec => []HostedIsServed)
<1> SUFFICES ASSUME Alone PROVE ChainSpec => []HostedIsServed
  OBVIOUS
<1>1. HPInit => PromotionInv
  BY InitPromotion
<1>2. PromotionInv /\ [PromotionNext \/ RefreshNext]_chainVars => PromotionInv'
  <2> SUFFICES ASSUME PromotionInv, [PromotionNext \/ RefreshNext]_chainVars
               PROVE  PromotionInv'
    OBVIOUS
  <2>1. CASE PromotionNext
    BY <2>1, PromotionStep DEF PromotionNext
  <2>2. CASE RefreshNext \/ UNCHANGED chainVars
    <3>1. serving' \in {serving, serving + 1} /\ PromotionStays
      BY <2>2 DEF RefreshNext, GoldAdvances, CronStep, CronBegins, Reads, ReadThrows,
         Decide, StartBuild, Record, RunStep, FindParent, FoldGold, CollectLineage,
         PublishCurrent, BuildFails, MoveCurrent, ServingStays, chainVars, hpVars, PromotionStays
    <3> QED BY <3>1, CurrentMovesForward DEF PromotionStays, PromotionInv, PromotionTypes
  <2> QED BY <2>1, <2>2
<1>3. PromotionInv => HostedIsServed
  BY DEF PromotionInv, ReportsWhatItOpened, Served, HostedIsServed
<1> QED BY <1>1, <1>2, <1>3, PTL DEF ChainSpec
-----------------------------------------------------------------------------
(* The same fingerprint is not built twice. *)

\* One cron: its ticks do not overlap.
SoleCron == \E c \in Crons : Crons = {c}

\* Fingerprint a is no newer than b in either part.
AtMost(a, b) == a[1] <= b[1] /\ a[2] <= b[2]

\* The fingerprint a cron would see if it read everything now.
Now == <<gold.w, FingerprintOf(serving)[2]>>

\* The fingerprint of the last build started.
LastSeen == IF runs = << >> THEN Nothing ELSE runs[Len(runs)].seen

\* No build failed to read a family.
NothingMissed ==
  /\ \A g \in 1..serving : blind[g] = {}
  /\ \A r \in DOMAIN runs : runs[r].blind = {}

\* Fingerprints are built in their order, and only the nightly build repeats one.
SeenClimbs ==
  /\ \A r \in DOMAIN runs : runs[r].seen # Nothing /\ AtMost(runs[r].seen, Now)
  /\ \A i, j \in DOMAIN runs : i < j =>
       /\ AtMost(runs[i].seen, runs[j].seen)
       /\ ~runs[j].nightly => runs[i].seen # runs[j].seen

\* What the cron has read is no older than what was built last; the ledger names
\* that until the cron has started another build.
CronIsUpToDate(c) ==
  /\ cron[c].gold <= gold.w
  /\ cron[c].pc \in {"off", "read"} => ledger = LastSeen
  /\ cron[c].pc = "off" => cron[c].got = {}
  /\ cron[c].pc = "read" =>
       /\ "ledger" \in cron[c].got => cron[c].ledger = ledger
       /\ \A r \in DOMAIN runs :
            /\ "gold" \in cron[c].got => runs[r].seen[1] <= cron[c].gold
            /\ "serving" \in cron[c].got => runs[r].seen[2] <= FingerprintOf(cron[c].serving)[2]
  /\ cron[c].pc = "start" =>
       /\ cron[c].live # Nothing /\ AtMost(cron[c].live, Now)
       /\ \A r \in DOMAIN runs :
            /\ AtMost(runs[r].seen, cron[c].live)
            /\ ~cron[c].nightly => runs[r].seen # cron[c].live
  /\ cron[c].pc = "record" => LastSeen = cron[c].live

\* While nothing has failed, fingerprints climb.
OnceEach == NothingMissed /\ SeenClimbs /\ \A c \in Crons : CronIsUpToDate(c)

\* The invariant of one cron.
BuildInv == faults \in Nat /\ (faults = 0 => OnceEach)

\* The invariant holds at the beginning.
LEMMA InitBuilds == HPInit /\ SRInit => BuildInv
<1> SUFFICES ASSUME HPInit, SRInit PROVE BuildInv
  OBVIOUS
<1>1. serving = 0 /\ faults = 0 /\ runs = << >> /\ ledger = Nothing /\ gold.w = 0
  BY DEF HPInit, SRInit
<1>2. \A c \in Crons : cron[c].pc = "off" /\ cron[c].gold = 0 /\ cron[c].got = {}
  BY DEF SRInit, Resting
<1>3. DOMAIN runs = {}
  BY <1>1
<1>4. NothingMissed /\ SeenClimbs
  BY <1>1, <1>3 DEF NothingMissed, SeenClimbs
<1>5. \A c \in Crons : CronIsUpToDate(c)
  BY <1>1, <1>2 DEF CronIsUpToDate, LastSeen
<1> QED BY <1>1, <1>4, <1>5 DEF BuildInv, OnceEach

\* Where every build read all it wanted, the last generation is the newest.
LEMMA LastIsNewest ==
  ASSUME NEW n \in Nat, NEW lin \in Seq(Fingerprint), Len(lin) = n,
         NEW missed, \A g \in 1..n : missed[g] = {},
         \A i, j \in DOMAIN lin : i < j => lin[i][2] <= lin[j][2] \/ "f" \in missed[j],
         NEW g \in 1..n
  PROVE  lin[g][2] <= lin[n][2]
<1>1. DOMAIN lin = 1..n /\ n \in 1..n
  OBVIOUS
<1>2. lin[g] \in Fingerprint
  BY <1>1
<1>3. CASE g = n
  BY <1>2, <1>3 DEF Fingerprint
<1>4. CASE g # n
  BY <1>1, <1>4
<1> QED BY <1>3, <1>4

\* What would be seen now is at least what any generation was built from.
LEMMA NowIsNewest ==
  ASSUME ServingInv, NothingMissed, NEW g \in 0..serving
  PROVE  /\ FingerprintOf(g) \in Fingerprint /\ FingerprintOf(serving) \in Fingerprint
         /\ FingerprintOf(g)[2] <= FingerprintOf(serving)[2]
<1>1. serving \in Nat /\ lineage \in Seq(Fingerprint) /\ Len(lineage) = serving
  BY DEF ServingInv, ChainTypes
<1>2. \A i \in 1..serving : lineage[i] \in Fingerprint
  BY <1>1
<1>3. Nothing \in Fingerprint /\ Nothing[2] = 0
  BY DEF Nothing, Fingerprint
<1>4. FingerprintOf(g) \in Fingerprint /\ FingerprintOf(serving) \in Fingerprint
  BY <1>1, <1>2, <1>3 DEF FingerprintOf
<1>5. CASE g = 0
  BY <1>3, <1>4, <1>5 DEF FingerprintOf, Fingerprint
<1>6. CASE g # 0
  <2>1. g \in 1..serving /\ serving # 0
    BY <1>1, <1>6
  <2>2. \A i, j \in DOMAIN lineage : i < j => lineage[i][2] <= lineage[j][2] \/ "f" \in blind[j]
    BY DEF ServingInv, ServingNeverRegresses
  <2>3. lineage[g][2] <= lineage[serving][2]
    BY <1>1, <2>1, <2>2, LastIsNewest DEF NothingMissed
  <2> QED BY <1>4, <1>6, <2>1, <2>3 DEF FingerprintOf
<1> QED BY <1>4, <1>5, <1>6

\* Gold, Serving and the builds go on; what the cron compares stays in order.
LEMMA BuildsGoOnClimbing ==
  ASSUME ServingInv, OnceEach, NothingMissed', UNCHANGED <<cron, ledger>>,
         NEW new \in Seq(Builds), new = runs', DOMAIN new = DOMAIN runs, Len(new) = Len(runs),
         \A r \in DOMAIN runs : new[r].seen = runs[r].seen /\ new[r].nightly = runs[r].nightly,
         NEW now \in Fingerprint, now = Now', AtMost(Now, now),
         \A c \in Crons : FingerprintOf(cron[c].serving)' = FingerprintOf(cron[c].serving),
         gold'.w \in Nat, gold'.w >= gold.w
  PROVE  OnceEach'
<1>1. /\ runs \in Seq(Builds) /\ gold.w \in Nat /\ DOMAIN runs = 1..Len(runs)
      /\ \A r \in DOMAIN runs : runs[r].seen[1] \in Nat /\ runs[r].seen[2] \in Nat
      /\ \A c \in Crons : /\ cron[c].gold \in Nat
                          /\ cron[c].live[1] \in Nat /\ cron[c].live[2] \in Nat
  <2>1. runs \in Seq(Builds) /\ gold.w \in Nat /\ cron \in [Crons -> Invocations]
    BY DEF ServingInv, ChainTypes
  <2>2. ASSUME NEW r \in DOMAIN runs
        PROVE  runs[r].seen[1] \in Nat /\ runs[r].seen[2] \in Nat
    <3>1. runs[r] \in Builds
      BY <2>1
    <3> QED BY <3>1 DEF Builds, Fingerprint
  <2>3. ASSUME NEW c \in Crons
        PROVE  cron[c].gold \in Nat /\ cron[c].live[1] \in Nat /\ cron[c].live[2] \in Nat
    <3>1. cron[c] \in Invocations
      BY <2>1
    <3> QED BY <3>1 DEF Invocations, Fingerprint
  <2> QED BY <2>1, <2>2, <2>3
<1>2. Now \in Fingerprint
  <2>1. serving \in 0..serving
    BY DEF ServingInv, ChainTypes
  <2>2. FingerprintOf(serving) \in Fingerprint
    BY <2>1, NowIsNewest DEF OnceEach
  <2> QED BY <1>1, <2>2 DEF Now, Fingerprint
<1>3. \A a : a[1] \in Nat /\ a[2] \in Nat /\ AtMost(a, Now) => AtMost(a, now)
  BY <1>2 DEF AtMost, Fingerprint
<1>4. LastSeen' = LastSeen
  BY <1>1 DEF LastSeen
<1>5. SeenClimbs'
  BY SMTT(30), <1>1, <1>3 DEF OnceEach, SeenClimbs
<1>6. ASSUME NEW c \in Crons
      PROVE  CronIsUpToDate(c)'
  BY <1>1, <1>3, <1>4 DEF OnceEach, CronIsUpToDate
<1> QED BY <1>5, <1>6 DEF OnceEach

\* Nobody publishes: what the cron compares can only see Gold advance.
LEMMA ServingStaysClimbing ==
  ASSUME ServingInv, OnceEach, NothingMissed', UNCHANGED <<cron, ledger>>, ServingStays,
         NEW new \in Seq(Builds), new = runs', DOMAIN new = DOMAIN runs, Len(new) = Len(runs),
         \A r \in DOMAIN runs : new[r].seen = runs[r].seen /\ new[r].nightly = runs[r].nightly,
         gold'.w \in Nat, gold'.w >= gold.w
  PROVE  OnceEach'
<1>1. PICK now : now = <<gold'.w, FingerprintOf(serving)[2]>>
  OBVIOUS
<1>2. now = Now'
  BY <1>1 DEF Now, FingerprintOf, ServingStays
<1>3. FingerprintOf(serving) \in Fingerprint /\ gold.w \in Nat
  <2>1. serving \in 0..serving /\ gold.w \in Nat
    BY DEF ServingInv, ChainTypes
  <2> QED BY <2>1, NowIsNewest DEF OnceEach
<1>4. now \in Fingerprint /\ AtMost(Now, now)
  BY <1>1, <1>3 DEF Now, AtMost, Fingerprint
<1>5. \A c \in Crons : FingerprintOf(cron[c].serving)' = FingerprintOf(cron[c].serving)
  BY DEF FingerprintOf, ServingStays
<1> QED BY <1>2, <1>4, <1>5, BuildsGoOnClimbing

\* A generation that is published leaves the fingerprints in order.
LEMMA PublicationClimbs ==
  ASSUME ServingInv, ServingInv', OnceEach, NothingMissed', UNCHANGED <<cron, ledger, gold>>,
         NEW p, serving' = serving + 1, lineage' = Append(lineage, p),
         NEW new \in Seq(Builds), new = runs', DOMAIN new = DOMAIN runs, Len(new) = Len(runs),
         \A r \in DOMAIN runs : new[r].seen = runs[r].seen /\ new[r].nightly = runs[r].nightly
  PROVE  OnceEach'
<1>1. PICK n \in Nat, lin \in Seq(Fingerprint), missed \in {blind'} :
        n = serving' /\ lin = lineage' /\ Len(lin) = n
  BY DEF ServingInv, ChainTypes
<1>2. serving \in Nat /\ lineage \in Seq(Fingerprint) /\ Len(lineage) = serving /\ gold.w \in Nat
      /\ \A c \in Crons : cron[c].serving \in Nat /\ cron[c].serving <= serving
  BY DEF ServingInv, ChainTypes, Invocations
<1>3. \A i \in 1..serving : lin[i] = lineage[i]
  BY <1>1, <1>2
<1>4. lin[n] \in Fingerprint /\ n # 0 /\ n = serving + 1
  BY <1>1, <1>2
<1>5. FingerprintOf(serving) \in Fingerprint /\ FingerprintOf(serving)[2] <= lin[n][2]
  <2>1. FingerprintOf(serving) \in Fingerprint
    <3>1. serving \in 0..serving
      BY <1>2
    <3> QED BY <3>1, NowIsNewest DEF OnceEach
  <2>2. CASE serving = 0
    BY <1>4, <2>2 DEF FingerprintOf, Nothing, Fingerprint
  <2>3. CASE serving # 0
    <3>1. \A i, j \in DOMAIN lin : i < j => lin[i][2] <= lin[j][2] \/ "f" \in missed[j]
      BY <1>1 DEF ServingInv, ServingNeverRegresses
    <3>2. \A g \in 1..n : missed[g] = {}
      BY <1>1 DEF NothingMissed
    <3>3. serving \in 1..n /\ lin[serving] = lineage[serving]
      BY <1>2, <1>3, <1>4, <2>3
    <3>4. lin[serving][2] <= lin[n][2]
      BY <1>1, <3>1, <3>2, <3>3, LastIsNewest
    <3> QED BY <2>1, <2>3, <3>3, <3>4 DEF FingerprintOf
  <2> QED BY <2>1, <2>2, <2>3
<1>6. PICK now : now = <<gold.w, lin[n][2]>>
  OBVIOUS
<1>7. now = Now'
  BY <1>1, <1>4, <1>6 DEF Now, FingerprintOf
<1>8. now \in Fingerprint /\ AtMost(Now, now)
  BY <1>2, <1>4, <1>5, <1>6 DEF Now, AtMost, Fingerprint
<1>9. ASSUME NEW c \in Crons
      PROVE  FingerprintOf(cron[c].serving)' = FingerprintOf(cron[c].serving)
  <2>1. cron[c].serving = 0 \/ cron[c].serving \in 1..serving
    BY <1>2
  <2>2. cron[c].serving # 0 => lineage'[cron[c].serving] = lineage[cron[c].serving]
    BY <1>1, <1>3, <2>1
  <2> QED BY <2>2 DEF FingerprintOf
<1>10. gold'.w \in Nat /\ gold'.w >= gold.w
  BY <1>2
<1> QED BY <1>7, <1>8, <1>9, <1>10, BuildsGoOnClimbing

\* A build that reads all it wants, and publishes or finds that CURRENT has moved.
LEMMA BuildStepClimbs ==
  ASSUME ServingInv, ServingInv', OnceEach, NEW r, RunStep(r), UNCHANGED faults, faults \in Nat
  PROVE  OnceEach'
<1>1. ~Fault
  BY DEF Fault
<1>2. r \in DOMAIN runs /\ UNCHANGED <<gold, ledger, cron>>
  BY DEF RunStep, FindParent, FoldGold, CollectLineage, PublishCurrent, RunAt
<1>3. runs[r] \in Builds /\ runs \in Seq(Builds) /\ gold.w \in Nat /\ gold.f \in Nat /\ serving \in Nat
      /\ blind \in Seq(SUBSET Family) /\ Len(blind) = serving /\ runs' \in Seq(Builds)
  BY <1>2 DEF ServingInv, ChainTypes
<1>4. PICK b : /\ runs' = [runs EXCEPT ![r] = b]
               /\ b \in {[runs[r] EXCEPT !.pc = "fold", !.parent = serving],
                         [runs[r] EXCEPT !.pc = "lineage", !.f = gold.f],
                         [runs[r] EXCEPT !.pc = "publish", !.w = gold.w],
                         Build("ok", runs[r].seen, runs[r].nightly),
                         Build("failed", runs[r].seen, runs[r].nightly)}
               /\ \/ ServingStays
                  \/ MoveCurrent(r)
  <2>1. CASE FindParent(r)
    BY <2>1 DEF FindParent, Advance
  <2>2. CASE FoldGold(r)
    BY <1>1, <2>2 DEF FoldGold, Advance
  <2>3. CASE CollectLineage(r)
    BY <1>1, <2>3 DEF CollectLineage, Advance
  <2>4. CASE PublishCurrent(r)
    BY <1>1, <2>4 DEF PublishCurrent, Ends, Advance
  <2> QED BY <2>1, <2>2, <2>3, <2>4 DEF RunStep
<1>5. b.seen = runs[r].seen /\ b.nightly = runs[r].nightly /\ b.blind = runs[r].blind
  <2>1. runs[r].blind = {}
    BY <1>2 DEF OnceEach, NothingMissed
  <2>2. CASE b \in {[runs[r] EXCEPT !.pc = "fold", !.parent = serving],
                    [runs[r] EXCEPT !.pc = "lineage", !.f = gold.f],
                    [runs[r] EXCEPT !.pc = "publish", !.w = gold.w]}
    BY <1>3, <2>2 DEF Builds
  <2>3. CASE b \in {Build("ok", runs[r].seen, runs[r].nightly),
                    Build("failed", runs[r].seen, runs[r].nightly)}
    BY <2>1, <2>3 DEF Build
  <2> QED BY <1>4, <2>2, <2>3
<1>6. PICK new \in Seq(Builds) : new = runs'
  BY <1>3
<1>7. /\ DOMAIN new = DOMAIN runs /\ Len(new) = Len(runs)
      /\ \A q \in DOMAIN runs : /\ new[q].seen = runs[q].seen /\ new[q].nightly = runs[q].nightly
                                /\ new[q].blind = runs[q].blind
  BY <1>2, <1>3, <1>4, <1>5, <1>6
<1>8. \A q \in DOMAIN runs' : runs'[q].blind = {}
  BY <1>6, <1>7 DEF OnceEach, NothingMissed
<1>9. CASE ServingStays
  <2>1. NothingMissed'
    BY <1>8, <1>9 DEF OnceEach, NothingMissed, ServingStays
  <2>2. gold'.w \in Nat /\ gold'.w >= gold.w
    BY <1>2, <1>3
  <2> QED BY <1>2, <1>6, <1>7, <1>9, <2>1, <2>2, ServingStaysClimbing
<1>10. CASE MoveCurrent(r)
  <2>1. PICK p : p = <<runs[r].w, runs[r].f>>
    OBVIOUS
  <2>2. serving' = serving + 1 /\ lineage' = Append(lineage, p)
        /\ blind' = Append(blind, runs[r].blind)
    BY <1>10, <2>1 DEF MoveCurrent
  <2>3. runs[r].blind = {}
    BY <1>2 DEF OnceEach, NothingMissed
  <2>4. \A g \in 1..serving' : blind'[g] = {}
    BY <1>3, <2>2, <2>3 DEF OnceEach, NothingMissed
  <2>5. NothingMissed'
    BY <1>8, <2>4 DEF NothingMissed
  <2> QED BY <1>2, <1>6, <1>7, <2>2, <2>5, PublicationClimbs
<1> QED BY <1>4, <1>9, <1>10

\* A step of the cron that starts no build: it holds what the new record has read.
LEMMA CronReadsOn ==
  ASSUME ServingInv, OnceEach, NEW c \in Crons, Crons = {c},
         UNCHANGED <<gold, serving, lineage, blind, runs>>,
         NEW x \in Invocations, cron' = [cron EXCEPT ![c] = x],
         x.gold <= gold.w,
         x.pc \in {"off", "read"} => ledger' = LastSeen,
         x.pc = "off" => x.got = {},
         x.pc = "read" =>
           /\ "ledger" \in x.got => x.ledger = LastSeen
           /\ \A r \in DOMAIN runs :
                /\ "gold" \in x.got => runs[r].seen[1] <= x.gold
                /\ "serving" \in x.got => runs[r].seen[2] <= FingerprintOf(x.serving)[2],
         x.pc = "start" =>
           /\ x.live # Nothing /\ AtMost(x.live, Now)
           /\ \A r \in DOMAIN runs :
                AtMost(runs[r].seen, x.live) /\ (~x.nightly => runs[r].seen # x.live),
         x.pc = "record" => LastSeen = x.live
  PROVE  OnceEach'
<1>1. NothingMissed' /\ SeenClimbs'
  BY DEF OnceEach, NothingMissed, SeenClimbs, Now, FingerprintOf
<1>2. cron'[c] = x
  BY DEF ServingInv, ChainTypes
<1>3. LastSeen' = LastSeen /\ Now' = Now
      /\ FingerprintOf(cron[c].serving)' = FingerprintOf(x.serving)
  BY <1>2 DEF LastSeen, Now, FingerprintOf
<1>4. CronIsUpToDate(c)'
  BY <1>2, <1>3 DEF CronIsUpToDate
<1> QED BY <1>1, <1>4 DEF OnceEach

\* What the cron has read, and what was built.
LEMMA CronTypes ==
  ASSUME ServingInv, NEW c \in Crons
  PROVE  /\ cron[c] \in Invocations /\ cron[c].serving \in 0..serving /\ cron[c].gold \in Nat
         /\ cron[c].live \in Fingerprint /\ Resting \in Invocations
         /\ gold.w \in Nat /\ serving \in Nat /\ runs \in Seq(Builds)
         /\ \A r \in DOMAIN runs : runs[r].seen \in Fingerprint
<1>1. cron[c] \in Invocations /\ cron[c].serving <= serving
  BY DEF ServingInv, ChainTypes
<1>2. gold.w \in Nat /\ serving \in Nat /\ runs \in Seq(Builds)
  BY DEF ServingInv, ChainTypes
<1>3. ASSUME NEW r \in DOMAIN runs
      PROVE  runs[r].seen \in Fingerprint
  <2>1. runs[r] \in Builds
    BY <1>2
  <2> QED BY <2>1 DEF Builds
<1>4. Resting \in Invocations
  BY DEF Resting, Invocations, Nothing, Fingerprint
<1>5. cron[c].serving \in Nat /\ cron[c].gold \in Nat /\ cron[c].live \in Fingerprint
  BY <1>1 DEF Invocations
<1>6. cron[c].serving \in 0..serving
  BY <1>1, <1>2, <1>5
<1> QED BY <1>1, <1>2, <1>3, <1>4, <1>5, <1>6

\* The cron comes to rest with the ledger naming what was built last.
LEMMA CronRests ==
  ASSUME ServingInv, OnceEach, NEW c \in Crons, Crons = {c}, CronOff(c),
         UNCHANGED <<gold, serving, lineage, blind, runs>>, ledger' = LastSeen
  PROVE  OnceEach'
<1>1. Resting \in Invocations /\ gold.w \in Nat
  BY CronTypes
<1>2. cron' = [cron EXCEPT ![c] = Resting]
  BY DEF CronOff
<1>3. Resting.pc = "off" /\ Resting.gold = 0 /\ Resting.got = {}
  BY DEF Resting
<1>4. PICK x : x = Resting
  OBVIOUS
<1>5. x \in Invocations /\ cron' = [cron EXCEPT ![c] = x] /\ x.pc = "off" /\ x.got = {}
  BY <1>1, <1>2, <1>3, <1>4
<1>6. x.gold <= gold.w
  BY <1>1, <1>3, <1>4
<1> QED BY <1>5, <1>6, CronReadsOn

\* So does a cron that begins,
LEMMA BeginsClimbing ==
  ASSUME ServingInv, OnceEach, NEW c \in Crons, Crons = {c}, CronBegins(c)
  PROVE  OnceEach'
<1>1. PICK x : x = [cron[c] EXCEPT !.pc = "read"]
  OBVIOUS
<1>2. cron[c] \in Invocations /\ cron[c].pc = "off"
  BY CronTypes DEF CronBegins, CronAt
<1>3. x \in Invocations /\ x.pc = "read" /\ x.gold = cron[c].gold /\ x.got = cron[c].got
  BY <1>1, <1>2 DEF Invocations
<1>4. cron[c].gold <= gold.w /\ ledger = LastSeen /\ cron[c].got = {}
  BY <1>2 DEF OnceEach, CronIsUpToDate
<1>5. UNCHANGED <<gold, serving, lineage, blind, runs, ledger>>
      /\ cron' = [cron EXCEPT ![c] = x]
  BY <1>1 DEF CronBegins, ServingStays
<1> QED BY <1>3, <1>4, <1>5, CronReadsOn

\* that reads,
LEMMA ReadsClimbing ==
  ASSUME ServingInv, OnceEach, NEW c \in Crons, Crons = {c}, Reads(c), UNCHANGED faults,
         faults \in Nat
  PROVE  OnceEach'
<1>1. cron[c] \in Invocations /\ cron[c].pc = "read" /\ UNCHANGED <<gold, serving, lineage, blind, runs, ledger>>
  BY CronTypes DEF Reads, CronAt, ServingStays
<1>2. PICK key \in {"gold", "serving", "ledger"} :
        LET had == [cron[c] EXCEPT !.got = @ \cup {key}] IN
          cron' = [cron EXCEPT ![c] =
               CASE key = "gold" -> [had EXCEPT !.gold = gold.w]
                 [] key = "serving" -> [had EXCEPT !.serving = serving]
                 [] key = "ledger" -> [had EXCEPT !.ledger = ledger]]
  <2>1. ~Fault
    BY DEF Fault
  <2> QED BY <2>1 DEF Reads
<1>3. PICK had : had = [cron[c] EXCEPT !.got = @ \cup {key}]
  OBVIOUS
<1>4. /\ had \in Invocations /\ had.pc = "read" /\ had.gold = cron[c].gold
      /\ had.serving = cron[c].serving /\ had.ledger = cron[c].ledger
      /\ had.got = cron[c].got \cup {key}
  BY <1>1, <1>3 DEF Invocations
<1>5. /\ cron[c].gold <= gold.w /\ ledger = LastSeen
      /\ "ledger" \in cron[c].got => cron[c].ledger = ledger
      /\ \A r \in DOMAIN runs :
           /\ "gold" \in cron[c].got => runs[r].seen[1] <= cron[c].gold
           /\ "serving" \in cron[c].got => runs[r].seen[2] <= FingerprintOf(cron[c].serving)[2]
  BY <1>1 DEF OnceEach, CronIsUpToDate
<1>6. /\ gold.w \in Nat /\ serving \in Nat /\ ledger \in Fingerprint
      /\ \A r \in DOMAIN runs : runs[r].seen[1] <= gold.w /\ runs[r].seen[2] <= FingerprintOf(serving)[2]
  BY CronTypes DEF OnceEach, SeenClimbs, Now, AtMost, ServingInv, ChainTypes
<1>7. CASE key = "gold"
  <2>1. PICK x : x = [had EXCEPT !.gold = gold.w]
    OBVIOUS
  <2>2. cron' = [cron EXCEPT ![c] = x]
    BY <1>2, <1>3, <1>7, <2>1
  <2>3. /\ x \in Invocations /\ x.pc = "read" /\ x.gold = gold.w
        /\ x.serving = cron[c].serving /\ x.ledger = cron[c].ledger
        /\ x.got = cron[c].got \cup {"gold"}
    BY <1>4, <1>6, <1>7, <2>1 DEF Invocations
  <2>4. x.gold <= gold.w /\ \A r \in DOMAIN runs : runs[r].seen[1] <= x.gold
    BY <1>6, <2>3
  <2>5. x.pc = "read" =>
          /\ "ledger" \in x.got => x.ledger = LastSeen
          /\ \A r \in DOMAIN runs :
               "serving" \in x.got => runs[r].seen[2] <= FingerprintOf(x.serving)[2]
    BY <1>5, <2>3
  <2> QED BY <1>1, <1>5, <2>2, <2>3, <2>4, <2>5, CronReadsOn
<1>8. CASE key = "serving"
  <2>1. PICK x : x = [had EXCEPT !.serving = serving]
    OBVIOUS
  <2>2. cron' = [cron EXCEPT ![c] = x]
    BY <1>2, <1>3, <1>8, <2>1
  <2>3. /\ x \in Invocations /\ x.pc = "read" /\ x.gold = cron[c].gold
        /\ x.serving = serving /\ x.ledger = cron[c].ledger
        /\ x.got = cron[c].got \cup {"serving"}
    BY <1>4, <1>6, <1>8, <2>1 DEF Invocations
  <2> QED BY <1>1, <1>5, <1>6, <2>2, <2>3, CronReadsOn
<1>9. CASE key = "ledger"
  <2>1. PICK x : x = [had EXCEPT !.ledger = ledger]
    OBVIOUS
  <2>2. cron' = [cron EXCEPT ![c] = x]
    BY <1>2, <1>3, <1>9, <2>1
  <2>3. /\ x \in Invocations /\ x.pc = "read" /\ x.gold = cron[c].gold
        /\ x.serving = cron[c].serving /\ x.ledger = ledger
        /\ x.got = cron[c].got \cup {"ledger"}
    BY <1>4, <1>6, <1>9, <2>1 DEF Invocations
  <2> QED BY <1>1, <1>5, <1>6, <2>2, <2>3, CronReadsOn
<1> QED BY <1>7, <1>8, <1>9

\* What is decided to be built was not built before, unless it is the nightly build.
LEMMA DecidesClimbing ==
  ASSUME ServingInv, OnceEach, NEW c \in Crons, Crons = {c}, Decide(c)
  PROVE  OnceEach'
<1>1. /\ cron[c] \in Invocations /\ cron[c].pc = "read"
      /\ cron[c].got = {"gold", "serving", "ledger"}
      /\ UNCHANGED <<gold, serving, lineage, blind, runs, ledger>>
  BY CronTypes DEF Decide, CronAt, ServingStays
<1>2. /\ cron[c].gold <= gold.w /\ ledger = LastSeen /\ cron[c].ledger = ledger
      /\ \A r \in DOMAIN runs :
           /\ runs[r].seen[1] <= cron[c].gold
           /\ runs[r].seen[2] <= FingerprintOf(cron[c].serving)[2]
  BY <1>1 DEF OnceEach, CronIsUpToDate
<1>3. CASE CronOff(c)
  BY <1>1, <1>2, <1>3, CronRests
<1>4. CASE ~CronOff(c)
  <2>1. PICK claimed : claimed = FingerprintOf(cron[c].serving)
    OBVIOUS
  <2>2. PICK live : live = <<cron[c].gold, claimed[2]>>
    OBVIOUS
  <2>3. PICK nightly \in BOOLEAN :
          /\ cron' = [cron EXCEPT ![c] = [Resting EXCEPT !.pc = "start", !.live = live,
                                                          !.nightly = nightly]]
          /\ nightly \/ ~Deduped(live, cron[c].ledger)
          /\ live # Nothing
    BY <1>4, <2>1, <2>2 DEF Decide, Live, GoldIsAhead, NightlyIsDue
  <2>4. claimed \in Fingerprint /\ claimed[2] <= FingerprintOf(serving)[2]
        /\ cron[c].gold \in Nat /\ FingerprintOf(serving) \in Fingerprint
        /\ gold.w \in Nat
    BY <2>1, CronTypes, NowIsNewest DEF OnceEach
  <2>5. live \in Fingerprint /\ live[1] = cron[c].gold /\ live[2] = claimed[2]
    BY <2>2, <2>4 DEF Fingerprint
  <2>6. AtMost(live, Now)
    BY <1>2, <2>4, <2>5 DEF AtMost, Now
  <2>7. \A r \in DOMAIN runs : AtMost(runs[r].seen, live)
    BY <1>2, <2>1, <2>5 DEF AtMost
  <2>8. ASSUME ~nightly, NEW r \in DOMAIN runs
        PROVE  runs[r].seen # live
    <3>1. /\ runs \in Seq(Builds) /\ \A q \in DOMAIN runs : runs[q].seen \in Fingerprint
      BY CronTypes
    <3>2. PICK n : n = Len(runs)
      OBVIOUS
    <3>3. n \in DOMAIN runs /\ r <= n /\ r \in Nat /\ n \in Nat /\ runs # << >>
      BY <2>8, <3>1, <3>2
    <3>4. runs[n].seen # Nothing /\ LastSeen = runs[n].seen
      BY <3>2, <3>3 DEF OnceEach, SeenClimbs, LastSeen
    <3>5. live # runs[n].seen
      BY <1>2, <2>3, <2>8, <3>4 DEF Deduped
    <3>6. AtMost(runs[r].seen, runs[n].seen)
      <4>1. CASE r = n
        BY <2>8, <3>1, <4>1 DEF AtMost, Fingerprint
      <4>2. CASE r # n
        BY <3>3, <4>2 DEF OnceEach, SeenClimbs
      <4> QED BY <4>1, <4>2
    <3>7. AtMost(runs[n].seen, live)
      BY <2>7, <3>3
    <3> QED BY SMTT(30), <2>5, <3>1, <3>3, <3>5, <3>6, <3>7 DEF AtMost, Fingerprint
  <2>9. PICK x : x = [Resting EXCEPT !.pc = "start", !.live = live, !.nightly = nightly]
    OBVIOUS
  <2>10. /\ x \in Invocations /\ x.pc = "start" /\ x.live = live /\ x.nightly = nightly
         /\ x.gold = 0
    BY <2>5, <2>9 DEF Resting, Nothing, Fingerprint, Invocations
  <2>11. cron' = [cron EXCEPT ![c] = x]
    BY <1>1, <2>3, <2>9 DEF ServingInv, ChainTypes
  <2>12. /\ x.live # Nothing /\ AtMost(x.live, Now)
         /\ \A r \in DOMAIN runs :
              AtMost(runs[r].seen, x.live) /\ (~x.nightly => runs[r].seen # x.live)
    BY <2>3, <2>6, <2>7, <2>8, <2>10
  <2>13. x.gold <= gold.w
    BY <2>4, <2>10
  <2> QED BY <1>1, <1>2, <2>10, <2>11, <2>12, <2>13, CronReadsOn
<1> QED BY <1>3, <1>4

\* The build that is started is the newest.
LEMMA StartsClimbing ==
  ASSUME ServingInv, OnceEach, NEW c \in Crons, Crons = {c}, StartBuild(c), UNCHANGED faults,
         faults \in Nat
  PROVE  OnceEach'
<1>1. /\ cron[c] \in Invocations /\ cron[c].pc = "start"
      /\ UNCHANGED <<gold, serving, lineage, blind, ledger>>
  BY CronTypes DEF StartBuild, CronAt, ServingStays
<1>2. runs' = NewRun(c, "begin") /\ cron' = [cron EXCEPT ![c].pc = "record"]
  <2>1. ~Fault
    BY DEF Fault
  <2> QED BY <2>1 DEF StartBuild
<1>3. PICK b : b = [pc |-> "begin", parent |-> 0, w |-> 0, f |-> 0, blind |-> {},
                    seen |-> cron[c].live, nightly |-> cron[c].nightly]
  OBVIOUS
<1>4. /\ runs' = Append(runs, b) /\ b.seen = cron[c].live /\ b.nightly = cron[c].nightly
      /\ b.blind = {}
  BY <1>2, <1>3 DEF NewRun, Build
<1>5. runs \in Seq(Builds) /\ b \in Builds /\ gold.w \in Nat
  BY <1>1, <1>3, CronTypes DEF Builds, RunStates, Invocations
<1>6. PICK n : n = Len(runs) + 1
  OBVIOUS
<1>7. /\ DOMAIN runs' = 1..n /\ DOMAIN runs = 1..(n - 1) /\ n \in Nat /\ Len(runs') = n
      /\ runs'[n] = b /\ runs' # << >> /\ \A r \in 1..(n - 1) : runs'[r] = runs[r]
  BY <1>4, <1>5, <1>6
<1>8. \A r \in 1..n : r = n \/ r \in 1..(n - 1)
  BY <1>7
<1>9. /\ cron[c].live # Nothing /\ AtMost(cron[c].live, Now) /\ cron[c].gold <= gold.w
      /\ \A r \in DOMAIN runs :
           /\ AtMost(runs[r].seen, cron[c].live)
           /\ ~cron[c].nightly => runs[r].seen # cron[c].live
  BY <1>1 DEF OnceEach, CronIsUpToDate
<1>10. NothingMissed'
  BY <1>1, <1>4, <1>7, <1>8 DEF OnceEach, NothingMissed
<1>11. Now' = Now
  BY <1>1 DEF Now, FingerprintOf
<1>12. SeenClimbs'
  <2>1. ASSUME NEW r \in 1..n
        PROVE  runs'[r].seen # Nothing /\ AtMost(runs'[r].seen, Now)
    BY <1>4, <1>7, <1>8, <1>9 DEF OnceEach, SeenClimbs
  <2>2. ASSUME NEW i \in 1..n, NEW j \in 1..n, i < j
        PROVE  /\ AtMost(runs'[i].seen, runs'[j].seen)
               /\ ~runs'[j].nightly => runs'[i].seen # runs'[j].seen
    <3>1. i \in 1..(n - 1) /\ runs'[i] = runs[i]
      BY <1>7, <2>2
    <3>2. CASE j = n
      BY <1>4, <1>7, <1>9, <3>1, <3>2
    <3>3. CASE j # n
      BY <1>7, <1>8, <2>2, <3>1, <3>3 DEF OnceEach, SeenClimbs
    <3> QED BY <3>2, <3>3
  <2> QED BY <1>7, <1>11, <2>1, <2>2 DEF SeenClimbs, AtMost
<1>13. PICK x : x = [cron[c] EXCEPT !.pc = "record"]
  OBVIOUS
<1>14. x.pc = "record" /\ x.gold = cron[c].gold /\ x.live = cron[c].live
  BY <1>1, <1>13 DEF Invocations
<1>15. cron'[c] = x
  BY <1>2, <1>13 DEF ServingInv, ChainTypes
<1>16. LastSeen' = b.seen
  BY <1>7 DEF LastSeen
<1>17. CronIsUpToDate(c)'
  BY <1>1, <1>4, <1>9, <1>14, <1>15, <1>16 DEF CronIsUpToDate
<1> QED BY <1>10, <1>12, <1>17 DEF OnceEach

\* and that records what it has built.
LEMMA RecordsClimbing ==
  ASSUME ServingInv, OnceEach, NEW c \in Crons, Crons = {c}, Record(c), UNCHANGED faults,
         faults \in Nat
  PROVE  OnceEach'
<1>1. /\ ledger' = cron[c].live /\ CronOff(c) /\ cron[c].pc = "record"
      /\ UNCHANGED <<gold, serving, lineage, blind, runs>>
  <2>1. ~Fault
    BY DEF Fault
  <2> QED BY <2>1 DEF Record, CronAt, ServingStays
<1>2. LastSeen = cron[c].live
  BY <1>1 DEF OnceEach, CronIsUpToDate
<1> QED BY <1>1, <1>2, CronRests

\* So does every step of the cron that does not fail: what it starts is newer
\* than all before.
LEMMA CronStepClimbs ==
  ASSUME ServingInv, OnceEach, NEW c \in Crons, Crons = {c}, CronStep(c), UNCHANGED faults,
         faults \in Nat
  PROVE  OnceEach'
<1>1. ~ReadThrows(c)
  BY DEF ReadThrows, Fault
<1> QED
  BY <1>1, BeginsClimbing, ReadsClimbing, DecidesClimbing, StartsClimbing, RecordsClimbing
     DEF CronStep

\* Faults only add up.
LEMMA FaultsAddUp ==
  ASSUME faults \in Nat, [PromotionNext \/ RefreshNext]_chainVars
  PROVE  faults' \in Nat /\ (faults' = faults \/ faults' # 0)
<1>1. faults' = faults \/ faults' = faults + 1
  BY DEF PromotionNext, BackoffEnds, Visit, BootStep, ReadMetadata, StreamDatabase, Die,
         TickStep, Begin, Load, Restart, AskHealth, Health, Save, RefreshNext, GoldAdvances,
         CronStep, CronBegins, Reads, ReadThrows, Decide, StartBuild, Record,
         RunStep, FindParent, FoldGold, CollectLineage, PublishCurrent, BuildFails,
         NoFault, Fault, chainVars, hpVars
<1> QED BY <1>1

\* Every step of the chain keeps the invariant.
LEMMA BuildInvStep ==
  ASSUME SoleCron, ServingInv, ServingInv', BuildInv, [PromotionNext \/ RefreshNext]_chainVars
  PROVE  BuildInv'
<1>1. faults \in Nat /\ faults' \in Nat /\ (faults' = faults \/ faults' # 0)
  BY FaultsAddUp DEF BuildInv
<1> SUFFICES ASSUME faults' = 0 PROVE OnceEach'
  BY <1>1 DEF BuildInv
<1>2. OnceEach /\ UNCHANGED faults
  BY <1>1 DEF BuildInv
<1>3. /\ runs \in Seq(Builds) /\ DOMAIN runs = 1..Len(runs) /\ gold.w \in Nat
  BY DEF ServingInv, ChainTypes
<1>4. ASSUME ServingStays, UNCHANGED <<cron, ledger, runs>>, gold'.w \in Nat, gold'.w >= gold.w
      PROVE  OnceEach'
  <2>1. NothingMissed'
    BY <1>2, <1>4 DEF OnceEach, NothingMissed, ServingStays
  <2>2. PICK new \in Seq(Builds) : new = runs'
    BY <1>3, <1>4
  <2> QED BY <1>2, <1>4, <2>1, <2>2, ServingStaysClimbing
<1>5. CASE GoldAdvances
  <2>1. gold'.w \in Nat /\ gold'.w >= gold.w
    BY <1>5 DEF GoldAdvances, ServingInv, ChainTypes
  <2> QED BY <1>4, <1>5, <2>1 DEF GoldAdvances
<1>7. ASSUME NEW c \in Crons, CronStep(c)
      PROVE  OnceEach'
  <2>1. Crons = {c}
    BY DEF SoleCron
  <2> QED BY <1>1, <1>2, <1>7, <2>1, CronStepClimbs
<1>8. ASSUME NEW r, RunStep(r)
      PROVE  OnceEach'
  BY <1>1, <1>2, <1>8, BuildStepClimbs
<1>9. \A r : ~BuildFails(r)
  BY <1>1 DEF BuildFails, Fault
<1>10. CASE PromotionNext \/ UNCHANGED chainVars
  <2>1. UNCHANGED <<serving, srVars>>
    BY <1>10 DEF PromotionNext, BackoffEnds, Visit, BootStep, ReadMetadata, StreamDatabase, Die,
         TickStep, Begin, Load, Restart, AskHealth, Health, Save, chainVars, hpVars
  <2> QED BY <1>3, <1>4, <2>1 DEF srVars, ServingStays
<1> QED BY <1>5, <1>7, <1>8, <1>9, <1>10 DEF RefreshNext

\* "repeated Gold check -> no duplicate Serving build": while no call fails,
\* one cron of watermark-controller.ts builds the same fingerprint once, the
\* nightly build aside, whatever Gold is published during its ticks and
\* builds.
THEOREM BuildsAreNotRepeated == SoleCron => (ChainSpec => []NoDuplicateBuild)
<1> SUFFICES ASSUME SoleCron PROVE ChainSpec => []NoDuplicateBuild
  OBVIOUS
<1>1. HPInit /\ SRInit => ServingInv /\ BuildInv
  BY InitServing, InitBuilds
<1>2. ServingInv /\ BuildInv /\ [PromotionNext \/ RefreshNext]_chainVars => (ServingInv /\ BuildInv)'
  BY ChainStepInv, BuildInvStep
<1>3. ServingInv /\ BuildInv => NoDuplicateBuild
  <2> SUFFICES ASSUME ServingInv, BuildInv,
                      NEW i \in DOMAIN runs, NEW j \in DOMAIN runs, i < j,
                      ~runs[j].nightly, runs[i].seen = runs[j].seen
               PROVE  faults > 0
    BY DEF NoDuplicateBuild
  <2> QED BY DEF BuildInv, OnceEach, SeenClimbs
<1> QED BY <1>1, <1>2, <1>3, PTL DEF ChainSpec
-----------------------------------------------------------------------------
(* Types; the generations of Serving are bounded because each takes a build. *)

\* Types of the crons and the builds, within the bounds of the runs.
BoundedInvocations ==
  [pc : {"off", "read", "start", "record"}, gold : 0..MaxGold, serving : Nat,
   ledger : Fingerprints, got : SUBSET {"gold", "serving", "ledger"}, live : Fingerprints,
   nightly : BOOLEAN]

BoundedBuilds ==
  [pc : RunStates, parent : Generations, w : 0..MaxGold, f : 0..MaxGold,
   blind : SUBSET {"w", "f"}, seen : Fingerprints, nightly : BOOLEAN]

\* The builds that have ended, published or not.
Ended(s) == {r \in DOMAIN s : s[r].pc \in {"ok", "failed"}}

\* A cron that is about to start a build still may.
MayStart(n) == n <= MaxRuns /\ \A c \in Crons : CronAt(c, "start") => n < MaxRuns

\* The invariant of the bounds: a generation takes a build that has ended.
BoundedInv ==
  /\ HPTypes
  /\ gold \in [{"w", "f"} -> 0..MaxGold] /\ ledger \in Fingerprints
  /\ lineage \in Seq(Fingerprints) /\ Len(lineage) = serving
  /\ cron \in [Crons -> BoundedInvocations] /\ \A c \in Crons : cron[c].serving <= serving
  /\ runs \in Seq(BoundedBuilds) /\ MayStart(Len(runs))
  /\ serving <= Cardinality(Ended(runs))

\* A cron at rest and an empty ledger are within the bounds.
LEMMA BoundedRests ==
  /\ Resting \in BoundedInvocations /\ Resting.pc = "off" /\ Resting.serving = 0
  /\ Nothing \in Fingerprints /\ 0 \in 0..MaxGold /\ 0 \in Generations
<1>1. 0 \in 0..MaxGold /\ 0 \in Generations
  BY SRAssumption, HPAssumption DEF Generations
<1>2. Nothing \in Fingerprints
  BY <1>1 DEF Nothing, Fingerprints
<1> QED BY <1>1, <1>2 DEF Resting, BoundedInvocations

\* The bounds hold at the beginning.
LEMMA InitBounded ==
  ASSUME Deployments # {}, HPInit, SRInit
  PROVE  BoundedInv
<1>1. HPTypes
  BY InitTypes
<1>2. /\ ledger = Nothing /\ lineage = << >> /\ runs = << >> /\ serving = 0
      /\ cron = [c \in Crons |-> Resting] /\ gold = [w |-> 0, f |-> 0]
  BY DEF HPInit, SRInit
<1>3. gold \in [{"w", "f"} -> 0..MaxGold]
  BY <1>2, BoundedRests
<1>4. cron \in [Crons -> BoundedInvocations] /\ \A c \in Crons : cron[c].serving <= serving
      /\ ~CronAt(c, "start")
  BY <1>2, BoundedRests DEF CronAt
<1>5. runs \in Seq(BoundedBuilds) /\ MayStart(Len(runs)) /\ lineage \in Seq(Fingerprints)
      /\ Len(lineage) = serving
  BY <1>2, <1>4, SRAssumption DEF MayStart
<1>6. Ended(runs) = {}
  BY <1>2 DEF Ended
<1>7. serving <= Cardinality(Ended(runs))
  <2>1. Cardinality({}) = 0
    BY FS_EmptySet
  <2>2. serving = 0 /\ Cardinality(Ended(runs)) = 0
    BY <1>2, <1>6, <2>1
  <2> QED BY <2>2
<1> QED BY <1>1, <1>2, <1>3, <1>4, <1>5, <1>7, BoundedRests DEF BoundedInv

\* Builds that have ended are finitely many, no more than were started.
LEMMA EndedAreBuilds ==
  ASSUME NEW S, NEW s \in Seq(S)
  PROVE  /\ IsFiniteSet(Ended(s)) /\ Cardinality(Ended(s)) \in Nat
         /\ Cardinality(Ended(s)) <= Len(s)
<1>1. IsFiniteSet(1..Len(s)) /\ Cardinality(1..Len(s)) = Len(s)
  <2>1. 1 \in Int /\ Len(s) \in Int /\ Len(s) \in Nat
    OBVIOUS
  <2>2. IsFiniteSet(1..Len(s))
        /\ Cardinality(1..Len(s)) = (IF 1 > Len(s) THEN 0 ELSE Len(s) - 1 + 1)
    BY <2>1, FS_Interval
  <2> QED BY <2>1, <2>2
<1>2. Ended(s) \subseteq 1..Len(s)
  BY DEF Ended
<1> QED BY <1>1, <1>2, FS_Subset, FS_CardinalityType

\* Starting a build, or letting one go on, ends none that had ended.
LEMMA EndedStay ==
  ASSUME NEW s \in Seq(BoundedBuilds), NEW s2 \in Seq(BoundedBuilds),
         Ended(s) \subseteq Ended(s2)
  PROVE  Cardinality(Ended(s)) <= Cardinality(Ended(s2))
BY EndedAreBuilds, FS_Subset

\* What a step that leaves CURRENT alone has to show.
LEMMA BoundedWithServing ==
  ASSUME BoundedInv, ServingStays, PromotionStays, Fault \/ NoFault,
         gold' \in [{"w", "f"} -> 0..MaxGold], ledger' \in Fingerprints,
         cron' \in [Crons -> BoundedInvocations], \A c \in Crons : cron'[c].serving <= serving,
         NEW new \in Seq(BoundedBuilds), new = runs', MayStart(Len(runs))',
         Ended(runs) \subseteq Ended(new)
  PROVE  BoundedInv'
<1>1. HPTypes'
  <2>1. faults' \in 0..MaxFaults
    BY FaultsAreBounded DEF BoundedInv
  <2>2. serving' \in Generations
    BY DEF BoundedInv, HPTypes, ServingStays
  <2> QED BY <2>1, <2>2, OthersKeepTypes DEF BoundedInv, PromotionStays
<1>2. Cardinality(Ended(runs)) <= Cardinality(Ended(new))
  BY EndedStay DEF BoundedInv
<1>3. serving' <= Cardinality(Ended(new))
  <2>1. Cardinality(Ended(runs)) \in Nat /\ Cardinality(Ended(new)) \in Nat
    BY EndedAreBuilds DEF BoundedInv
  <2>2. serving \in Nat /\ serving' = serving /\ serving <= Cardinality(Ended(runs))
    BY Numbers DEF BoundedInv, ServingStays
  <2> QED BY <1>2, <2>1, <2>2
<1>4. serving' <= Cardinality(Ended(runs))'
  BY <1>3 DEF Ended
<1>5. lineage' \in Seq(Fingerprints) /\ Len(lineage') = serving'
      /\ \A c \in Crons : cron'[c].serving <= serving'
  BY DEF BoundedInv, ServingStays
<1> QED BY <1>1, <1>4, <1>5 DEF BoundedInv

\* The records of the cron and the fingerprints it works with.
LEMMA CronHolds ==
  ASSUME BoundedInv, NEW c \in Crons
  PROVE  /\ cron[c] \in BoundedInvocations /\ cron[c].serving <= serving
         /\ cron[c].live \in Fingerprints /\ cron[c].gold \in 0..MaxGold
         /\ FingerprintOf(cron[c].serving) \in Fingerprints
         /\ gold.w \in 0..MaxGold /\ gold.f \in 0..MaxGold /\ serving \in Nat
<1>1. cron[c] \in BoundedInvocations /\ cron[c].serving <= serving
  BY DEF BoundedInv
<1>2. cron[c].live \in Fingerprints /\ cron[c].gold \in 0..MaxGold /\ cron[c].serving \in Nat
  BY <1>1 DEF BoundedInvocations
<1>3. gold.w \in 0..MaxGold /\ gold.f \in 0..MaxGold /\ serving \in Nat
  BY Numbers DEF BoundedInv
<1>4. \A i \in 1..serving : lineage[i] \in Fingerprints
  BY DEF BoundedInv
<1>5. cron[c].serving = 0 \/ cron[c].serving \in 1..serving
  BY <1>1, <1>2, <1>3
<1>6. FingerprintOf(cron[c].serving) \in Fingerprints
  BY <1>4, <1>5, BoundedRests DEF FingerprintOf
<1> QED BY <1>1, <1>2, <1>3, <1>6

\* A step of the cron that starts no build.
LEMMA CronGoesOnBounded ==
  ASSUME BoundedInv, NEW c \in Crons, ServingStays, PromotionStays, Fault \/ NoFault,
         UNCHANGED <<gold, runs>>, ledger' \in Fingerprints,
         NEW x \in BoundedInvocations, cron' = [cron EXCEPT ![c] = x], x.serving <= serving,
         x.pc = "start" => Crons = {c} /\ Len(runs) < MaxRuns
  PROVE  BoundedInv'
<1>1. /\ cron' \in [Crons -> BoundedInvocations]
      /\ cron'[c] = x /\ \A d \in Crons : d # c => cron'[d] = cron[d]
  BY DEF BoundedInv
<1>2. \A d \in Crons : cron'[d].serving <= serving
  BY <1>1 DEF BoundedInv
<1>3. MayStart(Len(runs))'
  BY <1>1 DEF BoundedInv, MayStart, CronAt
<1>4. gold' \in [{"w", "f"} -> 0..MaxGold]
  BY DEF BoundedInv
<1>5. PICK new \in Seq(BoundedBuilds) : new = runs'
  BY DEF BoundedInv
<1>6. Ended(runs) \subseteq Ended(new)
  BY <1>5
<1> QED BY <1>1, <1>2, <1>3, <1>4, <1>5, <1>6, BoundedWithServing

\* A build that starts keeps them, since the cron counted before.
LEMMA StartIsBounded ==
  ASSUME BoundedInv, NEW c \in Crons, Crons = {c}, StartBuild(c)
  PROVE  BoundedInv'
<1>1. /\ cron[c].pc = "start" /\ ServingStays /\ PromotionStays /\ (Fault \/ NoFault)
      /\ UNCHANGED <<gold, ledger>>
  BY DEF StartBuild, CronAt
<1>2. PICK pc \in {"begin", "failed"} :
        /\ runs' \in {runs, NewRun(c, pc)}
        /\ cron' = [cron EXCEPT ![c].pc = "record"] \/ CronOff(c)
  BY DEF StartBuild, CronOff
<1>3. PICK x \in BoundedInvocations :
        cron' = [cron EXCEPT ![c] = x] /\ x.serving <= serving /\ x.pc # "start"
  <2>1. CASE CronOff(c)
    <3>1. PICK x : x = Resting
      OBVIOUS
    <3>2. serving \in Nat /\ cron' = [cron EXCEPT ![c] = x]
      BY <2>1, <3>1, CronHolds DEF CronOff
    <3>3. x \in BoundedInvocations /\ x.pc # "start" /\ x.serving = 0
      BY <3>1, BoundedRests
    <3>4. x.serving <= serving
      BY <3>2, <3>3
    <3> QED BY <3>2, <3>3, <3>4
  <2>2. CASE cron' = [cron EXCEPT ![c].pc = "record"]
    <3>1. PICK x : x = [cron[c] EXCEPT !.pc = "record"]
      OBVIOUS
    <3>2. x \in BoundedInvocations /\ x.serving = cron[c].serving /\ x.pc = "record"
      BY <3>1, CronHolds DEF BoundedInvocations
    <3> QED BY <2>2, <3>1, <3>2, CronHolds DEF BoundedInv
  <2> QED BY <1>2, <2>1, <2>2
<1>4. CASE runs' = runs
  <2>1. ledger' \in Fingerprints
    BY <1>1 DEF BoundedInv
  <2> QED BY <1>1, <1>3, <1>4, <2>1, CronGoesOnBounded
<1>5. CASE runs' = NewRun(c, pc)
  <2>1. PICK b : b = [pc |-> pc, parent |-> 0, w |-> 0, f |-> 0, blind |-> {},
                      seen |-> cron[c].live, nightly |-> cron[c].nightly]
    OBVIOUS
  <2>2. runs' = Append(runs, b)
    BY <1>5, <2>1 DEF NewRun, Build
  <2>3. b \in BoundedBuilds
    <3>1. cron[c].live \in Fingerprints /\ cron[c].nightly \in BOOLEAN
      BY CronHolds DEF BoundedInvocations
    <3> QED BY <2>1, <3>1, BoundedRests DEF BoundedBuilds, RunStates
  <2>4. PICK new \in Seq(BoundedBuilds) : new = runs'
    BY SMTT(30), <2>2, <2>3 DEF BoundedInv
  <2>5. Len(new) = Len(runs) + 1 /\ Len(runs) \in Nat
        /\ \A r \in DOMAIN runs : r \in DOMAIN new /\ new[r] = runs[r]
    BY <2>2, <2>3, <2>4 DEF BoundedInv
  <2>6. Ended(runs) \subseteq Ended(new)
    BY <2>5 DEF Ended
  <2>7. /\ cron' \in [Crons -> BoundedInvocations]
        /\ \A d \in Crons : cron'[d].serving <= serving /\ cron'[d].pc # "start"
    BY <1>3 DEF BoundedInv
  <2>8. Len(runs) < MaxRuns
    BY <1>1 DEF BoundedInv, MayStart, CronAt
  <2>9. MayStart(Len(runs))'
    BY <2>4, <2>5, <2>7, <2>8, SRAssumption DEF MayStart, CronAt
  <2>10. gold' \in [{"w", "f"} -> 0..MaxGold] /\ ledger' \in Fingerprints
    BY <1>1 DEF BoundedInv
  <2> QED BY <1>1, <2>4, <2>6, <2>7, <2>9, <2>10, BoundedWithServing
<1> QED BY <1>2, <1>4, <1>5

\* So does every step of the cron.
LEMMA CronIsBounded ==
  ASSUME BoundedInv, NEW c \in Crons, Crons = {c}, CronStep(c)
  PROVE  BoundedInv'
<1>1. /\ cron[c] \in BoundedInvocations /\ cron[c].serving <= serving /\ serving \in Nat
      /\ gold.w \in 0..MaxGold /\ ledger \in Fingerprints
      /\ cron \in [Crons -> BoundedInvocations]
  BY CronHolds DEF BoundedInv
<1>2. ServingStays /\ PromotionStays /\ (Fault \/ NoFault)
  BY DEF CronStep, CronBegins, Reads, ReadThrows, Decide, StartBuild, Record, NoFault
<1>3. ASSUME UNCHANGED <<gold, runs>>, CronOff(c), ledger' \in Fingerprints
      PROVE  BoundedInv'
  <2>1. PICK x : x = Resting
    OBVIOUS
  <2>2. /\ x \in BoundedInvocations /\ x.pc # "start" /\ x.serving <= serving
        /\ cron' = [cron EXCEPT ![c] = x]
    BY <1>1, <1>3, <2>1, BoundedRests DEF CronOff
  <2> QED BY <1>2, <1>3, <2>2, CronGoesOnBounded
<1>4. CASE CronBegins(c)
  <2>1. PICK x : x = [cron[c] EXCEPT !.pc = "read"]
    OBVIOUS
  <2>2. x \in BoundedInvocations /\ x.pc = "read" /\ x.serving = cron[c].serving
    BY <1>1, <2>1 DEF BoundedInvocations
  <2>3. cron' = [cron EXCEPT ![c] = x] /\ UNCHANGED <<gold, runs, ledger>>
    BY <1>1, <1>4, <2>1 DEF CronBegins
  <2> QED BY <1>1, <1>2, <2>2, <2>3, CronGoesOnBounded
<1>5. CASE Reads(c)
  <2>1. PICK key \in {"gold", "serving", "ledger"} :
          LET had == [cron[c] EXCEPT !.got = @ \cup {key}] IN
          \/ cron' = [cron EXCEPT ![c] =
                 CASE key = "gold" -> [had EXCEPT !.gold = gold.w]
                   [] key = "serving" -> [had EXCEPT !.serving = serving]
                   [] key = "ledger" -> [had EXCEPT !.ledger = ledger]]
          \/ cron' = [cron EXCEPT ![c] = had]
    BY <1>5 DEF Reads
  <2>2. PICK had : had = [cron[c] EXCEPT !.got = @ \cup {key}]
    OBVIOUS
  <2>3. had \in BoundedInvocations /\ had.serving = cron[c].serving /\ had.pc = cron[c].pc
    BY <1>1, <2>2 DEF BoundedInvocations
  <2>4. PICK x \in {had, [had EXCEPT !.gold = gold.w], [had EXCEPT !.serving = serving],
                    [had EXCEPT !.ledger = ledger]} : cron' = [cron EXCEPT ![c] = x]
    BY <2>1, <2>2
  <2>5. x \in BoundedInvocations /\ x.serving \in {cron[c].serving, serving} /\ x.pc = cron[c].pc
    BY <1>1, <2>3, <2>4 DEF BoundedInvocations
  <2>6. UNCHANGED <<gold, runs, ledger>> /\ x.pc # "start" /\ x.serving <= serving
    BY <1>1, <1>5, <2>5 DEF Reads, CronAt
  <2> QED BY <1>1, <1>2, <2>4, <2>5, <2>6, CronGoesOnBounded
<1>6. CASE ReadThrows(c)
  BY <1>1, <1>3, <1>6 DEF ReadThrows
<1>7. CASE Decide(c)
  <2>1. PICK claimed : claimed = FingerprintOf(cron[c].serving)
    OBVIOUS
  <2>2. PICK live : live = <<cron[c].gold, claimed[2]>>
    OBVIOUS
  <2>3. PICK nightly \in BOOLEAN :
          \/ /\ cron' = [cron EXCEPT ![c] = [Resting EXCEPT !.pc = "start", !.live = live,
                                                             !.nightly = nightly]]
             /\ Len(runs) < MaxRuns
          \/ CronOff(c)
    BY <1>7, <2>1, <2>2 DEF Decide, Live
  <2>4. live \in Fingerprints
    BY <2>1, <2>2, CronHolds DEF Fingerprints
  <2>5. UNCHANGED <<gold, runs, ledger>>
    BY <1>7 DEF Decide
  <2>6. CASE CronOff(c)
    BY <1>1, <1>3, <2>5, <2>6
  <2>7. CASE /\ cron' = [cron EXCEPT ![c] = [Resting EXCEPT !.pc = "start", !.live = live,
                                                             !.nightly = nightly]]
             /\ Len(runs) < MaxRuns
    <3>1. PICK x : x = [Resting EXCEPT !.pc = "start", !.live = live, !.nightly = nightly]
      OBVIOUS
    <3>2. x \in BoundedInvocations /\ x.serving = 0
      <4>1. PICK rest \in BoundedInvocations : rest = Resting /\ rest.serving = 0
        BY BoundedRests
      <4> QED BY <2>4, <3>1, <4>1 DEF BoundedInvocations
    <3>4. 0 <= serving
      BY CronHolds
    <3>3. cron' = [cron EXCEPT ![c] = x]
      BY <1>1, <2>7, <3>1
    <3> QED BY <1>1, <1>2, <2>5, <2>7, <3>2, <3>3, <3>4, CronGoesOnBounded
  <2> QED BY <2>3, <2>6, <2>7
<1>8. CASE StartBuild(c)
  BY <1>8, StartIsBounded
<1>9. CASE Record(c)
  <2>1. ledger' \in Fingerprints
    BY <1>1, <1>9, CronHolds DEF Record
  <2> QED BY <1>3, <1>9, <2>1 DEF Record
<1> QED BY <1>4, <1>5, <1>6, <1>7, <1>8, <1>9 DEF CronStep

\* A build that goes on without publishing.
LEMMA BuildGoesOnBounded ==
  ASSUME BoundedInv, ServingStays, PromotionStays, Fault \/ NoFault,
         UNCHANGED <<gold, ledger, cron>>, NEW r \in DOMAIN runs,
         NEW b \in BoundedBuilds, runs' = [runs EXCEPT ![r] = b],
         runs[r].pc \in {"ok", "failed"} => b.pc \in {"ok", "failed"}
  PROVE  BoundedInv'
<1>1. PICK new \in Seq(BoundedBuilds) : new = runs'
  BY SMTT(30) DEF BoundedInv
<1>2. /\ DOMAIN new = DOMAIN runs /\ Len(new) = Len(runs)
      /\ \A q \in DOMAIN runs : new[q] = IF q = r THEN b ELSE runs[q]
  BY <1>1 DEF BoundedInv
<1>3. Ended(runs) \subseteq Ended(new)
  BY <1>2 DEF Ended
<1>4. MayStart(Len(runs))'
  BY <1>1, <1>2 DEF BoundedInv, MayStart, CronAt
<1>5. /\ gold' \in [{"w", "f"} -> 0..MaxGold] /\ ledger' \in Fingerprints
      /\ cron' \in [Crons -> BoundedInvocations] /\ \A c \in Crons : cron'[c].serving <= serving
  BY DEF BoundedInv
<1> QED BY <1>1, <1>3, <1>4, <1>5, BoundedWithServing

\* A generation more is a build more that has ended.
LEMMA PublicationIsBounded ==
  ASSUME BoundedInv, PromotionStays, Fault \/ NoFault,
         UNCHANGED <<gold, ledger, cron>>, NEW r \in DOMAIN runs, runs[r].pc = "publish",
         MoveCurrent(r),
         NEW b \in BoundedBuilds, runs' = [runs EXCEPT ![r] = b], b.pc \in {"ok", "failed"}
  PROVE  BoundedInv'
<1>1. PICK new \in Seq(BoundedBuilds) : new = runs'
  BY DEF BoundedInv
<1>2. /\ DOMAIN new = DOMAIN runs /\ Len(new) = Len(runs) /\ Len(runs) \in Nat
      /\ \A q \in DOMAIN runs : new[q] = IF q = r THEN b ELSE runs[q]
  BY <1>1 DEF BoundedInv
<1>3. Ended(new) = Ended(runs) \cup {r} /\ r \notin Ended(runs)
  BY <1>2 DEF Ended
<1>4. Cardinality(Ended(new)) = Cardinality(Ended(runs)) + 1
  BY <1>3, EndedAreBuilds, FS_AddElement DEF BoundedInv
<1>5. /\ serving \in Nat /\ serving' = serving + 1 /\ serving <= Cardinality(Ended(runs))
      /\ Cardinality(Ended(runs)) \in Nat /\ Cardinality(Ended(new)) <= Len(new)
      /\ Len(runs) <= MaxRuns
  BY Numbers, EndedAreBuilds DEF BoundedInv, MoveCurrent, MayStart
<1>6. serving' \in Generations /\ serving' <= Cardinality(Ended(new))
  BY <1>2, <1>4, <1>5, SRAssumption, HPAssumption DEF Generations
<1>7. HPTypes'
  <2>1. faults' \in 0..MaxFaults
    BY FaultsAreBounded DEF BoundedInv
  <2> QED BY <1>6, <2>1, OthersKeepTypes DEF BoundedInv, PromotionStays
<1>8. runs[r] \in BoundedBuilds /\ lineage \in Seq(Fingerprints) /\ Len(lineage) = serving
  BY DEF BoundedInv
<1>9. <<runs[r].w, runs[r].f>> \in Fingerprints
  BY <1>8 DEF BoundedBuilds, Fingerprints
<1>10. lineage' \in Seq(Fingerprints) /\ Len(lineage') = serving'
  <2>1. PICK p \in Fingerprints : p = <<runs[r].w, runs[r].f>>
    BY <1>9
  <2>2. lineage' = Append(lineage, p)
    BY <2>1 DEF MoveCurrent
  <2> QED BY <1>5, <1>8, <2>2
<1>11. MayStart(Len(runs))'
  BY <1>1, <1>2 DEF BoundedInv, MayStart, CronAt
<1>12. \A c \in Crons : cron'[c].serving <= serving'
  <2> TAKE c \in Crons
  <2>1. cron[c].serving <= serving /\ cron[c].serving \in Nat
    BY CronHolds DEF BoundedInvocations
  <2> QED BY <1>5, <2>1
<1>13. Ended(runs)' = Ended(new)
  BY <1>1 DEF Ended
<1> QED BY <1>1, <1>6, <1>7, <1>10, <1>11, <1>12, <1>13 DEF BoundedInv

\* And every step of a build: a generation that is published takes a build
\* with it.
LEMMA BuildIsBounded ==
  ASSUME BoundedInv, NEW r, RunStep(r) \/ BuildFails(r)
  PROVE  BoundedInv'
<1>1. /\ r \in DOMAIN runs /\ PromotionStays /\ UNCHANGED <<gold, ledger, cron>>
      /\ Fault \/ NoFault
  BY DEF RunStep, FindParent, FoldGold, CollectLineage, PublishCurrent, BuildFails, RunAt, NoFault
<1>2. /\ runs[r] \in BoundedBuilds /\ serving \in Generations
      /\ gold.w \in 0..MaxGold /\ gold.f \in 0..MaxGold
  BY <1>1 DEF BoundedInv, HPTypes
<1>3. CASE ~PublishCurrent(r)
  <2>1. PICK b : /\ runs' = [runs EXCEPT ![r] = b]
                 /\ b \in {[runs[r] EXCEPT !.pc = "fold", !.parent = serving],
                           [runs[r] EXCEPT !.pc = "lineage", !.f = gold.f],
                           [runs[r] EXCEPT !.pc = "lineage", !.blind = @ \cup {"f"}],
                           [runs[r] EXCEPT !.pc = "publish", !.w = gold.w],
                           [runs[r] EXCEPT !.pc = "publish", !.blind = @ \cup {"w"}],
                           Build("failed", runs[r].seen, runs[r].nightly)}
    BY <1>3 DEF RunStep, FindParent, FoldGold, CollectLineage, BuildFails, Ends, Advance
  <2>2. ServingStays /\ runs[r].pc \notin {"ok", "failed"}
    BY <1>3 DEF RunStep, FindParent, FoldGold, CollectLineage, BuildFails, RunAt
  <2>3. PICK blinder \in SUBSET {"w", "f"} : blinder = runs[r].blind \cup {"f"}
    BY <1>2 DEF BoundedBuilds
  <2>4. PICK blindest \in SUBSET {"w", "f"} : blindest = runs[r].blind \cup {"w"}
    BY <1>2 DEF BoundedBuilds
  <2>5. b \in BoundedBuilds
    <3>1. CASE b = Build("failed", runs[r].seen, runs[r].nightly)
      BY <1>2, <3>1, BoundedRests DEF Build, BoundedBuilds, RunStates
    <3>2. CASE b # Build("failed", runs[r].seen, runs[r].nightly)
      BY ZenonT(40), <1>2, <2>1, <2>3, <2>4, <3>2 DEF BoundedBuilds, RunStates
    <3> QED BY <3>1, <3>2
  <2> QED BY <1>1, <2>1, <2>2, <2>5, BuildGoesOnBounded
<1>4. CASE PublishCurrent(r)
  <2>1. PICK pc \in {"ok", "failed"} :
          /\ runs' = [runs EXCEPT ![r] = Build(pc, runs[r].seen, runs[r].nightly)]
          /\ ServingStays \/ MoveCurrent(r)
    BY <1>4 DEF PublishCurrent, Ends, Advance
  <2>2. runs[r].pc = "publish"
    BY <1>4 DEF PublishCurrent, RunAt
  <2>3. PICK b : b = Build(pc, runs[r].seen, runs[r].nightly)
    OBVIOUS
  <2>4. b \in BoundedBuilds /\ b.pc = pc
    BY <1>2, <2>3, BoundedRests DEF Build, BoundedBuilds, RunStates
  <2>5. runs' = [runs EXCEPT ![r] = b]
    BY <2>1, <2>3
  <2>6. CASE ServingStays
    BY <1>1, <2>2, <2>4, <2>5, <2>6, BuildGoesOnBounded
  <2>7. CASE MoveCurrent(r)
    BY <1>1, <2>2, <2>4, <2>5, <2>7, PublicationIsBounded
  <2> QED BY <2>1, <2>6, <2>7
<1> QED BY <1>3, <1>4

\* Every step of the chain keeps them.
LEMMA BoundedStep ==
  ASSUME SoleCron, Deployments # {}, BoundedInv, [PromotionNext \/ RefreshNext]_chainVars
  PROVE  BoundedInv'
<1>1. ASSUME HPTypes', UNCHANGED <<serving, srVars>>
      PROVE  BoundedInv'
  BY <1>1 DEF BoundedInv, srVars, Ended, MayStart, CronAt
<1>2. CASE PromotionNext
  <2>1. HPTypes'
    BY <1>2, PromotionTypesStep DEF PromotionNext, BoundedInv
  <2>2. UNCHANGED <<serving, srVars>>
    BY <1>2 DEF PromotionNext, BackoffEnds, Visit, BootStep, ReadMetadata, StreamDatabase, Die,
         TickStep, Begin, Load, Restart, AskHealth, Health, Save
  <2> QED BY <1>1, <2>1, <2>2
<1>3. CASE UNCHANGED chainVars
  <2>1. HPTypes'
    BY <1>3, OthersKeepTypes DEF BoundedInv, chainVars, hpVars, HPTypes
  <2> QED BY <1>1, <1>3, <2>1 DEF chainVars, hpVars
<1>4. ASSUME ServingStays, PromotionStays, UNCHANGED <<faults, ledger, cron, runs>>,
             gold' \in [{"w", "f"} -> 0..MaxGold]
      PROVE  BoundedInv'
  <2>1. PICK new \in Seq(BoundedBuilds) : new = runs'
    BY <1>4 DEF BoundedInv
  <2>2. /\ ledger' \in Fingerprints /\ cron' \in [Crons -> BoundedInvocations]
        /\ \A c \in Crons : cron'[c].serving <= serving
    BY <1>4 DEF BoundedInv
  <2>3. MayStart(Len(runs))' /\ Ended(runs) \subseteq Ended(new)
    BY <1>4, <2>1 DEF BoundedInv, MayStart, CronAt
  <2> QED BY <1>4, <2>1, <2>2, <2>3, BoundedWithServing DEF NoFault
<1>5. CASE GoldAdvances
  <2>1. gold' \in [{"w", "f"} -> 0..MaxGold]
    <3>1. /\ gold \in [{"w", "f"} -> 0..MaxGold] /\ gold.w \in 0..MaxGold /\ gold.f \in 0..MaxGold
          /\ gold.w + gold.f < MaxGold /\ MaxGold \in Nat
      BY <1>5, SRAssumption DEF GoldAdvances, BoundedInv
    <3>2. gold.w + 1 \in 0..MaxGold /\ gold.f + 1 \in 0..MaxGold
      BY <3>1
    <3>3. PICK k \in {"w", "f"} : gold' = [gold EXCEPT ![k] = @ + 1]
      BY <1>5 DEF GoldAdvances
    <3> QED BY <3>1, <3>2, <3>3
  <2> QED BY <1>4, <1>5, <2>1 DEF GoldAdvances
<1>7. ASSUME NEW c \in Crons, CronStep(c)
      PROVE  BoundedInv'
  <2>1. Crons = {c}
    BY DEF SoleCron
  <2> QED BY <1>7, <2>1, CronIsBounded
<1> QED BY <1>2, <1>3, <1>5, <1>7, BuildIsBounded DEF RefreshNext

\* The promotion's types are those its own runs check.
LEMMA TypedPromotion == HPTypes => HPTypeOK
<1> SUFFICES ASSUME HPTypes PROVE HPTypeOK
  OBVIOUS
<1>1. ASSUME NEW t \in Ticks
      PROVE  tick[t].at \in Deployments /\ tick[t].state \in States /\ tick[t].serving \in Generations
  <2>1. tick[t] \in Tick
    BY DEF HPTypes
  <2> QED BY <2>1 DEF Tick
<1> QED BY <1>1 DEF HPTypes, HPTypeOK, WellFormed, BoxPcs

\* With one cron, every variable of the chain has its type in every reachable
\* state: there are never more Serving generations than builds that ended, so
\* each generation the promotion of hosted-promotion.ts counts restarts for
\* exists.
THEOREM ChainTypeCorrect ==
  ASSUME SoleCron, Deployments # {}
  PROVE  ChainSpec => []ChainTypeOK
<1>1. HPInit /\ SRInit => BoundedInv
  BY InitBounded
<1>2. BoundedInv /\ [PromotionNext \/ RefreshNext]_chainVars => BoundedInv'
  BY BoundedStep
<1>3. BoundedInv => ChainTypeOK
  BY TypedPromotion DEF BoundedInv, ChainTypeOK, MayStart, BoundedBuilds
<1> QED BY <1>1, <1>2, <1>3, PTL DEF ChainSpec

\* The chain: whatever publishes, and whatever fails outside the promotion, a
\* generation restarts the terminal's container once, and once more for each
\* fault (hosted-promotion.ts, runTick, with the builds of
\* watermark-controller.ts as publishers).
THEOREM ChainRestartsAreFew ==
  ASSUME SoleCron, Deployments # {}
  PROVE  ChainSpec => []RestartedOnce
<1>1. HPInit /\ SRInit => BoundedInv /\ RestartInv
  BY InitBounded, InitRestarts
<1>2. BoundedInv /\ RestartInv /\ [PromotionNext \/ RefreshNext]_chainVars
        => (BoundedInv /\ RestartInv)'
  <2> SUFFICES ASSUME BoundedInv, RestartInv, [PromotionNext \/ RefreshNext]_chainVars
               PROVE  BoundedInv' /\ RestartInv'
    OBVIOUS
  <2>1. BoundedInv' /\ HPTypes /\ HPTypes'
    <3>1. BoundedInv'
      BY BoundedStep
    <3> QED BY <3>1 DEF BoundedInv
  <2>2. CASE PromotionNext
    BY <2>1, <2>2, RestartStep DEF PromotionNext, HPNext
  <2>3. CASE RefreshNext \/ UNCHANGED chainVars
    <3>1. PromotionStays /\ serving' \in {serving, serving + 1} /\ (Fault \/ NoFault)
      BY <2>3 DEF RefreshNext, GoldAdvances, CronStep, CronBegins, Reads, ReadThrows,
         Decide, StartBuild, Record, RunStep, FindParent, FoldGold, CollectLineage,
         PublishCurrent, BuildFails, MoveCurrent, ServingStays, chainVars, hpVars,
         PromotionStays, Fault, NoFault
    <3>2. serving \in Nat /\ serving' \in Nat /\ serving' >= serving
      BY <2>1, <3>1, Numbers DEF HPTypes
    <3>3. faults' \in Nat /\ faults' >= faults
      BY <2>1, <3>1, FaultsAreBounded
    <3> QED BY <2>1, <3>1, <3>2, <3>3, RestartsStay DEF PromotionStays
  <2> QED BY <2>1, <2>2, <2>3
<1>3. RestartInv => RestartedOnce
  BY DEF RestartInv, RestartIsPaidFor, RestartedOnce
<1> QED BY <1>1, <1>2, <1>3, PTL DEF ChainSpec
===============================================================================
