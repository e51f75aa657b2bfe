------------------------ MODULE GoldPublication_proofs -------------------------
(***************************************************************************)
(* CURRENT never loses an observation.  An attempt of a job that compares  *)
(* and swaps holds the rows of the CURRENT whose ETag it remembers; ETags  *)
(* only grow, so an attempt that publishes does so over that very CURRENT, *)
(* and all others are left behind.  The jobs that put without a version    *)
(* hold the rows of CURRENT as long as nobody else is at work.             *)
(*                                                                         *)
(* And what is read through CURRENT was verified.  The key of a generation *)
(* is its own, by the attempt's number or, in the factor tape, by the job  *)
(* that planned it; so no later attempt writes other rows under a key that *)
(* was verified, and an attempt that moves CURRENT has verified, or found  *)
(* verified, just what it has in hand (TruthInv).                          *)
(***************************************************************************)
EXTENDS GoldPublication, TLAPS

FactorPcs == {"plan", "putplan", "inputs", "chunk", "commit", "live", "result"}
Pcs == FactorPcs \cup {"off", "parent", "build", "upload", "verify", "move", "publish"}

Attempts ==
  [pc : Pcs, job : JobIds \cup {None}, key : Keys \cup {None}, etag : Nat,
   base : SUBSET source, rows : SUBSET source, left : SUBSET Rows,
   chunk : Rows \cup {None}, status : {"RUNNING"}]

Plans == [etag : Nat, base : SUBSET source, selected : SUBSET source]

Pointers == [key : Keys, rows : SUBSET source, etag : Nat]

\* S holds what CURRENT holds: if it is still the one with this ETag, or, for
\* the jobs that do not compare, as long as nothing has interfered.
Holds(etag, S) ==
  /\ family \in Conditional =>
       /\ etag <= EtagOf(current)
       /\ etag = EtagOf(current) => RowsOf(current) \ unread \subseteq S
  /\ family \notin Conditional /\ ~overlap /\ faults = 0 => RowsOf(current) \subseteq S

PlanIsSound(p) == p \in Plans /\ family = "factor" /\ Holds(p.etag, p.base)

AttemptIsSound(p) ==
  /\ p \in Attempts
  /\ p.pc \in FactorPcs => family = "factor"
  /\ p.pc # "off" => p.job \in JobIds /\ p.key \in Keys
  /\ p.pc \in {"parent", "build"} => family # "factor"
  /\ family = "factor" => p.left \subseteq source
  /\ p.pc = "commit" => p.chunk \in source
  /\ p.pc = "build" /\ family = "terminal" => p.etag <= EtagOf(current)
  /\ p.pc = "inputs" => PlanIsSound(plans[p.job])
  /\ p.pc = "putplan" \/ (p.pc = "build" /\ family \notin Conditional) => Holds(p.etag, p.base)
  /\ p.pc \in {"chunk", "commit", "upload", "verify", "live", "move"} => Holds(p.etag, p.rows)

StoreTypes ==
  /\ source \subseteq Rows
  /\ current = None \/ current \in Pointers
  /\ attempts \in 0..MaxAttempts /\ faults \in Nat /\ overlap \in BOOLEAN
  /\ plans \in [JobIds -> Plans \cup {None}]
  /\ run \in [Runners -> Attempts]

GoldInv ==
  /\ StoreTypes
  /\ \A j \in JobIds : plans[j] = None \/ PlanIsSound(plans[j])
  /\ \A r \in Runners : AttemptIsSound(run[r])
  /\ ~overlap => \A q, r \in Runners : q = r \/ At(q, "off") \/ At(r, "off")

\* What CURRENT has, its ETag and rows.
LEMMA CurrentTypes ==
  ASSUME GoldInv
  PROVE  EtagOf(current) \in Nat /\ RowsOf(current) \subseteq source
BY DEF GoldInv, StoreTypes, Pointers, EtagOf, RowsOf

\* The initial states satisfy it.
LEMMA InitGold == GPInit => GoldInv
<1> SUFFICES ASSUME GPInit PROVE GoldInv
  OBVIOUS
<1>1. Off \in Attempts /\ Off.pc = "off" /\ Off.left = {}
  BY DEF Off, Attempts, Pcs
<1>2. StoreTypes
  <2>1. 0 \in 0..MaxAttempts
    BY GPAssumption
  <2>2. run \in [Runners -> Attempts] /\ plans \in [JobIds -> Plans \cup {None}]
    BY <1>1 DEF GPInit
  <2> QED BY <2>1, <2>2 DEF GPInit, StoreTypes
<1>3. \A r \in Runners : AttemptIsSound(run[r])
  BY <1>1 DEF GPInit, AttemptIsSound, FactorPcs
<1> QED BY <1>1, <1>2, <1>3 DEF GPInit, GoldInv, At

\* What remains true of an attempt or a plan when others go on and CURRENT stays.
LEMMA HoldsOn ==
  ASSUME GoldInv, UNCHANGED <<family, current>>, unread \subseteq unread',
         faults' \in Nat, faults' >= faults, overlap => overlap',
         NEW etag, NEW S, Holds(etag, S)
  PROVE  Holds(etag, S)'
BY DEF Holds, GoldInv, StoreTypes

\* What is sound stays so while neither CURRENT nor the plans change.
LEMMA SoundOn ==
  ASSUME GoldInv, UNCHANGED <<family, current, plans>>, unread \subseteq unread',
         source \subseteq source', source' \subseteq Rows,
         faults' \in Nat, faults' >= faults, overlap => overlap'
  PROVE  /\ \A r \in Runners : AttemptIsSound(run[r]) => \A p : p = run[r] => AttemptIsSound(p)'
         /\ \A j \in JobIds : PlanIsSound(plans[j]) => PlanIsSound(plans[j])'
<1>1. \A p \in Plans : p \in Plans' /\ p.base \subseteq source
  BY DEF Plans
<1>2. \A j \in JobIds : PlanIsSound(plans[j]) => PlanIsSound(plans[j])'
  BY <1>1, HoldsOn DEF PlanIsSound
<1>3. ASSUME NEW r \in Runners, NEW p, p = run[r], AttemptIsSound(p)
      PROVE  AttemptIsSound(p)'
  <2>1. p \in Attempts'
    BY <1>3 DEF AttemptIsSound, Attempts
  <2>2. p.pc = "inputs" => PlanIsSound(plans[p.job])'
    BY <1>2, <1>3 DEF AttemptIsSound
  <2>3. \A S : Holds(p.etag, S) => Holds(p.etag, S)'
    BY HoldsOn
  <2> QED BY <1>3, <2>1, <2>2, <2>3 DEF AttemptIsSound
<1> QED BY <1>2, <1>3

\* One attempt goes on; CURRENT and the plans stay.
LEMMA AttemptGoesOn ==
  ASSUME GoldInv, UNCHANGED <<family, current, plans>>, unread \subseteq unread',
         source \subseteq source', source' \subseteq Rows,
         attempts' \in 0..MaxAttempts, faults' \in Nat, faults' >= faults,
         overlap' \in BOOLEAN, overlap => overlap',
         NEW r \in Runners, NEW p, run' = [run EXCEPT ![r] = p], AttemptIsSound(p)',
         \/ p.pc = "off" \/ ~At(r, "off")
         \/ \A q \in Runners : ~At(q, "off") => overlap'
  PROVE  GoldInv'
<1>1. \A q \in Runners : AttemptIsSound(run[q])'
  <2> TAKE q \in Runners
  <2>1. PICK x : x = run'[q]
    OBVIOUS
  <2>2. AttemptIsSound(x)'
    <3>1. CASE q = r
      BY <2>1, <3>1 DEF GoldInv, StoreTypes
    <3>2. CASE q # r
      BY <2>1, <3>2, SoundOn DEF GoldInv, StoreTypes
    <3> QED BY <3>1, <3>2
  <2> QED BY <2>1, <2>2 DEF AttemptIsSound
<1>2. \A j \in JobIds : plans'[j] = None \/ PlanIsSound(plans[j])'
  BY SoundOn DEF GoldInv
<1>3. StoreTypes'
  <2>1. run' \in [Runners -> Attempts']
    <3>1. \A q \in Runners : run'[q] \in Attempts'
      BY <1>1 DEF AttemptIsSound
    <3> QED BY <3>1 DEF GoldInv, StoreTypes
  <2>2. current' = None \/ current' \in Pointers'
    BY DEF GoldInv, StoreTypes, Pointers
  <2>3. plans' \in [JobIds -> (Plans \cup {None})']
    BY DEF GoldInv, StoreTypes, Plans
  <2> QED BY <2>1, <2>2, <2>3 DEF GoldInv, StoreTypes
<1>4. ~overlap' => \A q, s \in Runners : q = s \/ At(q, "off")' \/ At(s, "off")'
  BY DEF GoldInv, StoreTypes, At
<1> QED BY <1>1, <1>2, <1>3, <1>4 DEF GoldInv

\* An attempt that is over.
LEMMA OffIsSound == AttemptIsSound(Off)'
BY DEF AttemptIsSound, Off, Attempts, Pcs, FactorPcs

\* An attempt that ends, or dies, keeps the invariant.
LEMMA AttemptEnds ==
  ASSUME GoldInv, UNCHANGED <<family, current, plans, source, unread, attempts, overlap>>,
         faults' \in {faults, faults + 1},
         NEW r \in Runners, Become(r, Off)
  PROVE  GoldInv'
<1>1. AttemptIsSound(Off)' /\ Off.pc = "off"
  BY OffIsSound DEF Off
<1>2. run' = [run EXCEPT ![r] = Off]
  BY DEF Become
<1>3. /\ source' \subseteq Rows /\ attempts' \in 0..MaxAttempts
      /\ faults' \in Nat /\ faults' >= faults /\ overlap' \in BOOLEAN
  BY DEF GoldInv, StoreTypes
<1> QED BY <1>1, <1>2, <1>3, AttemptGoesOn

\* An attempt that takes a step by which the world is not changed.
LEMMA AttemptProceeds ==
  ASSUME GoldInv, Quiet, UNCHANGED <<current, plans>>, faults' \in {faults, faults + 1},
         NEW r \in Runners, ~At(r, "off"), NEW p, Become(r, p), AttemptIsSound(p)
  PROVE  GoldInv'
<1> USE DEF Quiet
<1>1. /\ source' \subseteq Rows /\ attempts' \in 0..MaxAttempts
      /\ faults' \in Nat /\ faults' >= faults /\ overlap' \in BOOLEAN
  BY DEF GoldInv, StoreTypes
<1>2. PICK x : x = p
  OBVIOUS
<1>3. AttemptIsSound(x)'
  <2>1. x \in Attempts'
    BY <1>2 DEF AttemptIsSound, Attempts
  <2>2. x.pc = "inputs" => PlanIsSound(plans[x.job])'
    <3>1. ASSUME x.pc = "inputs" PROVE x.job \in JobIds /\ PlanIsSound(plans[x.job])
      BY <1>2, <3>1 DEF AttemptIsSound
    <3> QED BY <1>1, <3>1, SoundOn
  <2>3. \A S : Holds(x.etag, S) => Holds(x.etag, S)'
    BY <1>1, HoldsOn
  <2> QED BY <1>2, <2>1, <2>2, <2>3 DEF AttemptIsSound
<1>4. run' = [run EXCEPT ![r] = x]
  BY <1>2 DEF Become
<1> QED BY <1>1, <1>3, <1>4, AttemptGoesOn

\* The attempt under r, and what a change of its place leaves of it.
LEMMA AttemptTypes ==
  ASSUME GoldInv, NEW r \in Runners
  PROVE  /\ AttemptIsSound(run[r]) /\ run[r] \in Attempts
         /\ \A pc \in Pcs : LET p == [run[r] EXCEPT !.pc = pc] IN
              /\ p \in Attempts /\ p.pc = pc /\ p.job = run[r].job /\ p.key = run[r].key
              /\ p.etag = run[r].etag /\ p.base = run[r].base /\ p.rows = run[r].rows
              /\ p.left = run[r].left
BY DEF GoldInv, StoreTypes, Attempts

\* Observe, Start, Crash and the calls that fail.
LEMMA OutsideStep ==
  ASSUME GoldInv,
         \/ Observe
         \/ \E r \in Runners : Start(r) \/ Crash(r) \/ CallFails(r)
  PROVE  GoldInv'
<1>1. CASE Observe
  <2>1. /\ source \subseteq source' /\ source' \subseteq Rows
        /\ UNCHANGED <<family, current, plans, run, attempts, faults, overlap, unread>>
    BY <1>1 DEF Observe, store, GoldInv, StoreTypes
  <2>2. faults' \in Nat /\ faults' >= faults
    BY <2>1 DEF GoldInv, StoreTypes
  <2>3. \A r \in Runners : AttemptIsSound(run[r])'
    <3> TAKE r \in Runners
    <3>1. PICK x : x = run[r]
      OBVIOUS
    <3>2. AttemptIsSound(x)'
      BY <2>1, <2>2, <3>1, SoundOn DEF GoldInv
    <3> QED BY <2>1, <3>1, <3>2 DEF AttemptIsSound
  <2>4. \A j \in JobIds : plans'[j] = None \/ PlanIsSound(plans[j])'
    BY <2>1, <2>2, SoundOn DEF GoldInv
  <2>5. StoreTypes'
    <3>1. run' \in [Runners -> Attempts']
      BY <2>1, <2>3 DEF AttemptIsSound, GoldInv, StoreTypes
    <3>2. current' = None \/ current' \in Pointers'
      BY <2>1 DEF GoldInv, StoreTypes, Pointers
    <3>3. plans' \in [JobIds -> (Plans \cup {None})']
      BY <2>1 DEF GoldInv, StoreTypes, Plans
    <3> QED BY <2>1, <3>1, <3>2, <3>3 DEF GoldInv, StoreTypes
  <2> QED BY <2>1, <2>3, <2>4, <2>5 DEF GoldInv, At
<1>2. ASSUME NEW r \in Runners, Start(r) PROVE GoldInv'
  <2>1. PICK j \in JobIds :
          run' = [run EXCEPT ![r] =
            [Off EXCEPT !.pc = IF family = "factor" THEN "plan" ELSE "parent",
                        !.job = j, !.key = KeyFor(j, attempts + 1)]]
    BY <1>2 DEF Start, Become
  <2>2. PICK p : p = [Off EXCEPT !.pc = IF family = "factor" THEN "plan" ELSE "parent",
                                 !.job = j, !.key = KeyFor(j, attempts + 1)]
    OBVIOUS
  <2>3. /\ UNCHANGED <<family, current, plans, source, unread, faults>>
        /\ attempts < MaxAttempts /\ attempts' = attempts + 1
        /\ overlap' = (overlap \/ \E q \in Runners : ~At(q, "off"))
    BY <1>2 DEF Start, store
  <2>4. /\ source' \subseteq Rows /\ attempts' \in 0..MaxAttempts
        /\ faults' \in Nat /\ faults' >= faults /\ overlap' \in BOOLEAN
    BY <2>3, GPAssumption DEF GoldInv, StoreTypes
  <2>5. KeyFor(j, attempts + 1) \in Keys
    BY <2>3, <2>4, GPAssumption DEF KeyFor, Keys
  <2>6. /\ p.pc = (IF family = "factor" THEN "plan" ELSE "parent") /\ p.job = j /\ p.key \in Keys
        /\ p \in Attempts' /\ p.left = {}
    BY <2>2, <2>5 DEF Off, Attempts, Pcs, FactorPcs
  <2>7. AttemptIsSound(p)'
    BY <2>3, <2>6 DEF AttemptIsSound, FactorPcs
  <2> QED BY <2>1, <2>2, <2>3, <2>4, <2>7, AttemptGoesOn
<1>3. ASSUME NEW r \in Runners, Crash(r) \/ CallFails(r) PROVE GoldInv'
  BY <1>3, AttemptEnds DEF Crash, CallFails, Fails, Raise, Fault, Quiet, store
<1> QED BY <1>1, <1>2, <1>3

\* The factor tape: what is planned, read and built holds the parent of the plan.
LEMMA FactorStepInv ==
  ASSUME GoldInv, NEW r \in Runners, FactorStep(r)
  PROVE  GoldInv'
<1> DEFINE a == run[r]
<1>1. AttemptIsSound(a) /\ a \in Attempts
  BY AttemptTypes
<1>2. /\ faults' \in {faults, faults + 1} /\ Quiet /\ UNCHANGED current /\ a.pc \in FactorPcs
  BY DEF FactorStep, ReadPlan, PutPlan, FactorInputs, ReadChunk, CommitChunk, BuildTape, ReadLive,
         PutResult, NoFault, Fault, store, At, FactorPcs
<1>3. /\ family = "factor" /\ a.pc # "off" /\ ~At(r, "off")
      /\ a.job \in JobIds /\ a.key \in Keys /\ a.left \subseteq source
  BY <1>1, <1>2 DEF AttemptIsSound, FactorPcs, At
<1>4. a.left \subseteq source /\ a.rows \subseteq source /\ a.base \subseteq source /\ source \subseteq Rows
  BY <1>1, <1>3 DEF Attempts, GoldInv, StoreTypes
<1>5. CASE ReadPlan(r)
  <2>1. UNCHANGED plans
    BY <1>5 DEF ReadPlan, store
  <2>2. CASE plans[a.job] # None
    <3> DEFINE p == [a EXCEPT !.pc = "inputs"]
    <3>1. Become(r, p)
      BY <1>5, <2>2 DEF ReadPlan, Goto
    <3>2. p \in Attempts /\ p.pc = "inputs" /\ p.job = a.job /\ p.key = a.key /\ p.left = a.left
      BY <1>1 DEF Attempts, Pcs, FactorPcs
    <3>3. PlanIsSound(plans[a.job])
      BY <1>3, <2>2 DEF GoldInv
    <3> HIDE DEF p
    <3>4. AttemptIsSound(p)
      BY <1>3, <3>2, <3>3 DEF AttemptIsSound, FactorPcs
    <3> QED BY <1>2, <1>3, <2>1, <3>1, <3>4, AttemptProceeds
  <2>3. CASE plans[a.job] = None
    <3>1. PICK s \in Selections(source, RowsOf(current)) :
            Become(r, [a EXCEPT !.pc = "putplan", !.etag = EtagOf(current),
                                !.base = RowsOf(current), !.left = s])
      BY <1>5, <2>3 DEF ReadPlan
    <3> DEFINE p == [a EXCEPT !.pc = "putplan", !.etag = EtagOf(current),
                              !.base = RowsOf(current), !.left = s]
    <3>2. s \subseteq source
      BY DEF Selections
    <3>3. /\ p \in Attempts /\ p.pc = "putplan" /\ p.job = a.job /\ p.key = a.key /\ p.left = s
          /\ p.etag = EtagOf(current) /\ p.base = RowsOf(current)
      BY <1>1, <1>4, <3>2, CurrentTypes DEF Attempts, Pcs, FactorPcs
    <3> HIDE DEF p
    <3>4. Holds(p.etag, p.base)
      BY <1>3, <3>3, CurrentTypes DEF Holds, Conditional
    <3>5. AttemptIsSound(p)
      BY <1>3, <3>2, <3>3, <3>4 DEF AttemptIsSound, FactorPcs
    <3> QED BY <1>2, <1>3, <2>1, <3>1, <3>5, AttemptProceeds DEF p
  <2> QED BY <2>2, <2>3
<1>6. CASE PutPlan(r)
  <2>1. CASE plans[a.job] = None
    <3> DEFINE new == [etag |-> a.etag, base |-> a.base, selected |-> a.left]
               p == [a EXCEPT !.pc = "inputs"]
    <3>1. plans' = [plans EXCEPT ![a.job] = new] /\ run' = [run EXCEPT ![r] = p]
          /\ UNCHANGED <<faults, family, current, source, unread, overlap, attempts>>
      BY <1>6, <2>1 DEF PutPlan, NoFault, Goto, Become, Quiet
    <3>2. Holds(a.etag, a.base)
      BY <1>1, <1>6 DEF AttemptIsSound, PutPlan, At
    <3>3. new \in Plans /\ new.etag = a.etag /\ new.base = a.base
      BY <1>1, <1>4 DEF Plans, Attempts
    <3> HIDE DEF new
    <3>4. PlanIsSound(new)
      BY <1>3, <3>2, <3>3 DEF PlanIsSound
    <3>5. \A j \in JobIds : plans'[j] = new \/ plans'[j] = plans[j]
      BY <3>1 DEF GoldInv, StoreTypes
    <3>6. plans'[a.job] = new
      BY <1>3, <3>1 DEF GoldInv, StoreTypes
    <3>8. \A j \in JobIds : plans'[j] = None \/ PlanIsSound(plans[j])'
      BY <3>1, <3>4, <3>5 DEF GoldInv, PlanIsSound, Plans, Holds
    <3>9. \A j \in JobIds : PlanIsSound(plans[j]) => PlanIsSound(plans[j])'
      BY <3>1, <3>4, <3>5 DEF PlanIsSound, Plans, Holds
    <3>10. PlanIsSound(plans[a.job])'
      BY <3>1, <3>4, <3>6 DEF PlanIsSound, Plans, Holds
    <3>11. p \in Attempts /\ p.pc = "inputs" /\ p.job = a.job /\ p.key = a.key /\ p.left = a.left
      BY <1>1 DEF Attempts, Pcs, FactorPcs
    <3> HIDE DEF p
    <3>12. \A q \in Runners : run'[q] = p \/ run'[q] = run[q]
      BY <3>1 DEF GoldInv, StoreTypes
    <3>13. \A q \in Runners : AttemptIsSound(run[q])'
      <4> TAKE q \in Runners
      <4>1. CASE run'[q] = p
        BY <1>3, <3>1, <3>10, <3>11, <4>1 DEF AttemptIsSound, Attempts, FactorPcs
      <4>2. CASE run'[q] = run[q]
        <5>1. AttemptIsSound(run[q])
          BY DEF GoldInv
        <5>2. run[q].pc = "inputs" => PlanIsSound(plans[run[q].job])'
          <6> SUFFICES ASSUME run[q].pc = "inputs"
                       PROVE  PlanIsSound(plans[run[q].job])'
            OBVIOUS
          <6>1. run[q].job \in JobIds /\ PlanIsSound(plans[run[q].job])
            BY <5>1 DEF AttemptIsSound
          <6> QED BY <3>9, <4>2, <6>1
        <5> QED BY <3>1, <4>2, <5>1, <5>2 DEF AttemptIsSound, Attempts, Holds
      <4> QED BY <3>12, <4>1, <4>2
    <3>14. StoreTypes'
      <4>1. run' \in [Runners -> Attempts']
        BY <3>1, <3>13 DEF AttemptIsSound, GoldInv, StoreTypes
      <4>2. plans' \in [JobIds -> (Plans \cup {None})']
        BY <3>1, <3>3 DEF GoldInv, StoreTypes, Plans
      <4> QED BY <3>1, <4>1, <4>2 DEF GoldInv, StoreTypes, Pointers
    <3>15. \A q \in Runners : At(q, "off")' <=> At(q, "off")
      BY <1>3, <3>1, <3>11 DEF At, GoldInv, StoreTypes
    <3> QED BY <3>1, <3>8, <3>13, <3>14, <3>15 DEF GoldInv
  <2>2. CASE plans[a.job] # None
    BY <1>2, <1>6, <2>2, AttemptEnds DEF PutPlan, Raise, Quiet
  <2> QED BY <2>1, <2>2
<1>7. CASE FactorInputs(r)
  <2> DEFINE plan == plans[a.job]
             p == [a EXCEPT !.pc = "chunk", !.etag = plan.etag, !.base = plan.base,
                            !.rows = plan.base, !.left = plan.selected]
  <2>1. UNCHANGED plans /\ (Become(r, Off) \/ Become(r, p))
    BY <1>7 DEF FactorInputs, store
  <2>2. PlanIsSound(plan)
    BY <1>1, <1>7 DEF AttemptIsSound, FactorInputs, At
  <2>3. plan.etag \in Nat /\ plan.base \subseteq source /\ plan.selected \subseteq source
    BY <2>2 DEF PlanIsSound, Plans
  <2> HIDE DEF plan
  <2>4. /\ p \in Attempts /\ p.pc = "chunk" /\ p.job = a.job /\ p.key = a.key
        /\ p.left = plan.selected /\ p.etag = plan.etag /\ p.rows = plan.base
    BY <1>1, <1>4, <2>3 DEF Attempts, Pcs, FactorPcs
  <2> HIDE DEF p
  <2>5. AttemptIsSound(p)
    BY <1>3, <2>2, <2>3, <2>4 DEF AttemptIsSound, FactorPcs, PlanIsSound
  <2>6. CASE Become(r, Off)
    BY <1>2, <2>1, <2>6, AttemptEnds DEF Quiet
  <2>7. CASE Become(r, p)
    BY <1>2, <1>3, <2>1, <2>5, <2>7, AttemptProceeds
  <2> QED BY <2>1, <2>6, <2>7
<1>8. ASSUME a.pc \in {"chunk", "commit"}, NEW x \in source, UNCHANGED plans,
             Become(r, [a EXCEPT !.pc = "chunk", !.rows = @ \cup {x}, !.left = @ \ {x}])
      PROVE  GoldInv'
  <2> DEFINE p == [a EXCEPT !.pc = "chunk", !.rows = @ \cup {x}, !.left = @ \ {x}]
  <2>1. a.rows \cup {x} \subseteq source /\ a.left \ {x} \subseteq Rows
    BY <1>4, <1>8
  <2>2. /\ p \in Attempts /\ p.pc = "chunk" /\ p.job = a.job /\ p.key = a.key
        /\ p.left \subseteq source /\ p.etag = a.etag /\ a.rows \subseteq p.rows
    BY <1>1, <1>4, <2>1 DEF Attempts, Pcs, FactorPcs
  <2> HIDE DEF p
  <2>3. Holds(a.etag, a.rows)
    BY <1>1, <1>8 DEF AttemptIsSound
  <2>4. Holds(p.etag, p.rows)
    BY <2>2, <2>3 DEF Holds
  <2>5. AttemptIsSound(p)
    BY <1>3, <2>2, <2>4 DEF AttemptIsSound, FactorPcs
  <2> QED BY <1>2, <1>3, <1>8, <2>5, AttemptProceeds DEF p
<1>9. CASE ReadChunk(r)
  <2>1. PICK x \in a.left :
          Become(r, ReuseChunk(r, x)) \/ Become(r, [a EXCEPT !.pc = "commit", !.chunk = x])
    BY <1>9 DEF ReadChunk
  <2>2. a.pc = "chunk" /\ UNCHANGED plans /\ x \in source /\ x \in Rows
    BY <1>4, <1>9 DEF ReadChunk, At, store
  <2>3. CASE Become(r, ReuseChunk(r, x))
    <3>1. ReuseChunk(r, x) = [a EXCEPT !.pc = "chunk", !.rows = @ \cup {x}, !.left = @ \ {x}]
      BY <1>1, <2>2 DEF ReuseChunk, Attempts
    <3> QED BY <1>8, <2>2, <2>3, <3>1
  <2>4. CASE Become(r, [a EXCEPT !.pc = "commit", !.chunk = x])
    <3> DEFINE p == [a EXCEPT !.pc = "commit", !.chunk = x]
    <3>1. /\ p \in Attempts /\ p.pc = "commit" /\ p.job = a.job /\ p.key = a.key /\ p.chunk = x
          /\ p.left = a.left /\ p.etag = a.etag /\ p.rows = a.rows
      BY <1>1, <2>2 DEF Attempts, Pcs, FactorPcs
    <3> HIDE DEF p
    <3>2. Holds(a.etag, a.rows)
      BY <1>1, <2>2 DEF AttemptIsSound
    <3>3. AttemptIsSound(p)
      BY <1>3, <2>2, <3>1, <3>2 DEF AttemptIsSound, FactorPcs
    <3> QED BY <1>2, <1>3, <2>2, <2>4, <3>3, AttemptProceeds DEF p
  <2> QED BY <2>1, <2>3, <2>4
<1>10. CASE CommitChunk(r)
  <2>1. a.chunk \in source /\ a.pc = "commit" /\ UNCHANGED plans
    BY <1>1, <1>10 DEF CommitChunk, AttemptIsSound, At
  <2>2. CASE Become(r, [a EXCEPT !.pc = "chunk", !.rows = @ \cup {a.chunk},
                                 !.left = @ \ {a.chunk}])
    BY <1>8, <2>1, <2>2
  <2>3. CASE Become(r, Off)
    BY <1>2, <2>1, <2>3, AttemptEnds DEF Quiet
  <2> QED BY <1>10, <2>2, <2>3 DEF CommitChunk, Raise
<1>11. CASE BuildTape(r) \/ ReadLive(r)
  <2>1. PICK pc \in {"upload", "publish", "move", "off"} :
          IF pc = "off" THEN Become(r, Off) ELSE Goto(r, pc)
    BY <1>11 DEF BuildTape, ReadLive, OverPlannedParent, Raise
  <2>2. UNCHANGED plans /\ a.pc \in {"chunk", "live"}
    BY <1>11 DEF BuildTape, ReadLive, store, At
  <2>3. CASE pc = "off"
    BY <1>2, <2>1, <2>2, <2>3, AttemptEnds DEF Quiet
  <2>4. CASE pc # "off"
    <3> DEFINE p == [a EXCEPT !.pc = pc]
    <3>1. /\ p \in Attempts /\ p.pc = pc /\ p.job = a.job /\ p.key = a.key
          /\ p.left = a.left /\ p.etag = a.etag /\ p.rows = a.rows
      BY AttemptTypes DEF Pcs
    <3> HIDE DEF p
    <3>2. Holds(a.etag, a.rows)
      BY <1>1, <2>2 DEF AttemptIsSound
    <3>3. AttemptIsSound(p)
      BY <1>3, <2>4, <3>1, <3>2 DEF AttemptIsSound, FactorPcs
    <3> QED BY <1>2, <1>3, <2>1, <2>2, <2>4, <3>3, AttemptProceeds DEF Goto, p
  <2> QED BY <2>3, <2>4
<1>12. CASE PutResult(r)
  BY <1>2, <1>12, AttemptEnds DEF PutResult, Raise, Quiet
<1> QED BY <1>5, <1>6, <1>7, <1>9, <1>10, <1>11, <1>12 DEF FactorStep

\* A build that may take what it could not read for missing.
LEMMA AssembleInv ==
  ASSUME GoldInv, NEW r \in Runners, NEW next \in {"upload", "move"},
         family \in {"terminal", "sentiment", "scoreboard"},
         run[r].pc \in {"parent", "build"}, family = "terminal" => run[r].pc = "build",
         Assemble(r, next)
  PROVE  GoldInv'
<1> DEFINE a == run[r]
<1>1. AttemptIsSound(a) /\ a \in Attempts /\ a.job \in JobIds /\ a.key \in Keys
  BY AttemptTypes DEF AttemptIsSound
<1>2. UNCHANGED <<family, current, plans, source, attempts, overlap>>
  BY DEF Assemble, store
<1>3. /\ source' \subseteq Rows /\ attempts' \in 0..MaxAttempts /\ source \subseteq Rows
      /\ overlap' \in BOOLEAN /\ faults \in Nat
  BY <1>2 DEF GoldInv, StoreTypes
<1>4. ASSUME NEW rows \in SUBSET source, NEW pc \in {"upload", "move"},
             Become(r, [a EXCEPT !.pc = pc, !.rows = rows]),
             faults' \in {faults, faults + 1}, unread \subseteq unread',
             source \ unread' \subseteq rows, faults' = 0 => rows = source
      PROVE  GoldInv'
  <2>1. PICK p : p = [a EXCEPT !.pc = pc, !.rows = rows]
    OBVIOUS
  <2>2. /\ p \in Attempts /\ p.pc = pc /\ p.job = a.job /\ p.key = a.key
        /\ p.etag = a.etag /\ p.rows = rows
    BY <1>1, <2>1 DEF Attempts, Pcs
  <2>3. family = "terminal" => p.etag <= EtagOf(current)
    BY <1>1, <2>2 DEF AttemptIsSound
  <2>4. Holds(p.etag, rows)'
    BY <1>2, <1>4, <2>3, CurrentTypes DEF Holds, Conditional, EtagOf, RowsOf
  <2>5. AttemptIsSound(p)'
    BY <1>1, <1>2, <2>2, <2>4 DEF AttemptIsSound, Attempts, FactorPcs
  <2>6. run' = [run EXCEPT ![r] = p]
    BY <1>4, <2>1 DEF Become
  <2>7. ~At(r, "off")
    BY DEF At
  <2>8. faults' \in Nat /\ faults' >= faults
    BY <1>3, <1>4
  <2> QED BY <1>2, <1>3, <1>4, <2>5, <2>6, <2>7, <2>8, AttemptGoesOn
<1>5. CASE NoFault /\ Become(r, [a EXCEPT !.pc = next, !.rows = source]) /\ UNCHANGED unread
  <2>1. source \in SUBSET source /\ faults' = faults /\ unread' = unread
    BY <1>5 DEF NoFault
  <2> QED BY <1>4, <1>5, <2>1
<1>6. ASSUME Fault, NEW x \in source,
             Become(r, [a EXCEPT !.pc = "upload", !.rows = source \ {x}]),
             unread' = unread \cup {x}
      PROVE  GoldInv'
  <2>1. faults' = faults + 1 /\ faults' # 0
    BY <1>3, <1>6 DEF Fault
  <2>2. source \ {x} \in SUBSET source /\ source \ unread' \subseteq source \ {x}
    BY <1>6
  <2> QED BY <1>4, <1>6, <2>1, <2>2
<1> QED BY <1>5, <1>6 DEF Assemble

\* The parent is read, or taken for missing when a call fails.
LEMMA ReadParentInv ==
  ASSUME GoldInv, NEW r \in Runners, NEW completed,
         family \notin Conditional, ReadParent(r, completed)
  PROVE  GoldInv'
<1> DEFINE a == run[r]
<1>1. AttemptIsSound(a) /\ a \in Attempts /\ a.pc = "parent" /\ a.job \in JobIds /\ a.key \in Keys
  BY AttemptTypes DEF AttemptIsSound, ReadParent, At
<1>2. UNCHANGED <<family, current, plans, source, attempts, overlap, unread>>
  BY DEF ReadParent, store, Quiet
<1>3. /\ source' \subseteq Rows /\ attempts' \in 0..MaxAttempts /\ source \subseteq Rows
      /\ overlap' \in BOOLEAN /\ faults \in Nat
  BY <1>2 DEF GoldInv, StoreTypes
<1>4. ASSUME NEW base \in SUBSET source, NEW left \in SUBSET Rows,
             NEW p, p = [a EXCEPT !.pc = "build", !.left = left, !.base = base], Become(r, p),
             faults' \in {faults, faults + 1}, faults' = 0 => base = RowsOf(current)
      PROVE  GoldInv'
  <2>1. PICK q : q = p
    OBVIOUS
  <2>2. /\ q \in Attempts /\ q.pc = "build" /\ q.job = a.job /\ q.key = a.key /\ q.base = base
    BY <1>1, <1>4, <2>1 DEF Attempts, Pcs
  <2>3. Holds(q.etag, base)'
    BY <1>2, <1>4 DEF Holds, RowsOf
  <2>4. AttemptIsSound(q)'
    BY <1>1, <1>2, <2>2, <2>3 DEF AttemptIsSound, Attempts, FactorPcs, Conditional
  <2>5. run' = [run EXCEPT ![r] = q]
    BY <1>4, <2>1 DEF Become
  <2>6. ~At(r, "off")
    BY <1>1 DEF At
  <2>7. faults' \in Nat /\ faults' >= faults
    BY <1>3, <1>4
  <2> QED BY <1>2, <1>3, <2>4, <2>5, <2>6, <2>7, AttemptGoesOn
<1>5. RowsOf(current) \in SUBSET source /\ Rows \ completed \in SUBSET Rows /\ Rows \in SUBSET Rows
      /\ a.base \in SUBSET source
  BY <1>1, CurrentTypes DEF Attempts
<1> DEFINE p == [a EXCEPT !.pc = "build", !.left = Rows \ completed]
<1>6. CASE NoFault /\ Become(r, [p EXCEPT !.base = RowsOf(current)])
  <2>1. [p EXCEPT !.base = RowsOf(current)]
          = [a EXCEPT !.pc = "build", !.left = Rows \ completed, !.base = RowsOf(current)]
    BY <1>1 DEF Attempts
  <2>2. faults' = faults
    BY <1>6 DEF NoFault
  <2> QED BY <1>4, <1>5, <1>6, <2>1, <2>2
<1>7. CASE Fault /\ Become(r, p)
  <2>1. p = [a EXCEPT !.pc = "build", !.left = Rows \ completed, !.base = a.base]
    BY <1>1 DEF Attempts
  <2>2. faults' = faults + 1 /\ faults' # 0
    BY <1>3, <1>7 DEF Fault
  <2> HIDE DEF p
  <2> QED BY <1>4, <1>5, <1>7, <2>1, <2>2
<1>8. CASE Fault /\ Become(r, [p EXCEPT !.base = RowsOf(current), !.left = Rows])
  <2>1. [p EXCEPT !.base = RowsOf(current), !.left = Rows]
          = [a EXCEPT !.pc = "build", !.left = Rows, !.base = RowsOf(current)]
    BY <1>1 DEF Attempts
  <2>2. faults' = faults + 1 /\ faults' # 0
    BY <1>3, <1>8 DEF Fault
  <2> QED BY <1>4, <1>5, <1>8, <2>1, <2>2
<1> QED BY <1>6, <1>7, <1>8 DEF ReadParent

\* What is fetched is kept beside the parent.
LEMMA FetchInv ==
  ASSUME GoldInv, NEW r \in Runners, At(r, "build"), Quiet, UNCHANGED <<current, plans>>,
         family \notin Conditional, faults' \in {faults, faults + 1},
         NEW rows \in SUBSET source, NEW left \in SUBSET Rows,
         Become(r, [run[r] EXCEPT !.left = left, !.rows = rows])
  PROVE  GoldInv'
<1> DEFINE p == [run[r] EXCEPT !.left = left, !.rows = rows]
<1>1. AttemptIsSound(run[r]) /\ run[r] \in Attempts /\ run[r].pc = "build"
  BY AttemptTypes DEF At
<1>2. family # "factor" /\ family # "terminal" /\ Holds(run[r].etag, run[r].base)
  BY <1>1 DEF Conditional, AttemptIsSound
<1>3. /\ p \in Attempts /\ p.pc = "build" /\ p.job = run[r].job /\ p.key = run[r].key
      /\ p.base = run[r].base /\ p.etag = run[r].etag
  BY <1>1 DEF Attempts
<1> HIDE DEF p
<1>4. AttemptIsSound(p)
  BY <1>1, <1>2, <1>3 DEF AttemptIsSound, FactorPcs
<1>5. ~At(r, "off") /\ Become(r, p)
  BY <1>1 DEF At, p
<1> QED BY <1>4, <1>5, AttemptProceeds

\* The jobs that rebuild, and those that merge.
LEMMA BuildStepInv ==
  ASSUME GoldInv, NEW r \in Runners, BuildStep(r)
  PROVE  GoldInv'
<1> DEFINE a == run[r]
<1>1. AttemptIsSound(a) /\ a \in Attempts /\ source \subseteq Rows /\ faults \in Nat
  BY AttemptTypes DEF GoldInv, StoreTypes
<1>2. CASE TerminalBegin(r)
  <2> DEFINE p == [a EXCEPT !.pc = "build", !.etag = EtagOf(current)]
  <2>1. /\ family = "terminal" /\ a.pc = "parent" /\ Become(r, p) /\ Quiet
        /\ UNCHANGED <<current, plans>> /\ faults' \in {faults, faults + 1} /\ ~At(r, "off")
    BY <1>2 DEF TerminalBegin, ServingVersion, NoFault, store, At
  <2>2. /\ p \in Attempts /\ p.pc = "build" /\ p.job = a.job /\ p.key = a.key
        /\ p.etag = EtagOf(current)
    BY <1>1, CurrentTypes DEF Attempts, Pcs
  <2> HIDE DEF p
  <2>3. AttemptIsSound(p)
    BY <1>1, <2>1, <2>2, CurrentTypes DEF AttemptIsSound, FactorPcs, Conditional
  <2> QED BY <2>1, <2>3, AttemptProceeds
<1>3. CASE TerminalBuild(r) \/ SentimentBuild(r) \/ ScoreboardBuild(r)
  <2>1. PICK next \in {"upload", "move"} :
          /\ Assemble(r, next) /\ family \in {"terminal", "sentiment", "scoreboard"}
          /\ a.pc \in {"parent", "build"} /\ (family = "terminal" => a.pc = "build")
    BY <1>3 DEF TerminalBuild, SentimentBuild, ScoreboardBuild, At
  <2> QED BY <2>1, AssembleInv
<1>4. CASE IdentityBuild(r)
  <2> DEFINE p == [a EXCEPT !.pc = "upload", !.rows = source]
  <2>1. /\ family = "identity" /\ a.pc = "parent" /\ Become(r, p) /\ Quiet
        /\ UNCHANGED <<current, plans>> /\ faults' \in {faults, faults + 1} /\ ~At(r, "off")
    BY <1>4 DEF IdentityBuild, NoFault, store, At
  <2>2. /\ p \in Attempts /\ p.pc = "upload" /\ p.job = a.job /\ p.key = a.key /\ p.rows = source
    BY <1>1 DEF Attempts, Pcs
  <2> HIDE DEF p
  <2>3. AttemptIsSound(p)
    BY <1>1, <2>1, <2>2, CurrentTypes DEF AttemptIsSound, FactorPcs, Conditional, Holds
  <2> QED BY <2>1, <2>3, AttemptProceeds
<1>5. CASE WikimediaParent(r) \/ SocialParent(r) \/ SpotifyParent(r)
  <2>1. PICK completed : ReadParent(r, completed) /\ family \notin Conditional
    BY <1>5 DEF WikimediaParent, SocialParent, SpotifyParent, Conditional
  <2> QED BY <2>1, ReadParentInv
<1>6. CASE WikimediaFetch(r) \/ SocialFetch(r) \/ SpotifyFetch(r)
  <2>1. /\ At(r, "build") /\ Quiet /\ UNCHANGED <<current, plans>> /\ family \notin Conditional
    BY <1>6 DEF WikimediaFetch, SocialFetch, SpotifyFetch, FetchCheckpointed, store, Conditional
  <2>2. ASSUME NEW x \in a.left, NEW got \in SUBSET source, Become(r, Fetched(r, x, got)),
               faults' \in {faults, faults + 1}
        PROVE  GoldInv'
    <3>1. a.rows \cup got \in SUBSET source /\ a.left \ {x} \in SUBSET Rows
      BY <1>1 DEF Attempts
    <3>2. Become(r, [a EXCEPT !.left = a.left \ {x}, !.rows = a.rows \cup got])
      BY <1>1, <2>2 DEF Fetched, Attempts
    <3> QED BY <2>1, <2>2, <3>1, <3>2, FetchInv
  <2>3. ASSUME NEW has \in SUBSET source, FetchCheckpointed(r, has) PROVE GoldInv'
    <3>1. PICK x \in a.left :
            \/ NoFault /\ Become(r, Fetched(r, x, {x} \cap has))
            \/ Fault /\ Become(r, Fetched(r, x, {}))
      BY <2>3 DEF FetchCheckpointed
    <3>2. {x} \cap has \in SUBSET source /\ {} \in SUBSET source
      OBVIOUS
    <3>3. faults' \in {faults, faults + 1}
      BY <3>1 DEF NoFault, Fault
    <3> QED BY <2>2, <3>1, <3>2, <3>3
  <2>4. CASE SpotifyFetch(r)
    <3>1. PICK x \in a.left :
            \/ NoFault /\ Become(r, Fetched(r, x, {x} \cap source))
            \/ Fault /\ Become(r, [a EXCEPT !.left = {}])
      BY <2>4 DEF SpotifyFetch
    <3>2. faults' \in {faults, faults + 1}
      BY <3>1 DEF NoFault, Fault
    <3>3. CASE Become(r, Fetched(r, x, {x} \cap source))
      <4>1. {x} \cap source \in SUBSET source
        OBVIOUS
      <4> QED BY <2>2, <3>2, <3>3, <4>1
    <3>4. CASE Become(r, [a EXCEPT !.left = {}])
      <4>1. [a EXCEPT !.left = {}] = [a EXCEPT !.left = {}, !.rows = a.rows]
        BY <1>1 DEF Attempts
      <4>2. a.rows \in SUBSET source /\ {} \in SUBSET Rows
        BY <1>1 DEF Attempts
      <4> QED BY <2>1, <3>2, <3>4, <4>1, <4>2, FetchInv
    <3> QED BY <3>1, <3>3, <3>4
  <2>5. source \ a.base \in SUBSET source /\ source \in SUBSET source
    OBVIOUS
  <2> QED BY <1>6, <2>3, <2>4, <2>5 DEF WikimediaFetch, SocialFetch
<1>7. CASE WikimediaMerge(r) \/ SocialMerge(r) \/ SpotifyMerge(r)
  <2>1. MergeParent(r) /\ family \notin Conditional
    BY <1>7 DEF WikimediaMerge, SocialMerge, SpotifyMerge, Conditional
  <2>2. /\ a.pc = "build" /\ Quiet /\ UNCHANGED <<current, plans>> /\ faults' \in {faults, faults + 1}
        /\ ~At(r, "off")
    BY <2>1 DEF MergeParent, NoFault, At
  <2>3. CASE Become(r, Off)
    BY <2>2, <2>3, AttemptEnds DEF Quiet
  <2>4. CASE Become(r, [a EXCEPT !.pc = "upload", !.rows = Merge(a.base, @)])
    <3> DEFINE p == [a EXCEPT !.pc = "upload", !.rows = Merge(a.base, @)]
    <3>1. a.base \cup a.rows \in SUBSET source
      BY <1>1 DEF Attempts
    <3>2. /\ p \in Attempts /\ p.pc = "upload" /\ p.job = a.job /\ p.key = a.key
          /\ p.etag = a.etag /\ a.base \subseteq p.rows
      BY <1>1, <3>1 DEF Attempts, Pcs, Merge
    <3> HIDE DEF p
    <3>3. Holds(p.etag, p.rows)
      BY <1>1, <2>1, <2>2, <3>2 DEF AttemptIsSound, Holds
    <3>4. AttemptIsSound(p)
      BY <1>1, <2>1, <2>2, <3>2, <3>3 DEF AttemptIsSound, FactorPcs, Conditional
    <3> QED BY <2>2, <2>4, <3>4, AttemptProceeds DEF p
  <2> QED BY <2>1, <2>3, <2>4 DEF MergeParent
<1> QED BY <1>2, <1>3, <1>4, <1>5, <1>6, <1>7 DEF BuildStep

\* The generation is uploaded, verified and recorded; CURRENT stays.
LEMMA RecordInv ==
  ASSUME GoldInv, NEW r \in Runners, Upload(r) \/ Verify(r) \/ Publish(r)
  PROVE  GoldInv'
<1> DEFINE a == run[r]
<1>1. AttemptIsSound(a) /\ a \in Attempts
  BY AttemptTypes
<1>2. /\ UNCHANGED <<family, current, plans, source, unread, attempts, overlap>>
      /\ a.pc \in {"upload", "verify", "publish"}
  BY DEF Upload, Verify, Publish, Quiet, At
<1>3. faults' \in {faults, faults + 1}
  BY DEF Upload, Verify, Publish, NoFault, Fault
<1>4. PICK pc \in {"off", "move", "verify", "live", "publish", "result"} :
        /\ IF pc = "off" THEN Become(r, Off) ELSE Goto(r, pc)
        /\ pc \in {"move", "verify", "live"} => a.pc \in {"upload", "verify"}
        /\ pc \in {"live", "result"} => family = "factor"
  <2>1. CASE Upload(r)
    BY <2>1 DEF Upload, Raise, At
  <2>2. CASE Verify(r)
    BY <2>2 DEF Verify, Raise, At
  <2>3. CASE Publish(r)
    BY <2>3 DEF Publish, Raise, At
  <2> QED BY <2>1, <2>2, <2>3
<1>5. CASE pc = "off"
  BY <1>2, <1>3, <1>4, <1>5, AttemptEnds
<1>6. CASE pc # "off"
  <2>1. PICK p : p = [a EXCEPT !.pc = pc]
    OBVIOUS
  <2>2. run' = [run EXCEPT ![r] = p]
    BY <1>4, <1>6, <2>1 DEF Goto, Become
  <2>3. /\ p \in Attempts /\ p.pc = pc /\ p.job = a.job /\ p.key = a.key
        /\ p.left = a.left /\ p.etag = a.etag /\ p.rows = a.rows
    BY ZenonT(40), <2>1, AttemptTypes DEF Pcs, FactorPcs
  <2>4. /\ source' \subseteq Rows /\ attempts' \in 0..MaxAttempts
        /\ faults' \in Nat /\ faults' >= faults /\ overlap' \in BOOLEAN
    BY <1>2, <1>3 DEF GoldInv, StoreTypes
  <2>5. pc \in {"move", "verify", "live"} => Holds(p.etag, p.rows)
    BY <1>1, <1>4, <2>3 DEF AttemptIsSound
  <2>6. pc \in {"move", "verify", "live"} => Holds(p.etag, p.rows)'
    BY <1>2, <2>4, <2>5, HoldsOn
  <2>7. AttemptIsSound(p)'
    BY <1>1, <1>2, <1>4, <1>6, <2>3, <2>6 DEF AttemptIsSound, Attempts, FactorPcs
  <2>8. ~At(r, "off")
    BY <1>2 DEF At
  <2> QED BY <1>2, <2>2, <2>4, <2>7, <2>8, AttemptGoesOn
<1> QED BY <1>5, <1>6

\* What CURRENT names after a move, one ETag further.
LEMMA MovedCurrent ==
  ASSUME GoldInv, NEW r \in Runners, run[r].key \in Keys, Moves(r), UNCHANGED source
  PROVE  /\ current' \in Pointers'
         /\ EtagOf(current)' = EtagOf(current) + 1 /\ RowsOf(current)' = run[r].rows
<1>1. run[r].rows \in SUBSET source /\ source \subseteq Rows /\ EtagOf(current) \in Nat
  BY AttemptTypes, CurrentTypes DEF Attempts, GoldInv, StoreTypes
<1>2. current' = [key |-> run[r].key, rows |-> run[r].rows, etag |-> EtagOf(current) + 1]
  BY DEF Moves, Named
<1>3. current' \in [key : Keys, rows : SUBSET Rows, etag : Nat] /\ current' \in Pointers'
  BY <1>1, <1>2 DEF Pointers
<1>4. current' # None
  BY <1>3, NoneAssumption
<1>5. EtagOf(current)' = current'.etag /\ RowsOf(current)' = current'.rows
  BY <1>4 DEF EtagOf, RowsOf
<1>6. current'.etag = EtagOf(current) + 1 /\ current'.rows = run[r].rows
  BY <1>2
<1> QED BY <1>3, <1>5, <1>6

\* CURRENT moves: who holds an older ETag is left behind, and who holds none
\* is at rest or has been overlapped.
LEMMA MoveInv ==
  ASSUME GoldInv, NEW r \in Runners, At(r, "move"), Moves(r),
         UNCHANGED <<family, plans, source, unread, attempts, overlap>>,
         faults' \in {faults, faults + 1},
         NEW pc \in {"off", "publish", "verify"},
         IF pc = "off" THEN Become(r, Off) ELSE Goto(r, pc),
         pc = "verify" => family \notin Conditional
  PROVE  GoldInv'
<1>1. AttemptIsSound(run[r]) /\ run[r].job \in JobIds /\ run[r].key \in Keys
  BY AttemptTypes DEF At, AttemptIsSound
<1>2. /\ current' \in Pointers'
      /\ EtagOf(current)' = EtagOf(current) + 1 /\ RowsOf(current)' = run[r].rows
      /\ EtagOf(current) \in Nat
  BY <1>1, MovedCurrent, CurrentTypes
<1>3. PICK p : p = IF pc = "off" THEN Off ELSE [run[r] EXCEPT !.pc = pc]
  OBVIOUS
<1>4. run' = [run EXCEPT ![r] = p]
  BY <1>3 DEF Become, Goto
<1>5. /\ p \in Attempts /\ p.pc = pc
      /\ pc # "off" => p.job = run[r].job /\ p.key = run[r].key /\ p.rows = run[r].rows /\ p.left = run[r].left
      /\ pc = "off" => p.left = {}
  <2>1. CASE pc = "off"
    BY <1>3, <2>1 DEF Off, Attempts, Pcs
  <2>2. CASE pc # "off"
    BY <1>3, <2>2, AttemptTypes DEF Pcs
  <2> QED BY <2>1, <2>2
<1>6. AttemptIsSound(p)'
  <2>1. pc = "verify" => Holds(p.etag, p.rows)'
    BY <1>2, <1>5 DEF Holds
  <2> QED BY <1>1, <1>5, <2>1 DEF AttemptIsSound, Attempts, FactorPcs
<1>7. ASSUME NEW etag, NEW S, family \in Conditional, Holds(etag, S), etag \in Nat
      PROVE  Holds(etag, S)'
  BY <1>2, <1>7 DEF Holds
<1>8. \A j \in JobIds : PlanIsSound(plans[j]) => PlanIsSound(plans[j])'
  <2> TAKE j \in JobIds
  <2>1. PICK q : q = plans[j]
    OBVIOUS
  <2>2. PlanIsSound(q) => PlanIsSound(q)'
    BY <1>7 DEF PlanIsSound, Plans, Conditional
  <2> QED BY <2>1, <2>2 DEF PlanIsSound, Plans
<1>9. ASSUME NEW q \in Runners, q # r PROVE AttemptIsSound(run[q])'
  <2>1. PICK x : x = run[q]
    OBVIOUS
  <2>2. AttemptIsSound(x) /\ x \in Attempts /\ x.etag \in Nat
    BY <2>1, AttemptTypes DEF Attempts
  <2>3. x.pc = "inputs" => PlanIsSound(plans[x.job])'
    BY <1>8, <2>2 DEF AttemptIsSound
  <2>4. family \notin Conditional => x.pc = "off" \/ overlap
    BY <1>9, <2>1 DEF GoldInv, At
  <2>5. x.pc # "off" => \A S : Holds(x.etag, S) => Holds(x.etag, S)'
    BY <1>7, <2>2, <2>4 DEF Holds
  <2>6. x.pc = "build" /\ family = "terminal" => x.etag <= EtagOf(current)'
    BY <1>2, <2>2 DEF AttemptIsSound
  <2>7. AttemptIsSound(x)'
    BY <2>2, <2>3, <2>5, <2>6 DEF AttemptIsSound, Attempts, FactorPcs
  <2>8. run'[q] = x
    BY <1>4, <1>9, <2>1 DEF GoldInv, StoreTypes
  <2> QED BY <2>7, <2>8 DEF AttemptIsSound
<1>10. run'[r] = p /\ DOMAIN run' = Runners /\ \A q \in Runners : q # r => run'[q] = run[q]
  BY <1>4 DEF GoldInv, StoreTypes
<1>11. \A q \in Runners : AttemptIsSound(run[q])'
  BY <1>6, <1>9, <1>10 DEF AttemptIsSound
<1>12. StoreTypes'
  <2>1. run' \in [Runners -> Attempts']
    BY <1>4, <1>11 DEF AttemptIsSound, GoldInv, StoreTypes
  <2>2. plans' \in [JobIds -> (Plans \cup {None})']
    BY DEF GoldInv, StoreTypes, Plans
  <2> QED BY <1>2, <2>1, <2>2 DEF GoldInv, StoreTypes
<1>13. ~overlap' => \A q, s \in Runners : q = s \/ At(q, "off")' \/ At(s, "off")'
  BY <1>10 DEF GoldInv, At
<1> QED BY <1>8, <1>11, <1>12, <1>13 DEF GoldInv

\* The two ways to put CURRENT.
LEMMA PutInv ==
  ASSUME GoldInv, NEW r \in Runners, MoveIfVersion(r) \/ MoveCurrent(r)
  PROVE  GoldInv'
<1>1. /\ UNCHANGED <<family, plans, source, unread, attempts, overlap>> /\ At(r, "move")
  BY DEF MoveIfVersion, MoveCurrent
<1>2. faults' \in {faults, faults + 1}
  BY DEF MoveIfVersion, MoveCurrent, PutCurrent, NoFault, Fault
<1>3. PICK pc \in {"off", "publish", "verify"} :
        /\ IF pc = "off" THEN Become(r, Off) ELSE Goto(r, pc)
        /\ Moves(r) \/ (UNCHANGED current /\ pc = "off")
        /\ pc = "verify" => family \notin Conditional
  <2>1. CASE MoveIfVersion(r)
    BY <2>1 DEF MoveIfVersion, PutCurrent, Refused, Raise, Stays
  <2>2. CASE MoveCurrent(r)
    BY <2>2 DEF MoveCurrent, PutCurrent, Raise, Stays
  <2> QED BY <2>1, <2>2
<1>4. CASE Moves(r)
  BY <1>1, <1>2, <1>3, <1>4, MoveInv
<1>5. CASE UNCHANGED current /\ pc = "off"
  BY <1>1, <1>2, <1>3, <1>5, AttemptEnds
<1> QED BY <1>3, <1>4, <1>5

\* The invariant is inductive.
LEMMA StepGold == GoldInv /\ [GPNext]_vars => GoldInv'
<1> SUFFICES ASSUME GoldInv, [GPNext]_vars PROVE GoldInv'
  OBVIOUS
<1>1. CASE UNCHANGED vars
  <2>1. UNCHANGED <<family, current, plans, source, unread, attempts, overlap, faults, run>>
    BY <1>1 DEF vars, store
  <2> QED BY <2>1 DEF GoldInv, StoreTypes, AttemptIsSound, PlanIsSound, Attempts, Plans, Pointers,
                     Holds, EtagOf, RowsOf, At
<1>2. ASSUME NEW r \in Runners, FactorStep(r) PROVE GoldInv'
  BY <1>2, FactorStepInv
<1>3. ASSUME NEW r \in Runners, BuildStep(r) PROVE GoldInv'
  BY <1>3, BuildStepInv
<1>4. ASSUME NEW r \in Runners, Upload(r) \/ Verify(r) \/ Publish(r) PROVE GoldInv'
  BY <1>4, RecordInv
<1>5. ASSUME NEW r \in Runners, MoveIfVersion(r) \/ MoveCurrent(r) PROVE GoldInv'
  BY <1>5, PutInv
<1> QED BY <1>1, <1>2, <1>3, <1>4, <1>5, OutsideStep DEF GPNext

\* CURRENT moves in one place only, over the rows the attempt holds.
LEMMA OnlyMovesChangeCurrent ==
  ASSUME GoldInv, GPNext, current' # current
  PROVE  \E r \in Runners : (MoveIfVersion(r) \/ MoveCurrent(r)) /\ Moves(r)
<1>1. ~Observe
  BY DEF Observe, store
<1>2. \A r \in Runners : ~(Start(r) \/ Crash(r) \/ CallFails(r))
  BY DEF Start, Crash, CallFails, Fails, store
<1>3. \A r \in Runners : ~FactorStep(r)
  BY DEF FactorStep, ReadPlan, PutPlan, FactorInputs, ReadChunk, CommitChunk, BuildTape, ReadLive,
         PutResult, store
<1>4. \A r \in Runners : ~BuildStep(r)
  BY DEF BuildStep, TerminalBegin, TerminalBuild, IdentityBuild, SentimentBuild, ScoreboardBuild,
         WikimediaParent, SocialParent, SpotifyParent, WikimediaFetch, SocialFetch, SpotifyFetch,
         WikimediaMerge, SocialMerge, SpotifyMerge, Assemble, ReadParent, FetchCheckpointed,
         MergeParent, store
<1>5. \A r \in Runners : ~(Upload(r) \/ Verify(r) \/ Publish(r))
  BY DEF Upload, Verify, Publish
<1>6. PICK r \in Runners : MoveIfVersion(r) \/ MoveCurrent(r)
  BY <1>1, <1>2, <1>3, <1>4, <1>5 DEF GPNext
<1>7. Moves(r)
  BY <1>6 DEF MoveIfVersion, MoveCurrent, PutCurrent, Stays
<1> QED BY <1>6, <1>7

\* CURRENT never loses an observation: the jobs that compare and swap never,
\* whatever fails and however many attempts overlap, but for what a rebuild
\* failed to read; the others as long as no attempts overlap and no call fails.
THEOREM NothingPublishedIsLost == GPSpec => CurrentNeverRegresses
<1>1. GPSpec => []GoldInv
  BY InitGold, StepGold, PTL DEF GPSpec
<1>2. GoldInv /\ [GPNext]_vars =>
        [(family \in Conditional \/ ~(overlap' \/ faults' > 0))
           => RowsOf(current) \ unread' \subseteq RowsOf(current')]_vars
  <2> SUFFICES ASSUME GoldInv, GPNext, current' # current,
                      family \in Conditional \/ ~(overlap' \/ faults' > 0)
               PROVE  RowsOf(current) \ unread' \subseteq RowsOf(current')
    OBVIOUS
  <2>1. PICK r \in Runners : (MoveIfVersion(r) \/ MoveCurrent(r)) /\ Moves(r)
    BY OnlyMovesChangeCurrent
  <2>2. AttemptIsSound(run[r]) /\ run[r].key \in Keys /\ Holds(run[r].etag, run[r].rows)
    BY <2>1, AttemptTypes DEF MoveIfVersion, MoveCurrent, At, AttemptIsSound
  <2>3. RowsOf(current') = run[r].rows
    BY <2>1, <2>2, MovedCurrent DEF MoveIfVersion, MoveCurrent, RowsOf
  <2>4. unread' = unread /\ overlap' = overlap
    BY <2>1 DEF MoveIfVersion, MoveCurrent
  <2>5. CASE MoveIfVersion(r)
    <3>1. family \in Conditional /\ EtagOf(current) = run[r].etag
      BY <2>5 DEF MoveIfVersion, Stays
    <3>2. RowsOf(current) \ unread \subseteq run[r].rows
      BY <2>2, <3>1 DEF Holds
    <3> QED BY <2>3, <2>4, <3>2
  <2>6. CASE MoveCurrent(r)
    <3>1. faults' \in {faults, faults + 1} /\ faults \in Nat /\ overlap \in BOOLEAN
      BY <2>6 DEF MoveCurrent, PutCurrent, NoFault, Fault, GoldInv, StoreTypes
    <3>2. family \notin Conditional /\ faults = 0 /\ ~overlap
      BY <2>4, <2>6, <3>1 DEF MoveCurrent
    <3> QED BY <2>2, <2>3, <3>2 DEF Holds
  <2> QED BY <2>1, <2>5, <2>6
<1> QED BY <1>1, <1>2, PTL DEF GPSpec, CurrentNeverRegresses

-----------------------------------------------------------------------------
(***************************************************************************)
(* What has been verified stays as it was verified, CURRENT names nothing  *)
(* else, and the manifests tell no more.  A generation is overwritten only *)
(* under the key of a plan, by what the plan says, or under a job id       *)
(* (identity); every other attempt has a key no one else has.              *)
(***************************************************************************)
\* The families whose key is the job id, and those whose CURRENT, manifest and
\* result follow the verification of just these rows.
Fixed == {"factor", "identity"}
Keeping == {"factor", "terminal", "identity"}

\* What job j is to publish: its parent and the ticks it selected.
Planned(j) == plans[j].base \cup plans[j].selected

\* The generation was verified, or is the empty one, which has no object.
Sealed(key, rows) == <<key, rows>> \in verified \/ (family = "sentiment" /\ rows = {})

\* What an attempt under way has in hand.
AttemptIsTrue(p) ==
  p.pc # "off" =>
    /\ IF family \in Fixed THEN p.key = <<p.job, 0>> ELSE p.key[2] <= attempts
    /\ family \notin Fixed \cup {"scoreboard"} /\ p.pc \in {"parent", "build", "upload", "verify"}
         => \A v \in verified : v[1] # p.key
    /\ family = "factor" =>
         /\ p.pc \notin {"plan", "putplan"} => plans[p.job] # None
         /\ p.pc \in {"chunk", "commit"} => p.rows \cup p.left = Planned(p.job)
         /\ p.pc = "commit" => p.chunk \in p.left
         /\ p.pc \in {"upload", "verify", "live", "move", "publish", "result"}
              => p.rows = Planned(p.job)
    /\ family \in Keeping /\ p.pc \in {"live", "move", "publish", "result"}
         => <<p.key, p.rows>> \in verified
    /\ family \notin {"scoreboard", "identity"} /\ p.pc = "move" => Sealed(p.key, p.rows)
    /\ p.pc \in {"publish", "result"} \/ (p.pc = "verify" /\ family = "scoreboard")
         => p.key \in moved

\* Types of the objects, the manifests and the history.
TruthTypes ==
  /\ family \in Families /\ faults \in 0..MaxFaults[family] /\ unread \subseteq Rows
  /\ objects \in [Keys -> (SUBSET Rows) \cup {None}] /\ done \in [JobIds -> SUBSET Rows]
  /\ manifests \in [JobIds -> [status : Statuses, key : Keys \cup {None}] \cup {None}]
  /\ verified \subseteq Keys \X SUBSET Rows /\ moved \subseteq Keys

\* CURRENT names a generation that was moved to, and verified with its rows.
CurrentIsTrue ==
  current # None =>
    /\ current.key \in moved
    /\ family \notin {"scoreboard", "identity"} => Sealed(current.key, current.rows)

\* What was verified is still under its key, and in the factor tape is what
\* its job planned.
VerifiedIsTrue ==
  \A v \in verified :
    /\ family \notin {"scoreboard", "identity"} => objects[v[1]] = v[2]
    /\ family = "factor" => plans[v[1][1]] # None /\ v[2] = Planned(v[1][1])
    /\ family \notin Fixed => v[1][2] <= attempts

\* No two attempts under way write under one key, but those of the families
\* whose key is the job id.
KeysAreOwn ==
  family \notin Fixed =>
    \A q, r \in Runners : q # r => At(q, "off") \/ At(r, "off") \/ run[q].key # run[r].key

\* The invariant: CURRENT, the manifests and every attempt tell the truth of
\* the objects.
TruthInv ==
  /\ TruthTypes /\ CurrentIsTrue /\ VerifiedIsTrue /\ KeysAreOwn /\ ManifestTellsTheTruth
  /\ \A r \in Runners : AttemptIsTrue(run[r])

\* The initial states satisfy it.
LEMMA InitTruth == GPInit => TruthInv
<1> SUFFICES ASSUME GPInit PROVE TruthInv
  OBVIOUS
<1>1. MaxFaults[family] \in Nat
  BY GPAssumption DEF GPInit
<1>2. TruthTypes
  <2>1. 0 \in 0..MaxFaults[family]
    BY <1>1
  <2>2. /\ family \in Families /\ faults = 0 /\ unread = {} /\ verified = {} /\ moved = {}
        /\ objects = [k \in Keys |-> None] /\ done = [j \in JobIds |-> {}]
        /\ manifests = [j \in JobIds |-> None]
    BY DEF GPInit
  <2>3. ASSUME NEW I, NEW M PROVE [i \in I |-> None] \in [I -> M \cup {None}]
    OBVIOUS
  <2>4. done \in [JobIds -> SUBSET Rows]
    BY <2>2
  <2>5. objects \in [Keys -> (SUBSET Rows) \cup {None}]
    BY <2>2, <2>3
  <2>6. manifests \in [JobIds -> [status : Statuses, key : Keys \cup {None}] \cup {None}]
    BY <2>2, <2>3
  <2> QED BY <2>1, <2>2, <2>4, <2>5, <2>6 DEF TruthTypes
<1>3. \A r \in Runners : run[r] = Off /\ run[r].pc = "off"
  BY DEF GPInit, Off
<1>4. CurrentIsTrue /\ VerifiedIsTrue /\ KeysAreOwn /\ ManifestTellsTheTruth
  BY <1>3 DEF GPInit, CurrentIsTrue, VerifiedIsTrue, KeysAreOwn, ManifestTellsTheTruth, At
<1>5. \A r \in Runners : AttemptIsTrue(run[r])
  BY <1>3 DEF AttemptIsTrue
<1> QED BY <1>2, <1>4, <1>5 DEF TruthInv

\* An attempt that is over has nothing in hand.
LEMMA OffIsTrue == AttemptIsTrue(Off) /\ AttemptIsTrue(Off)' /\ Off.pc = "off"
BY DEF AttemptIsTrue, Off

\* The others keep what they have in hand: no plan changes, nothing is taken back.
LEMMA OthersGoOn ==
  ASSUME GoldInv, TruthInv, UNCHANGED family, attempts' \in Nat, attempts' >= attempts,
         \A j \in JobIds : plans[j] # None => plans'[j] = plans[j],
         verified \subseteq verified', moved \subseteq moved',
         NEW q \in Runners, family \notin Fixed /\ run[q].pc # "off"
                              => \A v \in verified' \ verified : v[1] # run[q].key,
         NEW p, p = run[q]
  PROVE  AttemptIsTrue(p)'
<1>1. AttemptIsTrue(p) /\ AttemptIsSound(p) /\ attempts \in Nat
  BY DEF TruthInv, GoldInv, StoreTypes
<1>2. SUFFICES ASSUME p.pc # "off" PROVE AttemptIsTrue(p)'
  BY DEF AttemptIsTrue
<1>3. p.job \in JobIds /\ p.key \in Keys /\ p.key[2] \in Nat
  BY <1>1, <1>2, GPAssumption DEF AttemptIsSound, Keys
<1>4. plans[p.job] # None => plans'[p.job] = plans[p.job]
  BY <1>3
<1>5. IF family' \in Fixed THEN p.key = <<p.job, 0>> ELSE p.key[2] <= attempts'
  BY <1>1, <1>2, <1>3 DEF AttemptIsTrue
<1>6. family' \notin Fixed \cup {"scoreboard"} /\ p.pc \in {"parent", "build", "upload", "verify"}
        => \A v \in verified' : v[1] # p.key
  BY <1>1, <1>2 DEF AttemptIsTrue
<1>7. family' = "factor" =>
        /\ p.pc \notin {"plan", "putplan"} => plans'[p.job] # None
        /\ p.pc \in {"chunk", "commit"} => p.rows \cup p.left = Planned(p.job)'
        /\ p.pc = "commit" => p.chunk \in p.left
        /\ p.pc \in {"upload", "verify", "live", "move", "publish", "result"}
              => p.rows = Planned(p.job)'
  <2>1. SUFFICES ASSUME family = "factor" PROVE <1>7!2
    OBVIOUS
  <2>2. /\ p.pc \notin {"plan", "putplan"} => plans[p.job] # None
        /\ p.pc \in {"chunk", "commit"} => p.rows \cup p.left = Planned(p.job)
        /\ p.pc = "commit" => p.chunk \in p.left
        /\ p.pc \in {"upload", "verify", "live", "move", "publish", "result"}
              => p.rows = Planned(p.job)
    BY <1>1, <1>2, <2>1 DEF AttemptIsTrue
  <2>3. plans[p.job] # None => Planned(p.job)' = Planned(p.job)
    BY <1>4 DEF Planned
  <2> QED BY <1>4, <2>2, <2>3
<1>8. family' \in Keeping /\ p.pc \in {"live", "move", "publish", "result"}
        => <<p.key, p.rows>> \in verified'
  BY <1>1, <1>2 DEF AttemptIsTrue
<1>9. family' \notin {"scoreboard", "identity"} /\ p.pc = "move" => Sealed(p.key, p.rows)'
  BY <1>1, <1>2 DEF AttemptIsTrue, Sealed
<1>10. p.pc \in {"publish", "result"} \/ (p.pc = "verify" /\ family' = "scoreboard")
         => p.key \in moved'
  BY <1>1, <1>2 DEF AttemptIsTrue
<1> QED BY <1>5, <1>6, <1>7, <1>8, <1>9, <1>10 DEF AttemptIsTrue

\* One attempt goes on.
LEMMA TruthGoesOn ==
  ASSUME GoldInv, TruthInv, UNCHANGED <<family, attempts>>,
         \A j \in JobIds : plans[j] # None => plans'[j] = plans[j],
         NEW r \in Runners, ~At(r, "off"),
         verified \subseteq verified', \A v \in verified' \ verified : v[1] = run[r].key,
         moved \subseteq moved',
         NEW p, run' = [run EXCEPT ![r] = p], p.pc = "off" \/ p.key = run[r].key,
         AttemptIsTrue(p)',
         TruthTypes', CurrentIsTrue', VerifiedIsTrue', ManifestTellsTheTruth'
  PROVE  TruthInv'
<1>1. run'[r] = p /\ \A q \in Runners : q # r => run'[q] = run[q]
  BY DEF GoldInv, StoreTypes
<1>2. attempts \in Nat /\ attempts' >= attempts
  BY DEF GoldInv, StoreTypes
<1>3. ASSUME NEW q \in Runners PROVE AttemptIsTrue(run[q])'
  <2>1. PICK x : x = run'[q]
    OBVIOUS
  <2>2. AttemptIsTrue(x)'
    <3>1. CASE q = r
      BY <1>1, <2>1, <3>1
    <3>2. CASE q # r
      <4>1. x = run[q]
        BY <1>1, <2>1, <3>2
      <4>2. family \notin Fixed /\ run[q].pc # "off" => \A v \in verified' \ verified : v[1] # run[q].key
        BY <3>2 DEF TruthInv, KeysAreOwn, At
      <4> QED BY <1>2, <4>1, <4>2, OthersGoOn
    <3> QED BY <3>1, <3>2
  <2> QED BY <2>1, <2>2 DEF AttemptIsTrue
<1>4. KeysAreOwn'
  <2>1. SUFFICES ASSUME family \notin Fixed, NEW q \in Runners, NEW s \in Runners, q # s,
                        run'[q].pc # "off", run'[s].pc # "off"
                 PROVE  run'[q].key # run'[s].key
    BY DEF KeysAreOwn, At
  <2>2. \A u \in Runners : run'[u].pc # "off" => run[u].pc # "off" /\ run'[u].key = run[u].key
    BY <1>1 DEF At
  <2> QED BY <2>1, <2>2 DEF TruthInv, KeysAreOwn, At
<1> QED BY <1>3, <1>4 DEF TruthInv

\* The store but for the manifests stays, and what is verified with it.
LEMMA TruthProceeds ==
  ASSUME GoldInv, TruthInv, Quiet, UNCHANGED <<objects, current>>,
         \A j \in JobIds : plans[j] # None => plans'[j] = plans[j],
         faults' \in 0..MaxFaults[family], done' \in [JobIds -> SUBSET Rows],
         manifests' \in [JobIds -> [status : Statuses, key : Keys \cup {None}] \cup {None}],
         ManifestTellsTheTruth',
         NEW r \in Runners, ~At(r, "off"),
         NEW p, run' = [run EXCEPT ![r] = p], p.pc = "off" \/ p.key = run[r].key,
         AttemptIsTrue(p)'
  PROVE  TruthInv'
<1>1. TruthTypes' /\ CurrentIsTrue'
  BY DEF TruthInv, TruthTypes, CurrentIsTrue, Quiet, Sealed
<1>2. VerifiedIsTrue'
  <2>1. SUFFICES ASSUME NEW v \in verified
                 PROVE  /\ family \notin {"scoreboard", "identity"} => objects[v[1]] = v[2]
                        /\ family = "factor" => plans'[v[1][1]] # None /\ v[2] = Planned(v[1][1])'
                        /\ family \notin Fixed => v[1][2] <= attempts
    BY DEF VerifiedIsTrue, Quiet
  <2>2. v[1][1] \in JobIds
    BY DEF TruthInv, TruthTypes, Keys
  <2> QED BY <2>2 DEF TruthInv, VerifiedIsTrue, Planned
<1> QED BY <1>1, <1>2, TruthGoesOn DEF Quiet

\* Faults stay within the bound of the family.
LEMMA FaultsStayBounded ==
  ASSUME GoldInv, TruthInv, Fault \/ NoFault
  PROVE  faults' \in 0..MaxFaults[family]
<1>1. MaxFaults[family] \in Nat /\ faults \in 0..MaxFaults[family]
  BY GPAssumption DEF TruthInv, TruthTypes
<1> QED BY <1>1 DEF Fault, NoFault

\* What an exception leaves in the manifest is true.
LEMMA RaiseTells ==
  ASSUME GoldInv, TruthInv, UNCHANGED family, verified \subseteq verified', moved \subseteq moved',
         NEW r \in Runners, ~At(r, "off"), NEW status, Raise(r, status),
         status = "VERIFIED" /\ family \in Keeping => \E v \in verified' : v[1] = run[r].key,
         status = "PUBLISHED" /\ family = "factor" => run[r].key \in moved'
  PROVE  /\ manifests' \in [JobIds -> [status : Statuses, key : Keys \cup {None}] \cup {None}]
         /\ ManifestTellsTheTruth'
<1>1. run[r].job \in JobIds /\ run[r].key \in Keys
  BY AttemptTypes DEF AttemptIsSound, At
<1>2. PICK m : m = [status |-> FinalStatus(status), key |-> run[r].key]
  OBVIOUS
<1>3. manifests' \in {manifests, [manifests EXCEPT ![run[r].job] = m]}
  BY <1>2 DEF Raise
<1>4. FinalStatus(status) \in {"VERIFIED", "PUBLISHED", "FAILED"}
  BY DEF FinalStatus
<1>5. m \in [status : Statuses, key : Keys \cup {None}]
  BY <1>1, <1>2, <1>4 DEF Statuses
<1>6. /\ m.status = "PUBLISHED" => m.key \in moved'
      /\ m.status = "VERIFIED" => \E v \in verified' : v[1] = m.key
  BY <1>2 DEF FinalStatus, Keeping
<1>7. manifests \in [JobIds -> [status : Statuses, key : Keys \cup {None}] \cup {None}]
  BY DEF TruthInv, TruthTypes
<1>8. \A j \in JobIds : manifests'[j] = manifests[j] \/ manifests'[j] = m
  BY <1>3, <1>7
<1>9. ManifestTellsTheTruth'
  BY <1>6, <1>8 DEF TruthInv, ManifestTellsTheTruth
<1> QED BY <1>3, <1>5, <1>7, <1>9

\* Manifests that are not put, while more is verified and moved.
LEMMA ManifestsStay ==
  ASSUME TruthInv, UNCHANGED manifests, verified \subseteq verified', moved \subseteq moved'
  PROVE  /\ manifests' \in [JobIds -> [status : Statuses, key : Keys \cup {None}] \cup {None}]
         /\ ManifestTellsTheTruth'
BY DEF TruthInv, TruthTypes, ManifestTellsTheTruth

\* A manifest that says what was done keeps the manifests true.
LEMMA ManifestPut ==
  ASSUME TruthInv, verified \subseteq verified', moved \subseteq moved',
         NEW j \in JobIds, NEW m \in [status : Statuses, key : Keys \cup {None}],
         manifests' = [manifests EXCEPT ![j] = m],
         m.status = "PUBLISHED" => m.key \in moved',
         m.status = "VERIFIED" => \E v \in verified' : v[1] = m.key
  PROVE  /\ manifests' \in [JobIds -> [status : Statuses, key : Keys \cup {None}] \cup {None}]
         /\ ManifestTellsTheTruth'
<1>1. manifests \in [JobIds -> [status : Statuses, key : Keys \cup {None}] \cup {None}]
  BY DEF TruthInv, TruthTypes
<1>2. \A i \in JobIds : manifests'[i] = manifests[i] \/ manifests'[i] = m
  BY <1>1
<1>3. ManifestTellsTheTruth'
  BY <1>2 DEF TruthInv, ManifestTellsTheTruth
<1> QED BY <1>1, <1>3

\* An attempt ends without having moved or verified anything.
LEMMA TruthEnds ==
  ASSUME GoldInv, TruthInv, Quiet, UNCHANGED <<objects, current>>,
         \A j \in JobIds : plans[j] # None => plans'[j] = plans[j],
         Fault \/ NoFault, done' \in [JobIds -> SUBSET Rows],
         manifests' \in [JobIds -> [status : Statuses, key : Keys \cup {None}] \cup {None}],
         ManifestTellsTheTruth',
         NEW r \in Runners, ~At(r, "off"), Become(r, Off)
  PROVE  TruthInv'
<1>1. run' = [run EXCEPT ![r] = Off]
  BY DEF Become
<1>2. faults' \in 0..MaxFaults[family]
  BY FaultsStayBounded
<1> QED BY <1>1, <1>2, OffIsTrue, TruthProceeds

\* What the two invariants say of types.
LEMMA TruthTyped ==
  ASSUME GoldInv, TruthInv
  PROVE  /\ done \in [JobIds -> SUBSET Rows] /\ faults \in 0..MaxFaults[family]
         /\ manifests \in [JobIds -> [status : Statuses, key : Keys \cup {None}] \cup {None}]
         /\ \A r \in Runners : AttemptIsTrue(run[r])
BY DEF TruthInv, TruthTypes

\* Observe, Start, Crash and the calls that fail.
LEMMA OutsideTruth ==
  ASSUME GoldInv, TruthInv,
         \/ Observe
         \/ \E r \in Runners : Start(r) \/ Crash(r) \/ CallFails(r)
  PROVE  TruthInv'
<1>1. CASE Observe
  <2>1. UNCHANGED <<family, objects, current, manifests, plans, done, run, attempts, faults,
                    verified, moved, unread>>
    BY <1>1 DEF Observe, store
  <2> QED BY <2>1 DEF TruthInv, TruthTypes, CurrentIsTrue, VerifiedIsTrue, KeysAreOwn, At,
                 ManifestTellsTheTruth, AttemptIsTrue, Planned, Sealed
<1>2. ASSUME NEW r \in Runners, Start(r) PROVE TruthInv'
  <2>1. PICK j \in JobIds :
          run' = [run EXCEPT ![r] =
            [Off EXCEPT !.pc = IF family = "factor" THEN "plan" ELSE "parent",
                        !.job = j, !.key = KeyFor(j, attempts + 1)]]
    BY <1>2 DEF Start, Become
  <2>2. PICK p : p = [Off EXCEPT !.pc = IF family = "factor" THEN "plan" ELSE "parent",
                                 !.job = j, !.key = KeyFor(j, attempts + 1)]
    OBVIOUS
  <2>3. /\ UNCHANGED <<family, objects, current, manifests, plans, done, faults, verified,
                       moved, unread>>
        /\ attempts' = attempts + 1
    BY <1>2 DEF Start, store
  <2>12. attempts \in Nat
    BY GPAssumption DEF GoldInv, StoreTypes
  <2>4. /\ p.pc = (IF family = "factor" THEN "plan" ELSE "parent") /\ p.job = j
        /\ p.key = IF family \in Fixed THEN <<j, 0>> ELSE <<j, attempts + 1>>
    BY <2>2 DEF Off, KeyFor, Fixed
  <2>5. run'[r] = p /\ \A q \in Runners : q # r => run'[q] = run[q]
    BY <2>1, <2>2 DEF GoldInv, StoreTypes
  <2>6. family \notin Fixed => \A v \in verified : v[1] # p.key
    <3>1. \A v \in verified : v[1] \in Keys
      BY DEF TruthInv, TruthTypes
    <3>2. ASSUME family \notin Fixed, NEW v \in verified, v[1] = p.key PROVE FALSE
      <4>1. v[1][2] = attempts + 1
        BY <2>4, <3>2
      <4>2. v[1][2] <= attempts
        BY <3>2 DEF TruthInv, VerifiedIsTrue
      <4> QED BY <2>12, <4>1, <4>2
    <3> QED BY <3>2
  <2>7. AttemptIsTrue(p)'
    BY <2>3, <2>4, <2>6, <2>12 DEF AttemptIsTrue, Fixed
  <2>8. \A q \in Runners : AttemptIsTrue(run[q])'
    <3> TAKE q \in Runners
    <3>1. PICK x : x = run'[q]
      OBVIOUS
    <3>2. AttemptIsTrue(x)'
      <4>1. CASE q = r
        BY <2>5, <2>7, <3>1, <4>1
      <4>2. CASE q # r
        <5>1. x = run[q]
          BY <2>5, <3>1, <4>2
        <5> QED BY <2>3, <2>12, <5>1, OthersGoOn
      <4> QED BY <4>1, <4>2
    <3> QED BY <3>1, <3>2 DEF AttemptIsTrue
  <2>9. KeysAreOwn'
    <3>1. \A q \in Runners : family \notin Fixed /\ run[q].pc # "off" => run[q].key # p.key
      <4>1. SUFFICES ASSUME NEW q \in Runners, family \notin Fixed, run[q].pc # "off",
                            run[q].key = p.key
                     PROVE  FALSE
        OBVIOUS
      <4>2. run[q].key[2] <= attempts
        BY <4>1, TruthTyped DEF AttemptIsTrue
      <4>3. run[q].key[2] = attempts + 1
        BY <2>4, <4>1
      <4> QED BY <2>12, <4>2, <4>3
    <3>2. SUFFICES ASSUME family \notin Fixed, NEW q \in Runners, NEW s \in Runners, q # s,
                          run'[q].pc # "off", run'[s].pc # "off"
                   PROVE  run'[q].key # run'[s].key
      BY <2>3 DEF KeysAreOwn, At
    <3>3. CASE q # r /\ s # r
      BY <2>5, <3>2, <3>3 DEF TruthInv, KeysAreOwn, At
    <3>4. CASE q = r
      BY <2>5, <3>1, <3>2, <3>4
    <3>5. CASE s = r
      BY <2>5, <3>1, <3>2, <3>5
    <3> QED BY <3>3, <3>4, <3>5
  <2>10. VerifiedIsTrue'
    <3>1. SUFFICES ASSUME NEW v \in verified
                   PROVE  /\ family \notin {"scoreboard", "identity"} => objects[v[1]] = v[2]
                          /\ family = "factor" => plans[v[1][1]] # None /\ v[2] = Planned(v[1][1])
                          /\ family \notin Fixed => v[1][2] <= attempts'
      BY <2>3 DEF VerifiedIsTrue, Planned
    <3>2. v[1][2] \in Nat
      BY GPAssumption DEF TruthInv, TruthTypes, Keys
    <3> QED BY <2>3, <2>12, <3>2 DEF TruthInv, VerifiedIsTrue
  <2>11. TruthTypes' /\ CurrentIsTrue' /\ ManifestTellsTheTruth'
    BY <2>3 DEF TruthInv, TruthTypes, CurrentIsTrue, ManifestTellsTheTruth, Sealed
  <2> QED BY <2>8, <2>9, <2>10, <2>11 DEF TruthInv
<1>3. ASSUME NEW r \in Runners, Crash(r) PROVE TruthInv'
  <2>1. Quiet /\ UNCHANGED <<objects, current, plans, done, manifests>> /\ Fault /\ Become(r, Off)
        /\ ~At(r, "off")
    BY <1>3 DEF Crash, store
  <2>2. verified' = verified /\ moved' = moved
    BY <2>1 DEF Quiet
  <2> QED BY <2>1, <2>2, TruthEnds, TruthTyped, ManifestsStay
<1>4. ASSUME NEW r \in Runners, CallFails(r) PROVE TruthInv'
  <2>1. /\ Quiet /\ UNCHANGED <<objects, current, plans, done>> /\ Fault /\ Become(r, Off)
        /\ ~At(r, "off") /\ Raise(r, run[r].status)
    BY <1>4 DEF CallFails, Fails, Raise, At
  <2>2. run[r].status = "RUNNING" /\ family' = family /\ verified' = verified /\ moved' = moved
    BY <2>1, AttemptTypes DEF Attempts, Quiet
  <2> QED BY <2>1, <2>2, TruthEnds, TruthTyped, RaiseTells
<1> QED BY <1>1, <1>2, <1>3, <1>4

\* The factor tape: what is read and built is what the plan says.
LEMMA FactorTruth ==
  ASSUME GoldInv, TruthInv, NEW r \in Runners, FactorStep(r)
  PROVE  TruthInv'
<1> DEFINE a == run[r]
<1>1. AttemptIsSound(a) /\ a \in Attempts /\ AttemptIsTrue(a)
  BY AttemptTypes, TruthTyped
<1>2. /\ Quiet /\ UNCHANGED <<objects, current>> /\ a.pc \in FactorPcs
  BY DEF FactorStep, ReadPlan, PutPlan, FactorInputs, ReadChunk, CommitChunk, BuildTape, ReadLive,
         PutResult, store, At, FactorPcs
<1>3. /\ family = "factor" /\ a.pc # "off" /\ ~At(r, "off") /\ a.job \in JobIds /\ a.key \in Keys
      /\ a.key = <<a.job, 0>> /\ (a.pc \notin {"plan", "putplan"} => plans[a.job] # None)
      /\ (a.pc \in {"chunk", "commit"} => a.rows \cup a.left = Planned(a.job))
      /\ a.left \subseteq source /\ source \subseteq Rows
  BY <1>1, <1>2 DEF AttemptIsSound, AttemptIsTrue, FactorPcs, Fixed, At, GoldInv, StoreTypes
<1>4. verified' = verified /\ moved' = moved /\ family' = family
  BY <1>2 DEF Quiet
\* a step that puts nothing but perhaps a plan
<1>5. ASSUME UNCHANGED <<done, manifests>>, NoFault, NEW p, Become(r, p), p.key = a.key,
             AttemptIsTrue(p)', \A j \in JobIds : plans[j] # None => plans'[j] = plans[j]
      PROVE  TruthInv'
  <2>1. run' = [run EXCEPT ![r] = p]
    BY <1>5 DEF Become
  <2>2. faults' \in 0..MaxFaults[family]
    BY <1>5, FaultsStayBounded
  <2>3. done' \in [JobIds -> SUBSET Rows]
        /\ manifests' \in [JobIds -> [status : Statuses, key : Keys \cup {None}] \cup {None}]
        /\ ManifestTellsTheTruth'
    BY <1>4, <1>5, TruthTyped, ManifestsStay
  <2> QED BY <1>2, <1>3, <1>5, <2>1, <2>2, <2>3, TruthProceeds
\* an attempt that raises, with a checkpoint put or not
<1>6. ASSUME NEW status \in {"RUNNING", "PUBLISHED"}, Raise(r, status), UNCHANGED plans,
             Fault \/ NoFault, done' \in [JobIds -> SUBSET Rows],
             status = "PUBLISHED" => a.key \in moved
      PROVE  TruthInv'
  <2>1. /\ manifests' \in [JobIds -> [status : Statuses, key : Keys \cup {None}] \cup {None}]
        /\ ManifestTellsTheTruth'
    BY <1>3, <1>4, <1>6, RaiseTells
  <2>2. Become(r, Off)
    BY <1>6 DEF Raise
  <2> QED BY <1>2, <1>3, <1>6, <2>1, <2>2, TruthEnds
<1>7. CASE ReadPlan(r)
  <2>1. UNCHANGED <<done, manifests, plans>> /\ NoFault
    BY <1>7 DEF ReadPlan, store
  <2>2. CASE plans[a.job] # None
    <3>1. PICK p : p = [a EXCEPT !.pc = "inputs"]
      OBVIOUS
    <3>2. Become(r, p)
      BY <1>7, <2>2, <3>1 DEF ReadPlan, Goto
    <3>3. p.pc = "inputs" /\ p.job = a.job /\ p.key = a.key
      BY <1>1, <3>1 DEF Attempts
    <3>4. AttemptIsTrue(p)'
      BY <1>2, <1>3, <2>1, <2>2, <3>3 DEF AttemptIsTrue, Fixed, Quiet
    <3> QED BY <1>5, <2>1, <3>2, <3>3, <3>4
  <2>3. CASE plans[a.job] = None
    <3>1. PICK s : Become(r, [a EXCEPT !.pc = "putplan", !.etag = EtagOf(current),
                                       !.base = RowsOf(current), !.left = s])
      BY <1>7, <2>3 DEF ReadPlan
    <3>2. PICK p : p = [a EXCEPT !.pc = "putplan", !.etag = EtagOf(current),
                                 !.base = RowsOf(current), !.left = s]
      OBVIOUS
    <3>3. p.pc = "putplan" /\ p.job = a.job /\ p.key = a.key /\ Become(r, p)
      BY <1>1, <3>1, <3>2 DEF Attempts, Become
    <3>4. AttemptIsTrue(p)'
      BY <1>2, <1>3, <3>3 DEF AttemptIsTrue, Fixed, Quiet
    <3> QED BY <1>5, <2>1, <3>3, <3>4
  <2> QED BY <2>2, <2>3
<1>8. CASE PutPlan(r)
  <2>1. CASE plans[a.job] = None
    <3>1. PICK new : new = [etag |-> a.etag, base |-> a.base, selected |-> a.left]
      OBVIOUS
    <3>2. plans' = [plans EXCEPT ![a.job] = new] /\ Goto(r, "inputs") /\ UNCHANGED <<manifests, done>>
          /\ NoFault
      BY <1>8, <2>1, <3>1 DEF PutPlan
    <3>3. new # None
      <4>1. a.etag \in Nat /\ a.base \in SUBSET Rows /\ a.left \in SUBSET Rows
        BY <1>1, <1>3 DEF Attempts
      <4> QED BY <3>1, <4>1, NoneAssumption
    <3>4. plans'[a.job] # None /\ \A j \in JobIds : plans[j] # None => plans'[j] = plans[j]
      BY <1>3, <2>1, <3>2, <3>3 DEF GoldInv, StoreTypes
    <3>5. PICK p : p = [a EXCEPT !.pc = "inputs"]
      OBVIOUS
    <3>6. Become(r, p) /\ p.pc = "inputs" /\ p.job = a.job /\ p.key = a.key
      BY <1>1, <3>2, <3>5 DEF Attempts, Goto, Become
    <3>7. AttemptIsTrue(p)'
      BY <1>2, <1>3, <3>4, <3>6 DEF AttemptIsTrue, Fixed, Quiet
    <3> QED BY <1>5, <3>2, <3>4, <3>6, <3>7
  <2>2. CASE plans[a.job] # None
    <3>1. Raise(r, "RUNNING") /\ UNCHANGED <<plans, done>> /\ NoFault
      BY <1>8, <2>2 DEF PutPlan
    <3> QED BY <1>6, <3>1, TruthTyped
  <2> QED BY <2>1, <2>2
<1>9. CASE FactorInputs(r)
  <2>1. UNCHANGED <<done, manifests, plans>> /\ NoFault /\ a.pc = "inputs"
    BY <1>9 DEF FactorInputs, store, At
  <2>2. CASE Become(r, Off)
    BY <1>2, <1>3, <1>4, <2>1, <2>2, TruthEnds, TruthTyped, ManifestsStay
  <2>3. CASE Become(r, [a EXCEPT !.pc = "chunk", !.etag = plans[a.job].etag,
                                 !.base = plans[a.job].base, !.rows = plans[a.job].base,
                                 !.left = plans[a.job].selected])
    <3>1. PICK p : p = [a EXCEPT !.pc = "chunk", !.etag = plans[a.job].etag,
                                 !.base = plans[a.job].base, !.rows = plans[a.job].base,
                                 !.left = plans[a.job].selected]
      OBVIOUS
    <3>2. /\ p.pc = "chunk" /\ p.job = a.job /\ p.key = a.key /\ p.rows = plans[a.job].base
          /\ p.left = plans[a.job].selected /\ Become(r, p)
      BY <1>1, <2>3, <3>1 DEF Attempts, Become
    <3>3. AttemptIsTrue(p)'
      BY <1>2, <1>3, <2>1, <3>2 DEF AttemptIsTrue, Fixed, Quiet, Planned
    <3> QED BY <1>5, <2>1, <3>2, <3>3
  <2> QED BY <1>9, <2>2, <2>3 DEF FactorInputs
<1>10. CASE ReadChunk(r)
  <2>1. UNCHANGED <<done, manifests, plans>> /\ NoFault /\ a.pc = "chunk"
    BY <1>10 DEF ReadChunk, store, At
  <2>2. PICK x \in a.left : \/ Become(r, ReuseChunk(r, x))
                            \/ Become(r, [a EXCEPT !.pc = "commit", !.chunk = x])
    BY <1>10 DEF ReadChunk
  <2>3. CASE Become(r, ReuseChunk(r, x))
    <3>1. PICK p : p = ReuseChunk(r, x)
      OBVIOUS
    <3>2. /\ p.pc = "chunk" /\ p.job = a.job /\ p.key = a.key /\ p.rows = a.rows \cup {x}
          /\ p.left = a.left \ {x} /\ Become(r, p)
      BY <1>1, <2>1, <2>3, <3>1 DEF Attempts, Become, ReuseChunk
    <3>3. p.rows \cup p.left = Planned(a.job)
      BY <1>3, <2>1, <3>2
    <3>4. AttemptIsTrue(p)'
      BY <1>2, <1>3, <2>1, <3>2, <3>3 DEF AttemptIsTrue, Fixed, Quiet, Planned
    <3> QED BY <1>5, <2>1, <3>2, <3>4
  <2>4. CASE Become(r, [a EXCEPT !.pc = "commit", !.chunk = x])
    <3>1. PICK p : p = [a EXCEPT !.pc = "commit", !.chunk = x]
      OBVIOUS
    <3>2. /\ p.pc = "commit" /\ p.job = a.job /\ p.key = a.key /\ p.rows = a.rows
          /\ p.left = a.left /\ p.chunk = x /\ Become(r, p)
      BY <1>1, <2>1, <2>4, <3>1 DEF Attempts, Become
    <3>3. AttemptIsTrue(p)'
      BY <1>2, <1>3, <2>1, <3>2 DEF AttemptIsTrue, Fixed, Quiet, Planned
    <3> QED BY <1>5, <2>1, <3>2, <3>3
  <2> QED BY <2>2, <2>3, <2>4
<1>11. CASE CommitChunk(r)
  <2> DEFINE x == a.chunk
             put == [done EXCEPT ![a.job] = @ \cup {x}]
  <2>1. UNCHANGED plans /\ a.pc = "commit"
    BY <1>11 DEF CommitChunk, At
  <2>2. x \in a.left /\ x \in Rows
    BY <1>1, <1>3, <2>1 DEF AttemptIsTrue
  <2>3. done \in [JobIds -> SUBSET Rows] /\ put \in [JobIds -> SUBSET Rows]
    BY <1>3, <2>2, TruthTyped
  <2> HIDE DEF put
  <2>4. CASE /\ NoFault /\ done' = put /\ UNCHANGED manifests
             /\ Become(r, [a EXCEPT !.pc = "chunk", !.rows = @ \cup {x}, !.left = @ \ {x}])
    <3>1. PICK p : p = [a EXCEPT !.pc = "chunk", !.rows = @ \cup {x}, !.left = @ \ {x}]
      OBVIOUS
    <3>2. /\ p.pc = "chunk" /\ p.job = a.job /\ p.key = a.key /\ p.rows = a.rows \cup {x}
          /\ p.left = a.left \ {x} /\ run' = [run EXCEPT ![r] = p]
      BY <1>1, <2>1, <2>4, <3>1 DEF Attempts, Become
    <3>3. p.rows \cup p.left = Planned(a.job)
      BY <1>3, <2>1, <2>2, <3>2
    <3>4. AttemptIsTrue(p)'
      BY <1>2, <1>3, <2>1, <3>2, <3>3 DEF AttemptIsTrue, Fixed, Quiet, Planned
    <3>5. faults' \in 0..MaxFaults[family] /\ done' \in [JobIds -> SUBSET Rows]
          /\ manifests' \in [JobIds -> [status : Statuses, key : Keys \cup {None}] \cup {None}]
          /\ ManifestTellsTheTruth'
      BY <1>4, <2>3, <2>4, FaultsStayBounded, ManifestsStay
    <3> QED BY <1>2, <1>3, <2>1, <3>2, <3>4, <3>5, TruthProceeds
  <2>5. CASE NoFault /\ Raise(r, "RUNNING") /\ UNCHANGED done
    BY <1>6, <2>1, <2>3, <2>5
  <2>6. CASE Fault /\ Raise(r, "RUNNING") /\ done' \in {done, put}
    BY <1>6, <2>1, <2>3, <2>6
  <2> QED BY <1>11, <2>4, <2>5, <2>6 DEF CommitChunk, put
<1>12. CASE BuildTape(r)
  <2>1. UNCHANGED <<plans, done>> /\ NoFault /\ a.pc = "chunk" /\ a.left = {}
    BY <1>12 DEF BuildTape, store, At
  <2>2. CASE Raise(r, "RUNNING")
    BY <1>6, <2>1, <2>2, TruthTyped
  <2>3. CASE Goto(r, "upload") /\ UNCHANGED store
    <3>1. PICK p : p = [a EXCEPT !.pc = "upload"]
      OBVIOUS
    <3>2. /\ p.pc = "upload" /\ p.job = a.job /\ p.key = a.key /\ p.rows = a.rows /\ Become(r, p)
          /\ UNCHANGED manifests
      BY <1>1, <2>3, <3>1 DEF Attempts, Goto, Become, store
    <3>3. p.rows = Planned(a.job)
      BY <1>3, <2>1, <3>2
    <3>4. AttemptIsTrue(p)'
      BY <1>2, <1>3, <2>1, <3>2, <3>3 DEF AttemptIsTrue, Fixed, Quiet, Planned
    <3> QED BY <1>5, <2>1, <3>2, <3>4
  <2> QED BY <1>12, <2>2, <2>3 DEF BuildTape
<1>13. CASE ReadLive(r)
  <2>1. UNCHANGED <<plans, done, manifests>> /\ NoFault /\ a.pc = "live"
    BY <1>13 DEF ReadLive, store, At
  <2>2. PICK pc \in {"publish", "move"} : Goto(r, pc) /\ (pc = "publish" => current # None /\ current.key = a.key)
    BY <1>13 DEF ReadLive, OverPlannedParent
  <2>3. PICK p : p = [a EXCEPT !.pc = pc]
    OBVIOUS
  <2>4. /\ p.pc = pc /\ p.job = a.job /\ p.key = a.key /\ p.rows = a.rows /\ Become(r, p)
    BY <1>1, <2>2, <2>3 DEF Attempts, Goto, Become
  <2>5. pc = "publish" => a.key \in moved
    BY <2>2 DEF TruthInv, CurrentIsTrue
  <2>6. a.rows = Planned(a.job) /\ <<a.key, a.rows>> \in verified
    BY <1>1, <1>3, <2>1 DEF AttemptIsTrue, Keeping
  <2>7. AttemptIsTrue(p)'
    BY <1>2, <1>3, <2>1, <2>4, <2>5, <2>6 DEF AttemptIsTrue, Fixed, Quiet, Planned, Sealed
  <2> QED BY <1>5, <2>1, <2>4, <2>7
<1>14. CASE PutResult(r)
  <2>1. UNCHANGED <<plans, done>> /\ a.pc = "result"
    BY <1>14 DEF PutResult, At
  <2>2. a.key \in moved
    BY <1>1, <2>1 DEF AttemptIsTrue
  <2>3. CASE NoFault /\ Become(r, Off) /\ UNCHANGED manifests
    BY <1>2, <1>3, <1>4, <2>1, <2>3, TruthEnds, TruthTyped, ManifestsStay
  <2>4. CASE Fault /\ Raise(r, "PUBLISHED")
    BY <1>6, <2>1, <2>2, <2>4, TruthTyped
  <2> QED BY <1>14, <2>3, <2>4 DEF PutResult
<1> QED BY <1>7, <1>8, <1>9, <1>10, <1>11, <1>12, <1>13, <1>14 DEF FactorStep

\* An attempt of the other jobs that builds goes on building or to its upload.
LEMMA BuildGoesOn ==
  ASSUME GoldInv, TruthInv, UNCHANGED <<family, attempts, verified, moved>>, family # "factor",
         NEW r \in Runners, run[r].pc \in {"parent", "build"},
         NEW p, p.pc \in {"build", "upload"}, p.job = run[r].job, p.key = run[r].key
  PROVE  AttemptIsTrue(p)'
<1>1. AttemptIsTrue(run[r])
  BY TruthTyped
<1> QED BY <1>1 DEF AttemptIsTrue

\* The rows that an attempt assembles from its parent, before anything is
\* uploaded, keep the truth.
LEMMA AssembleTruth ==
  ASSUME GoldInv, TruthInv, NEW r \in Runners, NEW next \in {"upload", "move"}, Assemble(r, next),
         run[r].pc \in {"parent", "build"}, family # "factor",
         next = "move" => family = "sentiment" /\ source = {}
  PROVE  TruthInv'
<1> DEFINE a == run[r]
<1>1. a \in Attempts /\ AttemptIsTrue(a) /\ source \subseteq Rows /\ ~At(r, "off")
  BY AttemptTypes, TruthTyped DEF GoldInv, StoreTypes, At
<1>2. UNCHANGED <<objects, current, manifests, plans, done, family, source, attempts, verified,
                  moved, overlap>>
  BY DEF Assemble, store
<1>3. unread' \subseteq Rows /\ (Fault \/ NoFault)
  BY <1>1 DEF Assemble, TruthInv, TruthTypes
<1>4. PICK p : /\ run' = [run EXCEPT ![r] = p] /\ p.key = a.key /\ p.job = a.job
               /\ p.pc = "upload" \/ (p.pc = next /\ p.rows = source)
  <2>1. CASE NoFault /\ Become(r, [a EXCEPT !.pc = next, !.rows = source])
    <3>1. PICK p : p = [a EXCEPT !.pc = next, !.rows = source]
      OBVIOUS
    <3>2. p.key = a.key /\ p.job = a.job /\ p.pc = next /\ p.rows = source
      BY <1>1, <3>1 DEF Attempts
    <3> QED BY <2>1, <3>1, <3>2 DEF Become
  <2>2. CASE \E x \in source : Become(r, [a EXCEPT !.pc = "upload", !.rows = source \ {x}])
    <3>1. PICK p : \E x \in source : p = [a EXCEPT !.pc = "upload", !.rows = source \ {x}]
                                     /\ run' = [run EXCEPT ![r] = p]
      BY <2>2 DEF Become
    <3>2. p.key = a.key /\ p.job = a.job /\ p.pc = "upload"
      BY <1>1, <3>1 DEF Attempts
    <3> QED BY <3>1, <3>2
  <2> QED BY <2>1, <2>2 DEF Assemble
<1>5. AttemptIsTrue(p)'
  <2>1. CASE p.pc = "upload"
    BY <1>2, <1>4, <2>1, BuildGoesOn
  <2>2. CASE p.pc = "move" /\ family = "sentiment" /\ p.rows = {}
    BY <1>1, <1>2, <1>4, <2>2 DEF AttemptIsTrue, Sealed, Fixed, Keeping
  <2> QED BY <1>4, <2>1, <2>2
<1>6. TruthTypes' /\ CurrentIsTrue' /\ VerifiedIsTrue' /\ ManifestTellsTheTruth'
  <2>1. faults' \in 0..MaxFaults[family]
    BY <1>3, FaultsStayBounded
  <2> QED BY <1>2, <1>3, <2>1 DEF TruthInv, TruthTypes, CurrentIsTrue, VerifiedIsTrue,
                             ManifestTellsTheTruth, Sealed, Planned
<1> QED BY <1>1, <1>2, <1>4, <1>5, <1>6, TruthGoesOn

\* The jobs that rebuild, and those that read CURRENT and merge.
LEMMA BuildTruth ==
  ASSUME GoldInv, TruthInv, NEW r \in Runners, BuildStep(r)
  PROVE  TruthInv'
<1> DEFINE a == run[r]
<1>1. a \in Attempts /\ source \subseteq Rows
  BY AttemptTypes DEF GoldInv, StoreTypes
\* a step that puts at most a checkpoint
<1>2. ASSUME Quiet, UNCHANGED <<objects, current, manifests, plans>>, Fault \/ NoFault,
             done' \in [JobIds -> SUBSET Rows], family # "factor", a.pc \in {"parent", "build"},
             NEW p, Become(r, p), p.pc \in {"build", "upload"}, p.job = a.job, p.key = a.key
      PROVE  TruthInv'
  <2>1. AttemptIsTrue(p)'
    BY <1>2, BuildGoesOn DEF Quiet
  <2>2. run' = [run EXCEPT ![r] = p] /\ ~At(r, "off")
    BY <1>2 DEF Become, At
  <2>3. faults' \in 0..MaxFaults[family]
    BY <1>2, FaultsStayBounded
  <2>4. /\ manifests' \in [JobIds -> [status : Statuses, key : Keys \cup {None}] \cup {None}]
        /\ ManifestTellsTheTruth'
    BY <1>2, ManifestsStay DEF Quiet
  <2> QED BY <1>2, <2>1, <2>2, <2>3, <2>4, TruthProceeds
<1>3. CASE TerminalBegin(r)
  <2>1. PICK p : p = [a EXCEPT !.pc = "build", !.etag = EtagOf(current)]
    OBVIOUS
  <2>2. p.pc = "build" /\ p.job = a.job /\ p.key = a.key /\ Become(r, p)
    BY <1>1, <1>3, <2>1 DEF TerminalBegin, ServingVersion, Attempts, Become
  <2>3. /\ Quiet /\ UNCHANGED <<objects, current, manifests, plans, done>> /\ NoFault
        /\ family # "factor" /\ a.pc = "parent"
    BY <1>3 DEF TerminalBegin, store, At
  <2> QED BY <1>2, <2>2, <2>3, TruthTyped
<1>4. CASE TerminalBuild(r) \/ SentimentBuild(r) \/ ScoreboardBuild(r)
  <2>1. PICK next \in {"upload", "move"} :
          /\ Assemble(r, next) /\ a.pc \in {"parent", "build"} /\ family # "factor"
          /\ next = "move" => family = "sentiment" /\ source = {}
    BY <1>4 DEF TerminalBuild, SentimentBuild, ScoreboardBuild, At
  <2> QED BY <2>1, AssembleTruth
<1>5. CASE IdentityBuild(r)
  <2>1. PICK p : p = [a EXCEPT !.pc = "upload", !.rows = source]
    OBVIOUS
  <2>2. p.pc = "upload" /\ p.job = a.job /\ p.key = a.key /\ Become(r, p)
    BY <1>1, <1>5, <2>1 DEF IdentityBuild, Attempts, Become
  <2>3. /\ Quiet /\ UNCHANGED <<objects, current, manifests, plans, done>> /\ NoFault
        /\ family # "factor" /\ a.pc = "parent"
    BY <1>5 DEF IdentityBuild, store, At
  <2> QED BY <1>2, <2>2, <2>3, TruthTyped
<1>6. CASE WikimediaParent(r) \/ SocialParent(r) \/ SpotifyParent(r)
  <2>1. PICK completed : ReadParent(r, completed) /\ family # "factor"
    BY <1>6 DEF WikimediaParent, SocialParent, SpotifyParent
  <2>2. PICK p : Become(r, p) /\ p.pc = "build" /\ p.job = a.job /\ p.key = a.key
    <3>1. PICK b, l : \/ Become(r, [[a EXCEPT !.pc = "build", !.left = l] EXCEPT !.base = b])
                      \/ Become(r, [a EXCEPT !.pc = "build", !.left = l])
                      \/ Become(r, [[a EXCEPT !.pc = "build", !.left = Rows \ completed]
                                       EXCEPT !.base = b, !.left = l])
      BY <2>1 DEF ReadParent
    <3>2. PICK p : Become(r, p)
                   /\ \/ p = [[a EXCEPT !.pc = "build", !.left = l] EXCEPT !.base = b]
                      \/ p = [a EXCEPT !.pc = "build", !.left = l]
                      \/ p = [[a EXCEPT !.pc = "build", !.left = Rows \ completed]
                                EXCEPT !.base = b, !.left = l]
      BY <3>1
    <3> QED BY <1>1, <3>2 DEF Attempts
  <2>3. /\ Quiet /\ UNCHANGED <<objects, current, manifests, plans, done>> /\ (Fault \/ NoFault)
        /\ a.pc = "parent"
    BY <2>1 DEF ReadParent, store, At
  <2> QED BY <1>2, <2>1, <2>2, <2>3, TruthTyped
<1>7. CASE WikimediaFetch(r) \/ SocialFetch(r) \/ SpotifyFetch(r)
  <2>1. /\ a.pc = "build" /\ Quiet /\ UNCHANGED <<objects, current, manifests, plans>>
        /\ family # "factor" /\ (Fault \/ NoFault)
    BY <1>7 DEF WikimediaFetch, SocialFetch, SpotifyFetch, FetchCheckpointed, store, At
  <2>2. done' \in [JobIds -> SUBSET Rows]
    <3>1. ASSUME NEW x PROVE Checkpoint(r, x) \in [JobIds -> SUBSET Rows]
      BY TruthTyped DEF Checkpoint
    <3> QED BY <1>7, <3>1, TruthTyped DEF WikimediaFetch, SocialFetch, SpotifyFetch,
                                         FetchCheckpointed, store
  <2>3. PICK p : Become(r, p) /\ p.pc = "build" /\ p.job = a.job /\ p.key = a.key
    <3>1. PICK l, g : \/ Become(r, [a EXCEPT !.left = l, !.rows = @ \cup g])
                      \/ Become(r, [a EXCEPT !.left = l])
      BY <1>7 DEF WikimediaFetch, SocialFetch, SpotifyFetch, FetchCheckpointed, Fetched
    <3>2. PICK p : Become(r, p) /\ \/ p = [a EXCEPT !.left = l, !.rows = @ \cup g]
                                   \/ p = [a EXCEPT !.left = l]
      BY <3>1
    <3>3. p.pc = a.pc /\ p.job = a.job /\ p.key = a.key
      <4>1. CASE p = [a EXCEPT !.left = l, !.rows = @ \cup g]
        BY <1>1, <4>1 DEF Attempts
      <4>2. CASE p = [a EXCEPT !.left = l]
        BY <1>1, <4>2 DEF Attempts
      <4> QED BY <3>2, <4>1, <4>2
    <3> QED BY <2>1, <3>2, <3>3
  <2> QED BY <1>2, <2>1, <2>2, <2>3
<1>8. CASE WikimediaMerge(r) \/ SocialMerge(r) \/ SpotifyMerge(r)
  <2>1. MergeParent(r) /\ family # "factor"
    BY <1>8 DEF WikimediaMerge, SocialMerge, SpotifyMerge
  <2>2. a.pc = "build" /\ Quiet /\ UNCHANGED <<objects, current, plans, done>> /\ NoFault
        /\ ~At(r, "off")
    BY <2>1 DEF MergeParent, At
  <2>3. CASE /\ Become(r, Off)
             /\ manifests' = [manifests EXCEPT ![a.job] = [status |-> "BUILD_COMPLETE", key |-> None]]
    <3>1. a.job \in JobIds
      BY <2>2, AttemptTypes DEF AttemptIsSound
    <3>2. PICK m : m = [status |-> "BUILD_COMPLETE", key |-> None]
      OBVIOUS
    <3>3. m \in [status : Statuses, key : Keys \cup {None}] /\ m.status = "BUILD_COMPLETE"
      BY <3>2 DEF Statuses
    <3>4. manifests' = [manifests EXCEPT ![a.job] = m] /\ verified' = verified /\ moved' = moved
      BY <2>2, <2>3, <3>2 DEF Quiet
    <3>5. /\ manifests' \in [JobIds -> [status : Statuses, key : Keys \cup {None}] \cup {None}]
          /\ ManifestTellsTheTruth'
      BY <3>1, <3>3, <3>4, ManifestPut
    <3> QED BY <2>2, <2>3, <3>5, TruthEnds, TruthTyped
  <2>4. CASE Become(r, [a EXCEPT !.pc = "upload", !.rows = Merge(a.base, @)]) /\ UNCHANGED manifests
    <3>1. PICK p : p = [a EXCEPT !.pc = "upload", !.rows = Merge(a.base, @)]
      OBVIOUS
    <3>2. p.pc = "upload" /\ p.job = a.job /\ p.key = a.key /\ Become(r, p)
      BY <1>1, <2>4, <3>1 DEF Attempts, Become
    <3> QED BY <1>2, <2>1, <2>2, <2>4, <3>2, TruthTyped
  <2> QED BY <2>1, <2>3, <2>4 DEF MergeParent
<1> QED BY <1>3, <1>4, <1>5, <1>6, <1>7, <1>8 DEF BuildStep

\* What an attempt beyond its build is known by.
LEMMA LateFacts ==
  ASSUME GoldInv, TruthInv, NEW r \in Runners,
         run[r].pc \in {"upload", "verify", "move", "publish"}
  PROVE  /\ run[r] \in Attempts /\ AttemptIsTrue(run[r]) /\ ~At(r, "off")
         /\ run[r].job \in JobIds /\ run[r].key \in Keys /\ run[r].rows \in SUBSET Rows
         /\ source \subseteq Rows
BY AttemptTypes, TruthTyped DEF AttemptIsSound, Attempts, GoldInv, StoreTypes, At

\* The upload overwrites nothing that was verified, but by the same rows.
LEMMA UploadTruth ==
  ASSUME GoldInv, TruthInv, NEW r \in Runners, Upload(r)
  PROVE  TruthInv'
<1> DEFINE a == run[r]
           put == [objects EXCEPT ![a.key] = a.rows]
<1>1. /\ a.pc = "upload" /\ Quiet /\ UNCHANGED <<current, plans, done>> /\ (Fault \/ NoFault)
      /\ objects' \in {objects, put}
  BY DEF Upload, At
<1>2. /\ a \in Attempts /\ AttemptIsTrue(a) /\ ~At(r, "off") /\ a.job \in JobIds /\ a.key \in Keys
      /\ a.rows \in SUBSET Rows
  BY <1>1, LateFacts
<1>3. UNCHANGED <<family, attempts, verified, moved, unread>>
  BY <1>1 DEF Quiet
<1>4. objects' \in [Keys -> (SUBSET Rows) \cup {None}]
      /\ \A k \in Keys : objects'[k] = objects[k] \/ (k = a.key /\ objects'[k] = a.rows)
  BY <1>1, <1>2 DEF TruthInv, TruthTypes
<1>5. VerifiedIsTrue'
  <2>1. SUFFICES ASSUME NEW v \in verified
                 PROVE  /\ family \notin {"scoreboard", "identity"} => objects'[v[1]] = v[2]
                        /\ family = "factor" => plans[v[1][1]] # None /\ v[2] = Planned(v[1][1])
                        /\ family \notin Fixed => v[1][2] <= attempts
    BY <1>1, <1>3 DEF VerifiedIsTrue, Planned
  <2>2. v[1] \in Keys
    BY DEF TruthInv, TruthTypes
  <2>3. CASE objects'[v[1]] = objects[v[1]]
    BY <2>3 DEF TruthInv, VerifiedIsTrue
  <2>4. CASE v[1] = a.key /\ objects'[v[1]] = a.rows
    <3>1. CASE family = "factor"
      <4>1. a.key[1] = a.job /\ a.rows = Planned(a.job)
        BY <1>1, <1>2, <3>1 DEF AttemptIsTrue, Fixed
      <4>2. v[2] = Planned(v[1][1])
        BY <3>1 DEF TruthInv, VerifiedIsTrue
      <4> QED BY <2>4, <3>1, <4>1, <4>2 DEF TruthInv, VerifiedIsTrue
    <3>2. CASE family \in {"scoreboard", "identity"}
      BY <3>2 DEF TruthInv, VerifiedIsTrue
    <3>3. CASE family \notin Fixed \cup {"scoreboard"}
      BY <1>1, <1>2, <2>4, <3>3 DEF AttemptIsTrue
    <3> QED BY <3>1, <3>2, <3>3 DEF Fixed
  <2> QED BY <1>4, <2>2, <2>3, <2>4
<1>6. ASSUME manifests' \in [JobIds -> [status : Statuses, key : Keys \cup {None}] \cup {None}]
      PROVE  TruthTypes' /\ CurrentIsTrue'
  <2>1. faults' \in 0..MaxFaults[family]
    BY <1>1, FaultsStayBounded
  <2> QED BY <1>1, <1>3, <1>4, <1>6, <2>1 DEF TruthInv, TruthTypes, CurrentIsTrue, Sealed
<1>7. CASE UNCHANGED manifests /\ Goto(r, IF family = "scoreboard" THEN "move" ELSE "verify")
  <2>1. PICK p : p = [a EXCEPT !.pc = IF family = "scoreboard" THEN "move" ELSE "verify"]
    OBVIOUS
  <2>2. /\ p.pc = (IF family = "scoreboard" THEN "move" ELSE "verify") /\ p.job = a.job
        /\ p.key = a.key /\ p.rows = a.rows /\ run' = [run EXCEPT ![r] = p]
    BY <1>2, <1>7, <2>1 DEF Attempts, Goto, Become
  <2>3. AttemptIsTrue(p)'
    BY <1>1, <1>2, <1>3, <2>2 DEF AttemptIsTrue, Fixed, Keeping, Planned
  <2>4. /\ manifests' \in [JobIds -> [status : Statuses, key : Keys \cup {None}] \cup {None}]
        /\ ManifestTellsTheTruth'
    BY <1>3, <1>7, ManifestsStay
  <2> QED BY <1>1, <1>2, <1>3, <1>5, <1>6, <2>2, <2>3, <2>4, TruthGoesOn
<1>8. CASE Raise(r, "RUNNING")
  <2>1. run' = [run EXCEPT ![r] = Off]
    BY <1>8 DEF Raise, Become
  <2>2. /\ manifests' \in [JobIds -> [status : Statuses, key : Keys \cup {None}] \cup {None}]
        /\ ManifestTellsTheTruth'
    BY <1>2, <1>3, <1>8, RaiseTells
  <2> QED BY <1>1, <1>2, <1>3, <1>5, <1>6, <2>1, <2>2, OffIsTrue, TruthGoesOn
<1> QED BY <1>7, <1>8 DEF Upload

\* What is found intact is in the store from then on.
LEMMA VerifyTruth ==
  ASSUME GoldInv, TruthInv, NEW r \in Runners, Verify(r)
  PROVE  TruthInv'
<1> DEFINE a == run[r]
           next == CASE family = "factor" -> "live" [] family = "scoreboard" -> "publish"
                     [] OTHER -> "move"
<1>1. /\ a.pc = "verify" /\ (Fault \/ NoFault)
      /\ UNCHANGED <<objects, current, plans, done, family, source, attempts, moved, unread>>
      /\ verified' = IF Intact(r) THEN verified \cup {<<a.key, a.rows>>} ELSE verified
  BY DEF Verify, At
<1>2. /\ a \in Attempts /\ AttemptIsTrue(a) /\ ~At(r, "off") /\ a.job \in JobIds /\ a.key \in Keys
      /\ a.rows \in SUBSET Rows
  BY <1>1, LateFacts
<1>3. /\ verified \subseteq verified' /\ verified' \subseteq Keys \X SUBSET Rows
      /\ \A v \in verified' \ verified : v = <<a.key, a.rows>> /\ objects[a.key] = a.rows
  BY <1>1, <1>2 DEF Intact, TruthInv, TruthTypes
<1>4. VerifiedIsTrue'
  <2>1. SUFFICES ASSUME NEW v \in verified'
                 PROVE  /\ family \notin {"scoreboard", "identity"} => objects[v[1]] = v[2]
                        /\ family = "factor" => plans[v[1][1]] # None /\ v[2] = Planned(v[1][1])
                        /\ family \notin Fixed => v[1][2] <= attempts
    BY <1>1 DEF VerifiedIsTrue, Planned
  <2>2. CASE v \in verified
    BY <2>2 DEF TruthInv, VerifiedIsTrue
  <2>3. CASE v \notin verified
    <3>1. v[1] = a.key /\ v[2] = a.rows /\ objects[a.key] = a.rows
      BY <1>3, <2>3
    <3>2. family = "factor" => a.key[1] = a.job /\ a.rows = Planned(a.job) /\ plans[a.job] # None
      BY <1>1, <1>2 DEF AttemptIsTrue, Fixed
    <3>3. family \notin Fixed => a.key[2] <= attempts
      BY <1>1, <1>2 DEF AttemptIsTrue
    <3> QED BY <3>1, <3>2, <3>3
  <2> QED BY <2>2, <2>3
<1>5. ASSUME manifests' \in [JobIds -> [status : Statuses, key : Keys \cup {None}] \cup {None}]
      PROVE  TruthTypes' /\ CurrentIsTrue'
  <2>1. faults' \in 0..MaxFaults[family]
    BY <1>1, FaultsStayBounded
  <2>2. TruthTypes'
    BY <1>1, <1>3, <1>5, <2>1 DEF TruthInv, TruthTypes
  <2>3. CurrentIsTrue'
    BY <1>1, <1>3 DEF TruthInv, CurrentIsTrue, Sealed
  <2> QED BY <2>2, <2>3
<1>6. CASE /\ Intact(r) /\ Goto(r, next)
           /\ manifests' = [manifests EXCEPT ![a.job] = [status |-> "VERIFIED", key |-> a.key]]
  <2>1. <<a.key, a.rows>> \in verified'
    BY <1>1, <1>6
  <2>2. PICK m : m = [status |-> "VERIFIED", key |-> a.key]
    OBVIOUS
  <2>3. m \in [status : Statuses, key : Keys \cup {None}] /\ m.status = "VERIFIED" /\ m.key = a.key
    BY <1>2, <2>2 DEF Statuses
  <2>4. \E v \in verified' : v[1] = m.key
    BY <2>1, <2>3
  <2>5. /\ manifests' \in [JobIds -> [status : Statuses, key : Keys \cup {None}] \cup {None}]
        /\ ManifestTellsTheTruth'
    <3>1. manifests' = [manifests EXCEPT ![a.job] = m] /\ moved \subseteq moved'
      BY <1>1, <1>6, <2>2
    <3> QED BY <1>2, <1>3, <2>3, <2>4, <3>1, ManifestPut
  <2>6. PICK p : p = [a EXCEPT !.pc = next]
    OBVIOUS
  <2>7. /\ p.pc = next /\ p.job = a.job /\ p.key = a.key /\ p.rows = a.rows
        /\ run' = [run EXCEPT ![r] = p]
    BY <1>2, <1>6, <2>6 DEF Attempts, Goto, Become
  <2>8. AttemptIsTrue(p)'
    <3>1. family = "factor" => a.rows = Planned(a.job) /\ plans[a.job] # None
      BY <1>1, <1>2 DEF AttemptIsTrue
    <3>2. family = "scoreboard" => a.key \in moved
      BY <1>1, <1>2 DEF AttemptIsTrue
    <3>3. IF family \in Fixed THEN a.key = <<a.job, 0>> ELSE a.key[2] <= attempts
      BY <1>1, <1>2 DEF AttemptIsTrue
    <3>4. next = IF family = "factor" THEN "live" ELSE IF family = "scoreboard" THEN "publish" ELSE "move"
      OBVIOUS
    <3>5. CASE family = "factor"
      <4>1. p.pc = "live"
        BY <2>7, <3>4, <3>5
      <4> QED BY <1>1, <2>1, <2>7, <3>1, <3>3, <3>5, <4>1 DEF AttemptIsTrue, Fixed, Keeping, Planned, Sealed
    <3>6. CASE family = "scoreboard"
      <4>1. p.pc = "publish"
        BY <2>7, <3>4, <3>6
      <4> QED BY <1>1, <2>1, <2>7, <3>2, <3>3, <3>6, <4>1 DEF AttemptIsTrue, Fixed, Keeping, Planned, Sealed
    <3>7. CASE family \notin {"factor", "scoreboard"}
      <4>1. p.pc = "move"
        BY <2>7, <3>4, <3>7
      <4> QED BY <1>1, <2>1, <2>7, <3>3, <3>7, <4>1 DEF AttemptIsTrue, Fixed, Keeping, Planned, Sealed
    <3> QED BY <3>5, <3>6, <3>7
  <2>9. /\ UNCHANGED <<family, attempts>> /\ \A j \in JobIds : plans[j] # None => plans'[j] = plans[j]
        /\ \A v \in verified' \ verified : v[1] = a.key
        /\ moved \subseteq moved' /\ TruthTypes' /\ CurrentIsTrue'
    BY <1>1, <1>3, <1>5, <2>5
  <2> HIDE DEF next
  <2> QED BY <1>2, <1>3, <1>4, <2>5, <2>7, <2>8, <2>9, TruthGoesOn
<1>7. ASSUME NEW status \in {"VERIFIED", "FAILED"}, Raise(r, status), status = "VERIFIED" => Intact(r)
      PROVE  TruthInv'
  <2>1. status = "VERIFIED" => \E v \in verified' : v[1] = a.key
    <3>1. SUFFICES ASSUME status = "VERIFIED" PROVE \E v \in verified' : v[1] = a.key
      OBVIOUS
    <3>2. <<a.key, a.rows>> \in verified'
      BY <1>1, <1>7, <3>1
    <3> QED BY <3>2
  <2>2. run' = [run EXCEPT ![r] = Off] /\ moved \subseteq moved'
    BY <1>1, <1>7 DEF Raise, Become
  <2>3. /\ manifests' \in [JobIds -> [status : Statuses, key : Keys \cup {None}] \cup {None}]
        /\ ManifestTellsTheTruth'
    <3>1. status # "PUBLISHED" /\ UNCHANGED family /\ verified \subseteq verified' /\ Raise(r, status)
      BY <1>1, <1>3, <1>7
    <3> HIDE DEF next
    <3>2. /\ (status = "VERIFIED" /\ family \in Keeping) => \E v \in verified' : v[1] = run[r].key
          /\ (status = "PUBLISHED" /\ family = "factor") => run[r].key \in moved'
      BY <2>1, <3>1
    <3>3. ~At(r, "off") /\ moved \subseteq moved'
      BY <1>2, <2>2
    <3> QED BY <3>1, <3>2, <3>3, RaiseTells
  <2>4. /\ UNCHANGED <<family, attempts>> /\ \A j \in JobIds : plans[j] # None => plans'[j] = plans[j]
        /\ \A v \in verified' \ verified : v[1] = a.key
        /\ TruthTypes' /\ CurrentIsTrue'
    BY <1>1, <1>3, <1>5, <2>3
  <2> HIDE DEF next
  <2> QED BY <1>2, <1>3, <1>4, <2>2, <2>3, <2>4, OffIsTrue, TruthGoesOn
<1> QED BY <1>6, <1>7 DEF Verify

\* So does the manifest of the end.
LEMMA PublishTruth ==
  ASSUME GoldInv, TruthInv, NEW r \in Runners, Publish(r)
  PROVE  TruthInv'
<1> DEFINE a == run[r]
<1>1. /\ a.pc = "publish" /\ Quiet /\ UNCHANGED <<objects, current, plans, done>>
      /\ (Fault \/ NoFault)
  BY DEF Publish, At
<1>2. /\ a \in Attempts /\ AttemptIsTrue(a) /\ ~At(r, "off") /\ a.job \in JobIds /\ a.key \in Keys
      /\ a.key \in moved
  BY <1>1, LateFacts DEF AttemptIsTrue
<1>3. UNCHANGED <<family, attempts, verified, moved, unread>>
  BY <1>1 DEF Quiet
<1>4. CASE /\ manifests' = [manifests EXCEPT ![a.job] = [status |-> "PUBLISHED", key |-> a.key]]
           /\ IF family = "factor" THEN Goto(r, "result") ELSE Become(r, Off)
  <2>1. PICK m : m = [status |-> "PUBLISHED", key |-> a.key]
    OBVIOUS
  <2>2. m \in [status : Statuses, key : Keys \cup {None}] /\ m.status = "PUBLISHED" /\ m.key = a.key
        /\ manifests' = [manifests EXCEPT ![a.job] = m]
    BY <1>2, <1>4, <2>1 DEF Statuses
  <2>3. /\ manifests' \in [JobIds -> [status : Statuses, key : Keys \cup {None}] \cup {None}]
        /\ ManifestTellsTheTruth'
    BY <1>2, <1>3, <2>2, ManifestPut
  <2>4. CASE family # "factor"
    BY <1>1, <1>2, <1>4, <2>3, <2>4, TruthEnds, TruthTyped
  <2>5. CASE family = "factor"
    <3>1. PICK p : p = [a EXCEPT !.pc = "result"]
      OBVIOUS
    <3>2. /\ p.pc = "result" /\ p.job = a.job /\ p.key = a.key /\ p.rows = a.rows
          /\ run' = [run EXCEPT ![r] = p]
      BY <1>2, <1>4, <2>5, <3>1 DEF Attempts, Goto, Become
    <3>3. AttemptIsTrue(p)'
      BY <1>1, <1>2, <1>3, <2>5, <3>2 DEF AttemptIsTrue, Fixed, Keeping, Planned
    <3>4. faults' \in 0..MaxFaults[family] /\ done' \in [JobIds -> SUBSET Rows]
      BY <1>1, FaultsStayBounded, TruthTyped
    <3> QED BY <1>1, <1>2, <2>3, <3>2, <3>3, <3>4, TruthProceeds
  <2> QED BY <2>4, <2>5
<1>5. CASE Raise(r, "PUBLISHED")
  <2>1. Become(r, Off)
    BY <1>5 DEF Raise
  <2>2. /\ manifests' \in [JobIds -> [status : Statuses, key : Keys \cup {None}] \cup {None}]
        /\ ManifestTellsTheTruth'
    BY <1>2, <1>3, <1>5, RaiseTells
  <2> QED BY <1>1, <1>2, <2>1, <2>2, TruthEnds, TruthTyped
<1> QED BY <1>4, <1>5 DEF Publish

\* CURRENT moves to what was verified.
LEMMA MoveTruth ==
  ASSUME GoldInv, TruthInv, NEW r \in Runners, MoveIfVersion(r) \/ MoveCurrent(r)
  PROVE  TruthInv'
<1> DEFINE a == run[r]
<1>1. /\ a.pc = "move" /\ (Fault \/ NoFault)
      /\ UNCHANGED <<objects, plans, done, family, source, attempts, verified, unread>>
  BY DEF MoveIfVersion, MoveCurrent, PutCurrent, At
<1>2. /\ a \in Attempts /\ AttemptIsTrue(a) /\ ~At(r, "off") /\ a.job \in JobIds /\ a.key \in Keys
      /\ a.rows \in SUBSET Rows
  BY <1>1, LateFacts
<1>3. Moves(r) \/ Stays
  BY DEF MoveIfVersion, MoveCurrent, PutCurrent
<1>4. moved \subseteq moved' /\ moved' \subseteq Keys
  BY <1>2, <1>3 DEF Moves, Stays, TruthInv, TruthTypes
<1>5. CurrentIsTrue'
  <2>1. CASE Stays
    BY <1>1, <2>1 DEF Stays, TruthInv, CurrentIsTrue, Sealed
  <2>2. CASE Moves(r)
    <3>1. /\ current'.key = a.key /\ current'.rows = a.rows /\ a.key \in moved'
      BY <2>2 DEF Moves, Named
    <3>2. family \notin {"scoreboard", "identity"} => Sealed(a.key, a.rows)
      BY <1>1, <1>2 DEF AttemptIsTrue
    <3> QED BY <1>1, <3>1, <3>2 DEF CurrentIsTrue, Sealed
  <2> QED BY <1>3, <2>1, <2>2
<1>6. VerifiedIsTrue'
  BY <1>1 DEF TruthInv, VerifiedIsTrue, Planned
<1>7. ASSUME manifests' \in [JobIds -> [status : Statuses, key : Keys \cup {None}] \cup {None}]
      PROVE  TruthTypes'
  <2>1. faults' \in 0..MaxFaults[family]
    BY <1>1, FaultsStayBounded
  <2> QED BY <1>1, <1>4, <1>7, <2>1 DEF TruthInv, TruthTypes
<1>8. ASSUME NEW pc \in {"publish", "verify"}, Goto(r, pc), Moves(r), UNCHANGED manifests,
             pc = "verify" => family = "scoreboard"
      PROVE  TruthInv'
  <2>1. PICK p : p = [a EXCEPT !.pc = pc]
    OBVIOUS
  <2>2. /\ p.pc = pc /\ p.job = a.job /\ p.key = a.key /\ p.rows = a.rows
        /\ run' = [run EXCEPT ![r] = p] /\ a.key \in moved'
    BY <1>2, <1>8, <2>1 DEF Attempts, Goto, Become, Moves
  <2>3. AttemptIsTrue(p)'
    BY <1>1, <1>2, <1>8, <2>2 DEF AttemptIsTrue, Fixed, Keeping, Planned
  <2>4. /\ manifests' \in [JobIds -> [status : Statuses, key : Keys \cup {None}] \cup {None}]
        /\ ManifestTellsTheTruth'
    BY <1>1, <1>4, <1>8, ManifestsStay
  <2> QED BY <1>1, <1>2, <1>4, <1>5, <1>6, <1>7, <2>2, <2>3, <2>4, TruthGoesOn
<1>9. ASSUME NEW status \in {"VERIFIED", "RUNNING"}, Raise(r, status)
      PROVE  TruthInv'
  <2>1. family \in Keeping => \E v \in verified' : v[1] = a.key
    <3>1. family \in Keeping => <<a.key, a.rows>> \in verified
      BY <1>1, <1>2 DEF AttemptIsTrue
    <3> QED BY <1>1, <3>1
  <2>2. run' = [run EXCEPT ![r] = Off]
    BY <1>9 DEF Raise, Become
  <2>3. /\ manifests' \in [JobIds -> [status : Statuses, key : Keys \cup {None}] \cup {None}]
        /\ ManifestTellsTheTruth'
    BY <1>1, <1>2, <1>4, <1>9, <2>1, RaiseTells
  <2> QED BY <1>1, <1>2, <1>4, <1>5, <1>6, <1>7, <2>2, <2>3, OffIsTrue, TruthGoesOn
<1> QED BY <1>8, <1>9 DEF MoveIfVersion, MoveCurrent, PutCurrent, Refused

\* The invariant is inductive.
LEMMA StepTruth == GoldInv /\ TruthInv /\ [GPNext]_vars => TruthInv'
<1> SUFFICES ASSUME GoldInv, TruthInv, [GPNext]_vars PROVE TruthInv'
  OBVIOUS
<1>1. CASE UNCHANGED vars
  <2>1. UNCHANGED <<family, objects, current, manifests, plans, done, run, attempts, faults,
                    verified, moved, unread>>
    BY <1>1 DEF vars, store
  <2> QED BY <2>1 DEF TruthInv, TruthTypes, CurrentIsTrue, VerifiedIsTrue, KeysAreOwn, At,
                 ManifestTellsTheTruth, AttemptIsTrue, Planned, Sealed
<1>2. ASSUME NEW r \in Runners, FactorStep(r) \/ BuildStep(r) PROVE TruthInv'
  BY <1>2, FactorTruth, BuildTruth
<1>3. ASSUME NEW r \in Runners, Upload(r) \/ Verify(r) \/ Publish(r) PROVE TruthInv'
  BY <1>3, UploadTruth, VerifyTruth, PublishTruth
<1>4. ASSUME NEW r \in Runners, MoveIfVersion(r) \/ MoveCurrent(r) PROVE TruthInv'
  BY <1>4, MoveTruth
<1> QED BY <1>1, <1>2, <1>3, <1>4, OutsideTruth DEF GPNext

\* Every variable has its type in every reachable state of the five
\* publications of batch_jobs.py: what an attempt has in hand came from the
\* source or from a parent generation.
THEOREM PublicationTypeCorrect == GPSpec => []GPTypeOK
<1>1. GPSpec => [](GoldInv /\ TruthInv)
  BY InitGold, StepGold, InitTruth, StepTruth, PTL DEF GPSpec
<1>2. GoldInv /\ TruthInv => GPTypeOK
  <2> SUFFICES ASSUME GoldInv, TruthInv PROVE GPTypeOK
    OBVIOUS
  <2>1. family \in Families /\ source \subseteq Rows /\ attempts \in 0..MaxAttempts
        /\ faults \in 0..MaxFaults[family] /\ unread \subseteq Rows
    BY DEF GoldInv, StoreTypes, TruthInv, TruthTypes
  <2>2. \A k \in Keys : objects[k] = None \/ objects[k] \subseteq Rows
    BY DEF TruthInv, TruthTypes
  <2>3. current = None \/ (current.key \in Keys /\ current.rows \subseteq Rows /\ current.etag \in Nat)
    BY DEF GoldInv, StoreTypes, Pointers
  <2>4. \A j \in JobIds : /\ manifests[j] = None \/ manifests[j].status \in Statuses
                          /\ done[j] \subseteq Rows
    BY DEF TruthInv, TruthTypes
  <2>5. \A r \in Runners : run[r].rows \subseteq Rows /\ run[r].left \subseteq Rows
    BY DEF GoldInv, StoreTypes, Attempts
  <2> QED BY <2>1, <2>2, <2>3, <2>4, <2>5 DEF GPTypeOK
<1> QED BY <1>1, <1>2, PTL

\* A reader who follows CURRENT finds a generation that was verified, with the
\* bytes that were verified: no crash, retry, lost upload or second runner of
\* batch_jobs.py puts anything else under it. The scoreboard, which moves
\* CURRENT first, the identity graph, whose job id is its key, and the empty
\* sentiment generation, which has no object, are outside.
THEOREM CurrentWasVerified == GPSpec => []CurrentIsVerified
<1>1. GPSpec => [](GoldInv /\ TruthInv)
  BY InitGold, StepGold, InitTruth, StepTruth, PTL DEF GPSpec
<1>2. TruthInv => CurrentIsVerified
  BY DEF TruthInv, CurrentIsTrue, VerifiedIsTrue, CurrentIsVerified, Complete, Sealed
<1> QED BY <1>1, <1>2, PTL

\* A factor generation holds its planned parent and all its planned ticks, no
\* more and no less, however many attempts, crashes and reused chunks it took
\* to build (the plan object and chunk checkpoints of batch_jobs.py).
THEOREM PlansAreBuilt == GPSpec => []TapeIsWhatWasPlanned
<1>1. GPSpec => [](GoldInv /\ TruthInv)
  BY InitGold, StepGold, InitTruth, StepTruth, PTL DEF GPSpec
<1>2. TruthInv => TapeIsWhatWasPlanned
  BY DEF TruthInv, VerifiedIsTrue, TapeIsWhatWasPlanned, Planned
<1> QED BY <1>1, <1>2, PTL

\* A job manifest of batch_jobs.py says PUBLISHED only of a generation that
\* CURRENT has named, and VERIFIED only of one that was verified, also after
\* an uncertain put.
THEOREM ManifestsAreTrue == GPSpec => []ManifestTellsTheTruth
<1>1. GPSpec => [](GoldInv /\ TruthInv)
  BY InitGold, StepGold, InitTruth, StepTruth, PTL DEF GPSpec
<1>2. TruthInv => ManifestTellsTheTruth
  BY DEF TruthInv
<1> QED BY <1>1, <1>2, PTL
===============================================================================
