---------------------------- MODULE GoldPublication ----------------------------
(***************************************************************************)
(* How the batch jobs of cloud/batch_jobs.py publish Gold: build from what *)
(* the sources hold, upload the generation, verify it, move CURRENT.json,  *)
(* and record the state in the job's manifest.  Eight jobs share the       *)
(* phases and differ in how they read their parent, how they move CURRENT, *)
(* and what a failure leaves behind:                                       *)
(*   factor     durable plan, checkpointed chunks, CURRENT by compare-     *)
(*              and-swap on the ETag of the plan (factor_history.py)       *)
(*   terminal   rebuilt from its inputs, compare-and-swap on the ETag read *)
(*              at the start                                               *)
(*   identity   rebuilt, the objects of a job id are overwritten           *)
(*   sentiment  rebuilt                                                    *)
(*   wikimedia, social, spotify   read CURRENT, merge, put                 *)
(*   scoreboard rebuilt; CURRENT moves before the verification             *)
(* A behaviour is about one of them: each has a CURRENT and control keys   *)
(* of its own.  Runners are containers: two of them may run the same job   *)
(* id.  A generation is the set of observations it holds.                  *)
(***************************************************************************)
EXTENDS Integers, FiniteSets

CONSTANTS Families, Runners, JobIds,
          Rows,          \* the observations the sources come to hold
          MaxTicks,      \* params.max_ticks: observations planned for one factor job
          None,
          MaxAttempts,   \* bound on started attempts
          MaxFaults      \* bound on crashes, failed calls and lost uploads, for each job

ASSUME GPAssumption ==
  MaxTicks \in Nat \ {0} /\ MaxAttempts \in Nat \ {0} /\ MaxFaults \in [Families -> Nat]

VARIABLES
  family,     \* the job this behaviour is about
  source,     \* what staging, the inputs or the provider hold
  objects,    \* R2: the generations, by key
  current,    \* R2: CURRENT.json, with its ETag
  manifests,  \* R2: status and generation of each job id's manifest
  plans,      \* R2: plan.json of the factor jobs
  done,       \* R2: chunk checkpoints (factor), checkpoint.json (wikimedia, social)
  results,    \* R2: result.json of the factor jobs
  run,        \* the attempts in progress
  attempts, faults,
  verified,   \* history: what verify_outputs has found under each key
  moved,      \* history: the generations CURRENT has named
  overlap,    \* history: two attempts have run at once
  unread      \* history: observations a build took for missing since a read failed

store == <<objects, current, manifests, plans, done, results>>
vars == <<family, source, store, run, attempts, faults, verified, moved, overlap, unread>>

Conditional == {"factor", "terminal"}
Rebuilt == {"terminal", "identity", "sentiment", "scoreboard"}

Keys == JobIds \X (0..MaxAttempts)

\* The absence of a CURRENT is not one of them, nor that of a plan.
ASSUME NoneAssumption ==
  /\ None \notin [key : Keys, rows : SUBSET Rows, etag : Nat]
  /\ None \notin [etag : Nat, base : SUBSET Rows, selected : SUBSET Rows]

\* A factor generation is a hash of its plan and rows, an identity graph lies
\* under its job id; the others have the time of the build in their key.
KeyFor(j, n) == IF family \in {"factor", "identity"} THEN <<j, 0>> ELSE <<j, n>>

RowsOf(c) == IF c = None THEN {} ELSE c.rows
EtagOf(c) == IF c = None THEN 0 ELSE c.etag

Off == [pc |-> "off", job |-> None, key |-> None, etag |-> 0, base |-> {}, rows |-> {},
        left |-> {}, chunk |-> None, status |-> "RUNNING"]

GPInit ==
  /\ family \in Families /\ source = {}
  /\ objects = [k \in Keys |-> None] /\ current = None
  /\ manifests = [j \in JobIds |-> None] /\ plans = [j \in JobIds |-> None]
  /\ done = [j \in JobIds |-> {}] /\ results = {}
  /\ run = [r \in Runners |-> Off]
  /\ attempts = 0 /\ faults = 0
  /\ verified = {} /\ moved = {} /\ overlap = FALSE /\ unread = {}

At(r, pc) == run[r].pc = pc
Become(r, p) == run' = [run EXCEPT ![r] = p]
Goto(r, pc) == Become(r, [run[r] EXCEPT !.pc = pc])
NoFault == UNCHANGED faults
Fault == faults < MaxFaults[family] /\ faults' = faults + 1
Quiet == UNCHANGED <<family, source, attempts, verified, moved, overlap, unread>>

\* mutant: the publication state is written for the status
PublicationState(status) == "UNPUBLISHED"

\* What the except clause writes into the manifest: factor_history keeps a
\* VERIFIED or PUBLISHED state, terminal and identity a VERIFIED one, the
\* other jobs none.
FinalStatus(status) ==
  CASE family = "factor" /\ status \in {"VERIFIED", "PUBLISHED"} -> status
    [] family \in {"terminal", "identity"} /\ status = "VERIFIED" -> status
    [] OTHER -> "FAILED"

\* An exception after the in-memory status has become status; a failure of
\* the manifest put is swallowed.
Raise(r, status) ==
  /\ Become(r, Off)
  /\ LET m == [status |-> FinalStatus(status), key |-> run[r].key] IN
       manifests' \in {manifests, [manifests EXCEPT ![run[r].job] = m]}

Fails(r) == Fault /\ Raise(r, run[r].status) /\ UNCHANGED <<objects, current, plans, done, results>>

\* Workers and providers come to hold more.
Observe ==
  /\ \E x \in Rows \ source : source' = source \cup {x}
  /\ UNCHANGED <<family, store, run, attempts, faults, verified, moved, overlap, unread>>

Start(r) ==
  /\ At(r, "off") /\ attempts < MaxAttempts /\ attempts' = attempts + 1
  /\ overlap' = (overlap \/ \E q \in Runners : ~At(q, "off"))
  /\ \E j \in JobIds :
       Become(r, [Off EXCEPT !.pc = IF family = "factor" THEN "plan" ELSE "parent",
                             !.job = j, !.key = KeyFor(j, attempts + 1)])
  /\ UNCHANGED <<family, source, store, faults, verified, moved, unread>>

\* The container dies: its scratch and memory are gone, no handler runs.
Crash(r) ==
  /\ ~At(r, "off") /\ Fault /\ Become(r, Off) /\ UNCHANGED store /\ Quiet

\* A call that throws with no effect, anywhere before CURRENT moves.
CallFails(r) ==
  /\ run[r].pc \in {"plan", "putplan", "inputs", "chunk", "parent", "build", "upload", "verify"}
  /\ Fails(r) /\ Quiet

(***************************************************************************)
(* The factor tape.                                                        *)
(***************************************************************************)
\* pending[:max_ticks] of the inventory that the ledger does not have
Selections(inventory, ledger) ==
  {s \in SUBSET (inventory \ ledger) :
     Cardinality(s) = IF Cardinality(inventory \ ledger) < MaxTicks
                      THEN Cardinality(inventory \ ledger) ELSE MaxTicks}

\* The plan is read; the first attempt of a job id reads CURRENT with its
\* ETag, the ledger and the inventory instead.
ReadPlan(r) ==
  /\ At(r, "plan") /\ NoFault
  /\ IF plans[run[r].job] # None
     THEN Goto(r, "inputs")
     ELSE \E s \in Selections(source, RowsOf(current)) :
            Become(r, [run[r] EXCEPT !.pc = "putplan", !.etag = EtagOf(current),
                                     !.base = RowsOf(current), !.left = s])
  /\ UNCHANGED store /\ Quiet

\* put_json_if_version(plan.json, None): only one plan for a job id.
PutPlan(r) ==
  /\ At(r, "putplan") /\ NoFault
  /\ LET j == run[r].job IN
     IF plans[j] = None
     THEN /\ plans' = [plans EXCEPT ![j] =
               [etag |-> run[r].etag, base |-> run[r].base, selected |-> run[r].left]]
          /\ Goto(r, "inputs") /\ UNCHANGED manifests
     ELSE Raise(r, "RUNNING") /\ UNCHANGED plans
  /\ UNCHANGED <<objects, current, done, results>> /\ Quiet

\* result.json answers a job that has completed; otherwise the planned
\* parent is downloaded.
FactorInputs(r) ==
  /\ At(r, "inputs") /\ NoFault
  /\ LET p == plans[run[r].job] IN
     IF run[r].job \in results
     THEN Become(r, Off)
     ELSE Become(r, [run[r] EXCEPT !.pc = "chunk", !.etag = p.etag, !.base = p.base,
                                   !.rows = p.base, !.left = p.selected])
  /\ UNCHANGED store /\ Quiet

\* mutant: a chunk that is reused is not inserted into the tape
SkipChunk(r, x) == [run[r] EXCEPT !.left = @ \ {x}]

ReuseChunk(r, x) == [run[r] EXCEPT !.rows = @ \cup {x}, !.left = @ \ {x}]

\* A checkpointed chunk is reused; another is read at its ETags, uploaded
\* and verified.
ReadChunk(r) ==
  /\ At(r, "chunk") /\ NoFault
  /\ \E x \in run[r].left :
       IF x \in done[run[r].job]
       THEN Become(r, ReuseChunk(r, x))
       ELSE Become(r, [run[r] EXCEPT !.pc = "commit", !.chunk = x])
  /\ UNCHANGED store /\ Quiet

\* put_json_if_version(checkpoint, None)
CommitChunk(r) ==
  /\ At(r, "commit")
  /\ LET j == run[r].job
         x == run[r].chunk
         put == [done EXCEPT ![j] = @ \cup {x}]
     IN \/ /\ NoFault /\ x \notin done[j] /\ done' = put /\ UNCHANGED manifests
           /\ Become(r, [run[r] EXCEPT !.pc = "chunk", !.rows = @ \cup {x}, !.left = @ \ {x}])
        \/ /\ NoFault /\ x \in done[j] /\ Raise(r, "RUNNING") /\ UNCHANGED done
        \/ /\ Fault /\ Raise(r, "RUNNING") /\ done' \in {done, put}
  /\ UNCHANGED <<objects, current, plans, results>> /\ Quiet

\* DISTINCT rows of parent and chunks; an empty tape is refused.
BuildTape(r) ==
  /\ At(r, "chunk") /\ run[r].left = {} /\ NoFault
  /\ IF run[r].rows = {}
     THEN Raise(r, "RUNNING") /\ UNCHANGED <<objects, current, plans, done, results>>
     ELSE Goto(r, "upload") /\ UNCHANGED store
  /\ Quiet

\* mutant: a live generation that is not ours is taken for a lost update
RestoreOlder(r) == Become(r, [run[r] EXCEPT !.pc = "move", !.etag = EtagOf(current)])

\* The plan's parent must still be CURRENT when the generation is published.
OverPlannedParent(r) == Goto(r, "move")

\* A retry after an uncertain publish finds its own generation live.
ReadLive(r) ==
  /\ At(r, "live") /\ NoFault
  /\ IF current # None /\ current.key = run[r].key
     THEN Goto(r, "publish")
     ELSE OverPlannedParent(r)
  /\ UNCHANGED store /\ Quiet

\* result.json, the last put of the job
PutResult(r) ==
  /\ At(r, "result")
  /\ \/ /\ NoFault /\ Become(r, Off) /\ results' = results \cup {run[r].job} /\ UNCHANGED manifests
     \/ /\ Fault /\ Raise(r, "PUBLISHED") /\ results' \in {results, results \cup {run[r].job}}
  /\ UNCHANGED <<objects, current, plans, done>> /\ Quiet

(***************************************************************************)
(* The jobs that rebuild their product.                                    *)
(***************************************************************************)
\* serving_parent_etag, read before any input
ServingVersion(r) == Become(r, [run[r] EXCEPT !.pc = "build", !.etag = EtagOf(current)])

TerminalBegin(r) ==
  /\ family = "terminal" /\ At(r, "parent") /\ NoFault
  /\ ServingVersion(r)
  /\ UNCHANGED store /\ Quiet

\* A product of Gold that is missing is tolerated, and read_checkpoint returns
\* None for a CURRENT it fails to read as for one that does not exist.
Assemble(r, next) ==
  /\ \/ NoFault /\ Become(r, [run[r] EXCEPT !.pc = next, !.rows = source]) /\ UNCHANGED unread
     \/ Fault /\ \E x \in source :
          /\ Become(r, [run[r] EXCEPT !.pc = "upload", !.rows = source \ {x}])
          /\ unread' = unread \cup {x}
  /\ UNCHANGED <<store, family, source, attempts, verified, moved, overlap>>

TerminalBuild(r) == family = "terminal" /\ At(r, "build") /\ Assemble(r, "upload")

IdentityBuild(r) ==
  /\ family = "identity" /\ At(r, "parent") /\ NoFault
  /\ Become(r, [run[r] EXCEPT !.pc = "upload", !.rows = source])
  /\ UNCHANGED store /\ Quiet

\* A sample that cannot be read is skipped.  Without samples CURRENT moves to
\* an empty generation that has no object.
SentimentBuild(r) ==
  family = "sentiment" /\ At(r, "parent") /\ Assemble(r, IF source = {} THEN "move" ELSE "upload")

\* CURRENT moves to the scoreboard as soon as it is uploaded.
ScoreboardBuild(r) == family = "scoreboard" /\ At(r, "parent") /\ Assemble(r, "upload")

(***************************************************************************)
(* The jobs that read CURRENT, merge and put.                              *)
(***************************************************************************)
\* The parent is downloaded; an exception is swallowed and the job goes on
\* without it.  Artists the checkpoint has are not fetched again, unless it
\* cannot be read.
ReadParent(r, completed) ==
  /\ At(r, "parent")
  /\ LET p == [run[r] EXCEPT !.pc = "build", !.left = Rows \ completed] IN
     \/ NoFault /\ Become(r, [p EXCEPT !.base = RowsOf(current)])
     \/ Fault /\ current # None /\ Become(r, p)
     \/ Fault /\ completed # {} /\ Become(r, [p EXCEPT !.base = RowsOf(current), !.left = Rows])
  /\ UNCHANGED store /\ Quiet

WikimediaParent(r) == family = "wikimedia" /\ ReadParent(r, done[run[r].job])
SocialParent(r) == family = "social" /\ ReadParent(r, done[run[r].job])
SpotifyParent(r) == family = "spotify" /\ ReadParent(r, {})

\* The artist is asked for; what comes is kept in memory.
Fetched(r, x, got) == [run[r] EXCEPT !.left = @ \ {x}, !.rows = @ \cup got]

\* checkpoint.json after a batch (of one artist)
Checkpoint(r, x) == [done EXCEPT ![run[r].job] = Rows \ (run[r].left \ {x})]

\* An artist the provider fails to answer for is completed like the others.
FetchCheckpointed(r, has) ==
  /\ At(r, "build")
  /\ \E x \in run[r].left :
     \/ NoFault /\ Become(r, Fetched(r, x, {x} \cap has)) /\ done' = Checkpoint(r, x)
     \/ Fault /\ Become(r, Fetched(r, x, {})) /\ done' = Checkpoint(r, x)
  /\ UNCHANGED <<objects, current, manifests, plans, results>> /\ Quiet

\* Wikimedia asks for the days behind those the parent has.
WikimediaFetch(r) == family = "wikimedia" /\ FetchCheckpointed(r, source \ run[r].base)
SocialFetch(r) == family = "social" /\ FetchCheckpointed(r, source)

\* Spotify keeps no checkpoint; a quota answer ends the cohort.
SpotifyFetch(r) ==
  /\ family = "spotify" /\ At(r, "build")
  /\ \E x \in run[r].left :
     \/ NoFault /\ Become(r, Fetched(r, x, {x} \cap source))
     \/ Fault /\ Become(r, [run[r] EXCEPT !.left = {}])
  /\ UNCHANGED store /\ Quiet

\* UNION BY NAME and one row for each observation key
Merge(base, fresh) == base \cup fresh

\* Nothing new: the manifest says BUILD_COMPLETE and CURRENT stays.
MergeParent(r) ==
  /\ At(r, "build") /\ run[r].left = {} /\ NoFault
  /\ IF run[r].rows = {}
     THEN /\ Become(r, Off)
          /\ manifests' = [manifests EXCEPT ![run[r].job] =
                             [status |-> "BUILD_COMPLETE", key |-> None]]
     ELSE /\ Become(r, [run[r] EXCEPT !.pc = "upload", !.rows = Merge(run[r].base, @)])
          /\ UNCHANGED manifests
  /\ UNCHANGED <<objects, current, plans, done, results>> /\ Quiet

WikimediaMerge(r) == family = "wikimedia" /\ MergeParent(r)
SocialMerge(r) == family = "social" /\ MergeParent(r)
SpotifyMerge(r) == family = "spotify" /\ MergeParent(r)

(***************************************************************************)
(* Upload, verify, publish.                                                *)
(***************************************************************************)
\* The upload may also be acknowledged and lost, or throw after it was done.
Upload(r) ==
  /\ At(r, "upload")
  /\ LET put == [objects EXCEPT ![run[r].key] = run[r].rows]
         next == IF family = "scoreboard" THEN "move" ELSE "verify"
     IN \/ NoFault /\ objects' = put /\ Goto(r, next) /\ UNCHANGED manifests
        \/ Fault /\ UNCHANGED <<objects, manifests>> /\ Goto(r, next)
        \/ Fault /\ objects' = put /\ Raise(r, "RUNNING")
  /\ UNCHANGED <<current, plans, done, results>> /\ Quiet

\* mutant: what was uploaded is taken to be there
TrustUpload(r) == TRUE

\* verify_object: the object exists and has the recorded SHA-256.
Intact(r) == objects[run[r].key] = run[r].rows

\* verify_outputs.  The status is VERIFIED in memory before it is put.
Verify(r) ==
  /\ At(r, "verify")
  /\ LET m == [manifests EXCEPT ![run[r].job] = [status |-> "VERIFIED", key |-> run[r].key]]
         next == CASE family = "factor" -> "live" [] family = "scoreboard" -> "publish"
                   [] OTHER -> "move"
     IN \/ /\ Intact(r) /\ NoFault /\ manifests' = m /\ Goto(r, next)
        \/ Intact(r) /\ Fault /\ Raise(r, "VERIFIED")
        \/ ~Intact(r) /\ NoFault /\ Raise(r, "FAILED")
  /\ verified' = IF Intact(r) THEN verified \cup {<<run[r].key, run[r].rows>>} ELSE verified
  /\ UNCHANGED <<objects, current, plans, done, results,
                 family, source, attempts, moved, overlap, unread>>

Named(r) == [key |-> run[r].key, rows |-> run[r].rows, etag |-> EtagOf(current) + 1]

Moves(r) == current' = Named(r) /\ moved' = moved \cup {run[r].key}
Stays == UNCHANGED <<current, moved>>

\* The put of CURRENT took place and may have thrown all the same.
PutCurrent(r, status) ==
  \/ NoFault /\ Moves(r) /\ Goto(r, "publish") /\ UNCHANGED manifests
  \/ Fault /\ Raise(r, status) /\ (Moves(r) \/ Stays)

\* mutant: a refused put is taken for a publication by someone else
RefusedIsPublished(r) == Goto(r, "publish") /\ UNCHANGED manifests

\* The generation remains VERIFIED.
Refused(r) == Raise(r, "VERIFIED")

MoveIfVersion(r) ==
  /\ family \in Conditional /\ At(r, "move")
  /\ IF EtagOf(current) = run[r].etag
     THEN PutCurrent(r, "VERIFIED")
     ELSE NoFault /\ Refused(r) /\ Stays
  /\ UNCHANGED <<objects, plans, done, results, family, source, attempts, verified, overlap, unread>>

\* write_current_pointer and put_bytes: whatever CURRENT names by now
MoveCurrent(r) ==
  /\ family \notin Conditional /\ At(r, "move")
  /\ IF family = "scoreboard"
     THEN \/ NoFault /\ Moves(r) /\ Goto(r, "verify") /\ UNCHANGED manifests
          \/ Fault /\ Raise(r, "RUNNING") /\ (Moves(r) \/ Stays)
     ELSE PutCurrent(r, "VERIFIED")
  /\ UNCHANGED <<objects, plans, done, results, family, source, attempts, verified, overlap, unread>>

\* The PUBLISHED manifest
Publish(r) ==
  /\ At(r, "publish")
  /\ LET m == [manifests EXCEPT ![run[r].job] = [status |-> "PUBLISHED", key |-> run[r].key]] IN
     \/ /\ NoFault /\ manifests' = m
        /\ IF family = "factor" THEN Goto(r, "result") ELSE Become(r, Off)
     \/ Fault /\ Raise(r, "PUBLISHED")
  /\ UNCHANGED <<objects, current, plans, done, results>> /\ Quiet

FactorStep(r) == \/ ReadPlan(r) \/ PutPlan(r) \/ FactorInputs(r) \/ ReadChunk(r)
                 \/ CommitChunk(r) \/ BuildTape(r) \/ ReadLive(r) \/ PutResult(r)

BuildStep(r) == \/ TerminalBegin(r) \/ TerminalBuild(r) \/ IdentityBuild(r)
                \/ SentimentBuild(r) \/ ScoreboardBuild(r)
                \/ WikimediaParent(r) \/ SocialParent(r) \/ SpotifyParent(r)
                \/ WikimediaFetch(r) \/ SocialFetch(r) \/ SpotifyFetch(r)
                \/ WikimediaMerge(r) \/ SocialMerge(r) \/ SpotifyMerge(r)

GPNext ==
  \/ Observe
  \/ \E r \in Runners :
       \/ Start(r) \/ Crash(r) \/ CallFails(r) \/ FactorStep(r) \/ BuildStep(r)
       \/ Upload(r) \/ Verify(r) \/ MoveIfVersion(r) \/ MoveCurrent(r) \/ Publish(r)

GPSpec == GPInit /\ [][GPNext]_vars

(***************************************************************************)
(* Properties.                                                             *)
(***************************************************************************)
Statuses == {"BUILD_COMPLETE", "VERIFIED", "PUBLISHED", "FAILED"}

GPTypeOK ==
  /\ family \in Families /\ source \subseteq Rows
  /\ \A k \in Keys : objects[k] = None \/ objects[k] \subseteq Rows
  /\ current = None \/ (current.key \in Keys /\ current.rows \subseteq Rows /\ current.etag \in Nat)
  /\ \A j \in JobIds : manifests[j] = None \/ manifests[j].status \in Statuses
  /\ \A j \in JobIds : done[j] \subseteq Rows
  /\ \A r \in Runners : run[r].rows \subseteq Rows /\ run[r].left \subseteq Rows
  /\ attempts \in 0..MaxAttempts /\ faults \in 0..MaxFaults[family] /\ unread \subseteq Rows

Complete(c) == <<c.key, c.rows>> \in verified /\ objects[c.key] = c.rows

\* A reader who follows CURRENT finds a generation that was verified, with the
\* bytes that were verified: no crash, retry, lost upload or second runner
\* puts anything else under it.  The scoreboard, which moves CURRENT first,
\* the identity graph, whose job id is its key, and the empty sentiment
\* generation, which has no object, are outside.
CurrentIsVerified ==
  current # None /\ family \notin {"scoreboard", "identity"} =>
    Complete(current) \/ (family = "sentiment" /\ current.rows = {})

\* CURRENT never loses an observation: for the jobs that compare and swap
\* under any fault and any overlap of attempts, whatever an attempt with an
\* old plan retries, but what a rebuild failed to read; for the others as long
\* as attempts do not overlap and no call fails.
CurrentNeverRegresses ==
  [][(family \in Conditional \/ ~(overlap' \/ faults' > 0))
       => RowsOf(current) \ unread' \subseteq RowsOf(current')]_vars

\* A factor generation holds its planned parent and all its planned ticks, no
\* more and no less, however many attempts, crashes and reused chunks it took
\* to build.
TapeIsWhatWasPlanned ==
  family = "factor" =>
    \A v \in verified : LET p == plans[v[1][1]] IN v[2] = p.base \cup p.selected

\* A manifest says PUBLISHED only of a generation CURRENT has named, and
\* VERIFIED only of one that was verified, also after an uncertain put.
ManifestTellsTheTruth ==
  \A j \in JobIds : manifests[j] # None =>
    /\ manifests[j].status = "PUBLISHED" => manifests[j].key \in moved
    /\ manifests[j].status = "VERIFIED" => \E v \in verified : v[1] = manifests[j].key
===============================================================================
