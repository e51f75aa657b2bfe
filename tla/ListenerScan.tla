----------------------------- MODULE ListenerScan -----------------------------
(***************************************************************************)
(* The ListenBrainz full scan: map workers that aggregate slices of the    *)
(* dump (lb_full_scan.py map), the launcher's seal that merges their       *)
(* checkpoints into the canonical one (lb_launch_parallel_tar_map.py), and *)
(* the reducer jobs (batch_jobs.run_listenbrainz_tar_reduce) that publish  *)
(* the affinity Gold.  Checkpoints are objects in R2, overwritten without  *)
(* a version check; every get and put is a step of its own and may fail.   *)
(*                                                                         *)
(* A batch (four shards) is the unit of the map, a listener partition that *)
(* of the affinity reduction.  What an object holds is abstracted to the   *)
(* cells <<part, batch>> that were summed into it.                         *)
(***************************************************************************)
EXTENDS Integers, Sequences, FiniteSets, SequencesExt

CONSTANTS NBatches,    \* batches of the corpus
          Present,     \* Present[b]: the partitions in which batch b has rows
          Workers,     \* map jobs of the wave plan
          Slice,       \* Slice[w]: its batches, ascending
          Slicers,     \* affinity jobs with a part_offset
          PartSlice,   \* PartSlice[s] = [offset, max] into the sorted partitions
          Reducers,    \* the other reduce jobs
          Phases,      \* Phases[r]: the steps of reducer r
          MaxInstances,\* reduce jobs that run at once
          None,        \* no such object (a model value)
          MaxFaults    \* bound on crashes, failed reads and puts, and superfluous runs

Batches == 0..(NBatches - 1)
Jobs == Workers \cup Slicers \cup Reducers
Full == "full"         \* lb_full_map_1526, the canonical map job
Keys == Workers \cup Slicers \cup {Full}

CellsOf(b) == {<<p, b>> : p \in Present[b]}
AllCells == UNION {CellsOf(b) : b \in Batches}
ExpectedParts == UNION {Present[b] : b \in Batches}

Steps == {"artist_day", "affinity", "affinity_seal", "pairs", "gold"}

Checkpoints ==
  [completed_batches : SeqOf(Batches, NBatches), completed_artist_day : BOOLEAN,
   completed_affinity_partitions : SUBSET ExpectedParts, completed_pairs : BOOLEAN]

ASSUME ScanAssumption ==
  /\ NBatches \in Nat \ {0} /\ MaxInstances \in Nat \ {0} /\ MaxFaults \in Nat
  /\ Present \in [Batches -> SUBSET Nat] /\ IsFiniteSet(ExpectedParts)
  /\ IsFiniteSet(Workers) /\ Slice \in [Workers -> Seq(Batches)]
  /\ \A w \in Workers : \A i, j \in DOMAIN Slice[w] : i < j => Slice[w][i] < Slice[w][j]
  /\ UNION {Range(Slice[w]) : w \in Workers} = Batches
  /\ PartSlice \in [Slicers -> [offset : Nat, max : Nat]]
  /\ Phases \in [Reducers -> Seq(Steps) \ {<<>>}]
  /\ Workers \cap (Slicers \cup Reducers) = {} /\ Slicers \cap Reducers = {}
  /\ Full \notin Workers \cup Slicers
  /\ None \notin Checkpoints /\ \A cells \in SUBSET AllCells : cells # None

VARIABLES
  ckpt,       \* R2: the checkpoint under each job's key
  objects,    \* R2: artifacts, each the set of cells summed into it
  markers,    \* R2: affinity_parts markers under the canonical job
  current,    \* R2: what the generation CURRENT.json names holds
  published,  \* affinity slices whose manifest says PUBLISHED
  job,        \* the processes: pc, checkpoint in memory, work left, steps left
  sealer,     \* the launcher's --seal: pc, workers to read, batches found
  faults

vars == <<ckpt, objects, markers, current, published, job, sealer, faults>>

ScanNames == {<<"artist_day", b>> : b \in Batches}
        \cup {<<"listener_artist", b>> : b \in Batches}
        \cup {<<"affinity", p>> : p \in ExpectedParts}
        \cup {<<"artist_day_out">>, <<"affinity_out">>}

(***************************************************************************)
(* Checkpoints.                                                            *)
(***************************************************************************)
FreshCheckpoint ==
  [completed_batches |-> <<>>, completed_artist_day |-> FALSE,
   completed_affinity_partitions |-> {}, completed_pairs |-> FALSE]

Committed(c) == Range(c.completed_batches)

\* sorted: the numbers of S in their order
Ascending(S) ==
  CHOOSE s \in [1..Cardinality(S) -> S] :
    \A i, j \in 1..Cardinality(S) : i < j => s[i] < s[j]

\* ensure_map_complete
MapComplete(c) == Committed(c) = Batches

Verified(names) == \A n \in names : objects[n] # None

\* committed_map_artifacts: exact ranges in order, artifacts of each batch
CommittedMap(c, names) ==
  /\ MapComplete(c)
  /\ c.completed_batches = [i \in 1..NBatches |-> i - 1]
  /\ Verified(names)

\* mutant: range(BATCH_SHARDS, target, BATCH_SHARDS)
FirstBatchForgotten == {<<"listener_artist", b>> : b \in Batches \ {0}}

ListenerObjects == {<<"listener_artist", b>> : b \in Batches}

MapObjects(b) == {<<"artist_day", b>>, <<"listener_artist", b>>}

ReductionsExist(c) == c.completed_artist_day \/ c.completed_pairs
                      \/ c.completed_affinity_partitions # {}

(***************************************************************************)
(* Processes.  A process that fails or is killed loses its memory: local   *)
(* scratch is removed, so the checkpoint in R2 is all it leaves.           *)
(***************************************************************************)
Off == [pc |-> "off", mem |-> FreshCheckpoint, left |-> <<>>, todo |-> <<>>]

KeyOf(j) == IF j \in Reducers THEN Full ELSE j

Fault == faults < MaxFaults /\ faults' = faults + 1
NoFault == faults' = faults

At(j, pc) == job[j].pc = pc
ReducersRunning == {j \in Slicers \cup Reducers : ~At(j, "off")}
Become(j, p) == job' = [job EXCEPT ![j] = p]

\* A job that raises writes a FAILED manifest.
Fail(j) == Become(j, Off) /\ published' = published \ {j}

\* A put of checkpoint c; next is the process after it.  A put that throws
\* may have taken effect.
Save(j, c, next) ==
  \/ /\ NoFault /\ Become(j, next) /\ UNCHANGED published
     /\ ckpt' = [ckpt EXCEPT ![KeyOf(j)] = c]
  \/ /\ Fault /\ Fail(j)
     /\ ckpt' \in {ckpt, [ckpt EXCEPT ![KeyOf(j)] = c]}

PutObject(n, cells) == objects' = [objects EXCEPT ![n] = cells]

ScanInit ==
  /\ ckpt = [k \in Keys |-> None]
  /\ objects = [n \in ScanNames |-> None]
  /\ markers = {} /\ current = None /\ published = {}
  /\ job = [j \in Jobs |-> Off]
  /\ sealer = [pc |-> "off", todo |-> <<>>, found |-> {}]
  /\ faults = 0

\* The container is killed, or restarted by launcher or watchdog.
Crash(j) ==
  /\ ~At(j, "off") /\ Fault /\ Become(j, Off)
  /\ UNCHANGED <<ckpt, objects, markers, current, published, sealer>>

(***************************************************************************)
(* Map.                                                                    *)
(***************************************************************************)
MapProcess(w, c) == [Off EXCEPT !.pc = "map", !.left = Slice[w], !.mem = c]

\* mutant: a slice with a checkpoint is taken for complete
SliceBegun(w) == ckpt[w] # None

SliceDone(w) == ckpt[w] # None /\ Range(Slice[w]) \subseteq Committed(ckpt[w])

\* load_checkpoint: any exception of the read means a fresh checkpoint.  The
\* launcher may run a complete slice again, the watchdog does not.
Loaded(w) ==
  \/ ~SliceDone(w) /\ NoFault
     /\ Become(w, MapProcess(w, IF ckpt[w] = None THEN FreshCheckpoint ELSE ckpt[w]))
  \/ SliceDone(w) /\ Fault /\ Become(w, MapProcess(w, ckpt[w]))
  \/ ckpt[w] # None /\ Fault /\ Become(w, MapProcess(w, FreshCheckpoint))

\* The start of cmd_map, which refuses to extend a reduced map.
StartMap(w) ==
  /\ At(w, "off") /\ Loaded(w)
  /\ LET c == job'[w].mem IN ReductionsExist(c) => Range(Slice[w]) \subseteq Committed(c)
  /\ UNCHANGED <<ckpt, objects, markers, current, published, sealer>>

\* mutant: a resumed worker repeats the batches it has committed
Repeated(c, b) == FALSE

Resumed(c, b) == b \in Committed(c)

\* A batch committed before is verified and skipped.
SkipBatch(w) ==
  /\ At(w, "map") /\ job[w].left # <<>>
  /\ LET b == Head(job[w].left) IN
       /\ Resumed(job[w].mem, b)
       /\ IF Verified(MapObjects(b))
          THEN Become(w, [job[w] EXCEPT !.left = Tail(@)]) /\ UNCHANGED published
          ELSE Fail(w)
  /\ UNCHANGED <<ckpt, objects, markers, current, sealer, faults>>

\* fetch_shard and the artist-day partial
UploadArtistDay(w) ==
  /\ At(w, "map") /\ job[w].left # <<>>
  /\ LET b == Head(job[w].left) IN
       /\ ~Resumed(job[w].mem, b)
       /\ PutObject(<<"artist_day", b>>, CellsOf(b))
  /\ Become(w, [job[w] EXCEPT !.pc = "listeners"])
  /\ UNCHANGED <<ckpt, markers, current, published, sealer, faults>>

\* mutant: the batch is committed as soon as its artist-day partial is up
UploadOneAndCommit(w) ==
  /\ At(w, "listeners")
  /\ Become(w, [job[w] EXCEPT !.pc = "commit"])
  /\ UNCHANGED <<ckpt, objects, markers, current, published, sealer, faults>>

\* the listener partials, one object for each partition with rows
UploadListeners(w) ==
  /\ At(w, "listeners")
  /\ PutObject(<<"listener_artist", Head(job[w].left)>>, CellsOf(Head(job[w].left)))
  /\ Become(w, [job[w] EXCEPT !.pc = "commit"])
  /\ UNCHANGED <<ckpt, markers, current, published, sealer, faults>>

\* mutant: the range ends behind its last batch
WithNextBatch(c, b) == [c EXCEPT !.completed_batches = Append(@, b + 1)]

\* mutant: the batch replaces those committed before it
WithBatchOnly(c, b) == [c EXCEPT !.completed_batches = <<b>>]

WithBatch(c, b) == [c EXCEPT !.completed_batches = Append(@, b)]

\* Counters, shards, manifest and coverage at once, then save_checkpoint.
CommitBatch(w) ==
  /\ At(w, "commit")
  /\ LET c == WithBatch(job[w].mem, Head(job[w].left)) IN
       Save(w, c, [job[w] EXCEPT !.pc = "map", !.mem = c, !.left = Tail(@)])
  /\ UNCHANGED <<objects, markers, current, sealer>>

\* The last save of cmd_map.
FinishMap(w) ==
  /\ At(w, "map") /\ job[w].left = <<>>
  /\ Save(w, job[w].mem, [job[w] EXCEPT !.pc = "publish", !.todo = <<>>])
  /\ UNCHANGED <<objects, markers, current, sealer>>

\* The manifest of the end.
Publish(j) ==
  /\ At(j, "publish") \/ (At(j, "step") /\ job[j].todo = <<>>)
  /\ Become(j, Off) /\ published' = published \cup ({j} \cap Slicers)
  /\ UNCHANGED <<ckpt, objects, markers, current, sealer, faults>>

(***************************************************************************)
(* The launcher's --seal.                                                  *)
(***************************************************************************)
\* --only-missing filters the plan, and the seal with it.
Missing == {w \in Workers : ~SliceDone(w)}

StartSeal ==
  /\ sealer.pc = "off"
  /\ IF ckpt[Full] = None THEN NoFault ELSE Fault
  /\ \E plan \in {Workers, Missing} :
       sealer' = [pc |-> "read", todo |-> SetToSeq(plan), found |-> {}]
  /\ UNCHANGED <<ckpt, objects, markers, current, published, job>>

\* A checkpoint that cannot be read counts as a missing worker.
SealRead ==
  /\ sealer.pc = "read" /\ sealer.todo # <<>>
  /\ LET c == ckpt[Head(sealer.todo)] IN
     \/ /\ NoFault
        /\ sealer' = [sealer EXCEPT !.todo = Tail(@),
                         !.found = @ \cup (IF c = None THEN {} ELSE Committed(c))]
     \/ /\ c # None /\ Fault
        /\ sealer' = [sealer EXCEPT !.todo = Tail(@)]
  /\ UNCHANGED <<ckpt, objects, markers, current, published, job>>

\* complete: as many shards as the corpus has
Whole(found) == Cardinality(found) >= NBatches

\* The canonical checkpoint is replaced by the merge, whatever it held.
SealPut ==
  /\ sealer.pc = "read" /\ sealer.todo = <<>>
  /\ sealer' = [pc |-> "off", todo |-> <<>>, found |-> {}]
  /\ ckpt' = IF Whole(sealer.found)
             THEN [ckpt EXCEPT ![Full] = [FreshCheckpoint EXCEPT
                     !.completed_batches = Ascending(sealer.found)]]
             ELSE ckpt
  /\ UNCHANGED <<objects, markers, current, published, job, faults>>

(***************************************************************************)
(* Reducer jobs: bootstrap.                                                *)
(***************************************************************************)
SortedParts == Ascending(ExpectedParts)

\* parts[part_offset : part_offset + max_parts], which may reach beyond the end
PartsOf(j) ==
  IF j \in Slicers
  THEN LET end == PartSlice[j].offset + PartSlice[j].max IN
       SubSeq(SortedParts, PartSlice[j].offset + 1,
              IF end < Len(SortedParts) THEN end ELSE Len(SortedParts))
  ELSE SortedParts

\* Nothing is left to do for the job; running it again counts as a fault.
Superfluous(j) ==
  IF j \in Slicers
  THEN j \in published
  ELSE CASE Last(Phases[j]) = "artist_day" -> ckpt[Full].completed_artist_day
         [] Last(Phases[j]) = "affinity_seal" ->
              ckpt[Full].completed_affinity_partitions = ExpectedParts
         [] OTHER -> ckpt[Full].completed_pairs /\ current # None

\* The canonical checkpoint is read; without it the job fails.
Bootstrap(j) ==
  /\ At(j, "off") /\ Cardinality(ReducersRunning) < MaxInstances /\ ckpt[Full] # None
  /\ IF Superfluous(j) THEN Fault ELSE NoFault
  /\ Become(j, [pc |-> IF j \in Slicers THEN "resume" ELSE "boot", mem |-> ckpt[Full],
                left |-> PartsOf(j),
                todo |-> IF j \in Slicers THEN <<"affinity">> ELSE Phases[j]])
  /\ UNCHANGED <<ckpt, objects, markers, current, published, sealer>>

\* A slice resumes from its own checkpoint; any exception means none.
ResumeSlice(s) ==
  /\ At(s, "resume")
  /\ LET Resume(parts) == Become(s, [job[s] EXCEPT !.pc = "boot",
                                       !.mem.completed_affinity_partitions = parts]) IN
     \/ /\ NoFault
        /\ Resume(IF ckpt[s] = None THEN {} ELSE ckpt[s].completed_affinity_partitions)
     \/ ckpt[s] # None /\ Fault /\ Resume({})
  /\ UNCHANGED <<ckpt, objects, markers, current, published, sealer>>

\* What was read is put under the job's key, then the first step begins.
PutBootstrap(j) ==
  /\ At(j, "boot")
  /\ Save(j, job[j].mem, [job[j] EXCEPT !.pc = "step"])
  /\ UNCHANGED <<objects, markers, current, sealer>>

(***************************************************************************)
(* Reducer jobs: the steps.  Each checks its inputs, uploads, and saves.   *)
(***************************************************************************)
InStep(j, s) == At(j, "step") /\ job[j].todo # <<>> /\ Head(job[j].todo) = s

StepDone(j) == [job[j] EXCEPT !.pc = "step", !.todo = Tail(@)]

AffinityObjects(parts) == {<<"affinity", p>> : p \in parts}

AffinityComplete(c) == c.completed_affinity_partitions = ExpectedParts

\* What each step demands before it starts; otherwise the job fails.
Admissible(j) ==
  LET c == job[j].mem IN
  CASE Head(job[j].todo) = "artist_day" ->
         IF c.completed_artist_day THEN Verified({<<"artist_day_out">>})
         ELSE CommittedMap(c, UNION {MapObjects(b) : b \in Batches})
    [] Head(job[j].todo) = "affinity" -> CommittedMap(c, {})
    [] Head(job[j].todo) = "affinity_seal" ->
         CommittedMap(c, {}) /\ ExpectedParts \subseteq markers
         /\ Verified(AffinityObjects(markers))
    [] Head(job[j].todo) = "pairs" ->
         /\ MapComplete(c)
         /\ IF c.completed_pairs THEN Verified({<<"affinity_out">>})
            ELSE CommittedMap(c, {}) /\ AffinityComplete(c)
                 /\ Verified(AffinityObjects(c.completed_affinity_partitions))
    [] Head(job[j].todo) = "gold" -> c.completed_pairs

Refuse(j) ==
  /\ At(j, "step") /\ job[j].todo # <<>> /\ ~Admissible(j) /\ Fail(j)
  /\ UNCHANGED <<ckpt, objects, markers, current, sealer, faults>>

\* A step whose result the checkpoint has already.
AlreadyReduced(j) ==
  /\ \/ InStep(j, "artist_day") /\ job[j].mem.completed_artist_day
     \/ InStep(j, "pairs") /\ job[j].mem.completed_pairs
     \/ InStep(j, "affinity") /\ job[j].left = <<>>
  /\ Admissible(j) /\ Become(j, StepDone(j))
  /\ UNCHANGED <<ckpt, objects, markers, current, published, sealer, faults>>

ReduceArtistDay(j) ==
  /\ InStep(j, "artist_day") /\ ~job[j].mem.completed_artist_day /\ Admissible(j)
  /\ PutObject(<<"artist_day_out">>, UNION {objects[<<"artist_day", b>>] : b \in Batches})
  /\ Become(j, [job[j] EXCEPT !.pc = "save"])
  /\ UNCHANGED <<ckpt, markers, current, published, sealer, faults>>

\* A partition of the slice done before is verified and skipped; its marker
\* is not written again.
SkipPartition(j) ==
  /\ InStep(j, "affinity") /\ job[j].left # <<>> /\ Admissible(j)
  /\ Head(job[j].left) \in job[j].mem.completed_affinity_partitions
  /\ IF Verified(AffinityObjects({Head(job[j].left)}))
     THEN Become(j, [job[j] EXCEPT !.left = Tail(@)]) /\ UNCHANGED published
     ELSE Fail(j)
  /\ UNCHANGED <<ckpt, objects, markers, current, sealer, faults>>

\* Another is downloaded, summed over all batches and uploaded.
ReducePartition(j) ==
  /\ InStep(j, "affinity") /\ job[j].left # <<>> /\ Admissible(j)
  /\ LET p == Head(job[j].left) IN
     /\ p \notin job[j].mem.completed_affinity_partitions
     /\ IF Verified(ListenerObjects)
        THEN /\ PutObject(<<"affinity", p>>,
                          {c \in UNION {objects[n] : n \in ListenerObjects} : c[1] = p})
             /\ Become(j, [job[j] EXCEPT !.pc = "save"]) /\ UNCHANGED published
        ELSE Fail(j) /\ UNCHANGED objects
  /\ UNCHANGED <<ckpt, markers, current, sealer, faults>>

ReducePairs(j) ==
  /\ InStep(j, "pairs") /\ ~job[j].mem.completed_pairs /\ Admissible(j)
  /\ PutObject(<<"affinity_out">>,
               UNION {objects[n] : n \in AffinityObjects(job[j].mem.completed_affinity_partitions)})
  /\ Become(j, [job[j] EXCEPT !.pc = "save"])
  /\ UNCHANGED <<ckpt, markers, current, published, sealer, faults>>

SealAffinity(j) ==
  /\ InStep(j, "affinity_seal") /\ Admissible(j)
  /\ Become(j, [job[j] EXCEPT !.pc = "save"])
  /\ UNCHANGED <<ckpt, objects, markers, current, published, sealer, faults>>

\* What the step adds to the checkpoint.
Reduced(j) ==
  LET c == job[j].mem IN
  CASE Head(job[j].todo) = "artist_day" -> [c EXCEPT !.completed_artist_day = TRUE]
    [] Head(job[j].todo) = "affinity" ->
         [c EXCEPT !.completed_affinity_partitions = @ \cup {Head(job[j].left)}]
    [] Head(job[j].todo) = "affinity_seal" ->
         [c EXCEPT !.completed_affinity_partitions = ExpectedParts]
    [] Head(job[j].todo) = "pairs" -> [c EXCEPT !.completed_pairs = TRUE]

\* save_checkpoint of the step; an affinity partition goes on to its marker.
SaveReduced(j) ==
  /\ At(j, "save")
  /\ Save(j, Reduced(j),
          IF Head(job[j].todo) = "affinity"
          THEN [job[j] EXCEPT !.pc = "marker", !.mem = Reduced(j)]
          ELSE [StepDone(j) EXCEPT !.mem = Reduced(j)])
  /\ UNCHANGED <<objects, markers, current, sealer>>

\* The marker is put after the checkpoint was saved.
PutMarker(j) ==
  /\ At(j, "marker")
  /\ \/ /\ NoFault /\ markers' = markers \cup {Head(job[j].left)} /\ UNCHANGED published
        /\ Become(j, [job[j] EXCEPT !.pc = "step", !.left = Tail(@)])
     \/ /\ Fault /\ Fail(j)
        /\ markers' \in {markers, markers \cup {Head(job[j].left)}}
  /\ UNCHANGED <<ckpt, objects, current, sealer>>

\* The generation is copied and CURRENT moves to it; the put may throw.
PublishGold(j) ==
  /\ InStep(j, "gold") /\ Admissible(j)
  /\ \/ /\ NoFault /\ current' = objects[<<"affinity_out">>]
        /\ Become(j, [job[j] EXCEPT !.pc = "gold"]) /\ UNCHANGED published
     \/ /\ Fault /\ Fail(j) /\ current' \in {current, objects[<<"affinity_out">>]}
  /\ UNCHANGED <<ckpt, objects, markers, sealer>>

\* The gold pointers are put onto the canonical checkpoint.
SaveGold(j) ==
  /\ At(j, "gold") /\ Save(j, job[j].mem, StepDone(j))
  /\ UNCHANGED <<objects, markers, current, sealer>>

MapStep(w) == \/ SkipBatch(w) \/ UploadArtistDay(w) \/ UploadListeners(w)
              \/ CommitBatch(w) \/ FinishMap(w) \/ Publish(w)

ReduceStep(j) == \/ ResumeSlice(j) \/ PutBootstrap(j) \/ Refuse(j) \/ AlreadyReduced(j)
                 \/ ReduceArtistDay(j) \/ SkipPartition(j) \/ ReducePartition(j)
                 \/ ReducePairs(j) \/ SealAffinity(j) \/ SaveReduced(j) \/ PutMarker(j)
                 \/ PublishGold(j) \/ SaveGold(j) \/ Publish(j)

ScanNext ==
  \/ \E w \in Workers : StartMap(w) \/ MapStep(w)
  \/ \E j \in Slicers \cup Reducers : Bootstrap(j) \/ ReduceStep(j)
  \/ \E j \in Jobs : Crash(j)
  \/ StartSeal \/ SealRead \/ SealPut

ScanSpec == ScanInit /\ [][ScanNext]_vars

\* The watchdog restarts a worker whose slice is incomplete (refill); the
\* runtime runs a container it has started.
ScanFairness == \A w \in Workers : WF_vars(StartMap(w)) /\ WF_vars(MapStep(w))

WatchedSpec == ScanSpec /\ ScanFairness

(***************************************************************************)
(* Properties.                                                             *)
(***************************************************************************)
ScanTypeOK ==
  /\ \A k \in Keys : ckpt[k] = None \/ ckpt[k] \in Checkpoints
  /\ \A n \in ScanNames : objects[n] = None \/ objects[n] \subseteq AllCells
  /\ markers \subseteq ExpectedParts /\ published \subseteq Slicers
  /\ \A j \in Jobs : job[j].mem \in Checkpoints

\* Gold never publishes a partial scan: what CURRENT names was summed over
\* every batch and every listener partition, whatever crashed, was read
\* stale, or overwrote the canonical checkpoint in between.
GoldIsWhole == current # None => current = AllCells

\* What a checkpoint says is done, durable or in memory, is in the lake, so
\* that a resume never finds an artifact missing: artifacts are uploaded
\* before they are committed, and no one removes what another committed.
DoneIsInTheLake ==
  \A c \in {ckpt[k] : k \in Keys} \cup {job[j].mem : j \in Jobs} :
    c # None =>
      /\ \A b \in Committed(c) : \A n \in MapObjects(b) : objects[n] = CellsOf(b)
      /\ c.completed_artist_day => objects[<<"artist_day_out">>] = AllCells
      /\ \A p \in c.completed_affinity_partitions :
           objects[<<"affinity", p>>] = {x \in AllCells : x[1] = p}
      /\ c.completed_pairs => objects[<<"affinity_out">>] = AllCells

\* A resume repeats no batch and keeps their order, without which the
\* reducers, who demand the exact ranges, would be blocked for ever; and the
\* canonical checkpoint is whole whenever it exists.
BatchesInOrder ==
  \A k \in Workers \cup {Full} : ckpt[k] # None =>
    /\ ckpt[k].completed_batches = Ascending(Committed(ckpt[k]))
    /\ k = Full => Committed(ckpt[k]) = Batches

\* Without a fault no committed progress of a map or slice job is lost.
ProgressKept ==
  [][\A k \in Workers \cup Slicers : ckpt[k] # None /\ faults' = 0 =>
       /\ Committed(ckpt[k]) \subseteq Committed(ckpt'[k])
       /\ ckpt[k].completed_affinity_partitions
            \subseteq ckpt'[k].completed_affinity_partitions]_vars

\* The watchdog's restarts bring the map to its end: every slice is
\* committed in the end, whatever crashed or could not be read before.
MapCompletes == <>[](\A w \in Workers : ckpt[w] # None /\ Committed(ckpt[w]) = Range(Slice[w]))
===============================================================================
