-------------------------- MODULE ListenerScan_proofs --------------------------
(***************************************************************************)
(* Whatever containers die, reads fail and jobs run twice, the listener    *)
(* scan (lb_full_scan.py and its launcher, seal and reducers) commits      *)
(* nothing it does not have, and publishes nothing but the whole.          *)
(*                                                                         *)
(* An artifact is written by any number of jobs, but always with the same  *)
(* cells, those of its batch or its partition (LakeInv). So an artifact    *)
(* that was there once stays, and what a checkpoint says was true when     *)
(* some job knew it remains true of every copy of it (Held). A reducer     *)
(* works from a canonical checkpoint, which is whole when it exists        *)
(* because the seal counts the batches it found; hence each sum is over    *)
(* everything.                                                             *)
(*                                                                         *)
(* A map worker's batches need more: that its checkpoint lists the first   *)
(* batches of its slice, in their order, and that the batches left to a    *)
(* worker at work are the last ones of it (BatchesFit, Left). A worker     *)
(* that starts again with a fresh checkpoint, because its own could not be *)
(* read, repeats the slice from the beginning.                             *)
(***************************************************************************)
EXTENDS ListenerScan, SequenceTheorems, FiniteSetTheorems, WellFoundedInduction, TLAPS

\* A set of numbers that is not empty has a least one.
LEMMA LeastNatural ==
  ASSUME NEW T \in SUBSET Nat, T # {}
  PROVE  \E x \in T : \A y \in T : x <= y
<1>1. PICK x \in T : \A y \in T : ~ (<<y, x>> \in OpToRel(<, Nat))
  BY NatLessThanWellFounded, WFMin
<1>2. \A y \in T : ~ (y < x)
  BY <1>1 DEF OpToRel
<1> QED BY <1>2

\* The elements of s come in the order of the numbers.
Increasing(s) == \A i, j \in DOMAIN s : i < j => s[i] < s[j]

\* A finite set of numbers can be listed in order: remove its greatest and
\* list the rest.
LEMMA EnumerationExists ==
  ASSUME NEW S \in SUBSET Nat, IsFiniteSet(S)
  PROVE  \E s \in [1..Cardinality(S) -> S] : Increasing(s)
<1> DEFINE Enumerated(U) == \E s \in [1..Cardinality(U) -> U] : Increasing(s)
           Bad == {n \in Nat : \E U \in SUBSET Nat :
                     IsFiniteSet(U) /\ Cardinality(U) = n /\ ~Enumerated(U)}
<1>1. SUFFICES ASSUME Bad # {} PROVE FALSE
  BY FS_CardinalityType
<1>2. PICK n \in Bad : \A m \in Bad : n <= m
  <2>1. Bad \in SUBSET Nat
    OBVIOUS
  <2> HIDE DEF Bad
  <2> QED BY <1>1, <2>1, LeastNatural
<1>3. PICK U \in SUBSET Nat : IsFiniteSet(U) /\ Cardinality(U) = n /\ ~Enumerated(U)
  BY <1>2
<1>4. n \in Nat
  BY <1>2
<1>5. U # {}
  <2>1. SUFFICES ASSUME U = {} PROVE FALSE
    OBVIOUS
  <2>2. Cardinality(U) = 0
    BY <2>1, FS_EmptySet
  <2>3. << >> \in [1..0 -> U] /\ Increasing(<< >>)
    BY DEF Increasing
  <2> QED BY <1>3, <2>2, <2>3
<1>6. PICK least \in U : \A y \in U : least <= y
  BY <1>5, LeastNatural
<1> DEFINE R == U \ {least}
<1>7. IsFiniteSet(R) /\ Cardinality(R) = n - 1 /\ n - 1 \in Nat
  <2>1. IsFiniteSet(R) /\ Cardinality(R) = n - 1
    BY <1>3, <1>6, FS_RemoveElement
  <2> QED BY <1>4, <2>1, FS_CardinalityType
<1>8. Enumerated(R)
  <2>1. n - 1 \notin Bad
    BY <1>2, <1>4
  <2> QED BY <1>7, <2>1
<1>9. PICK r \in [1..n - 1 -> R] : Increasing(r)
  BY <1>7, <1>8
<1> DEFINE s == [i \in 1..n |-> IF i = 1 THEN least ELSE r[i - 1]]
<1>10. s \in [1..n -> U]
  <2>1. \A i \in 1..n : i # 1 => i - 1 \in 1..n - 1
    BY <1>4
  <2> QED BY <1>6, <1>9, <2>1
<1>11. Increasing(s)
  <2>1. ASSUME NEW i \in 1..n, NEW j \in 1..n, i < j PROVE s[i] < s[j]
    <3>1. j - 1 \in 1..n - 1 /\ s[j] = r[j - 1] /\ r[j - 1] \in R
      BY <1>4, <1>9, <2>1
    <3>2. CASE i = 1
      <4>1. s[i] = least /\ s[j] = r[j - 1] /\ r[j - 1] \in U /\ r[j - 1] # least
        BY <3>1, <3>2
      <4>2. least <= r[j - 1] /\ least \in Nat /\ r[j - 1] \in Nat
        BY <1>6, <4>1
      <4> HIDE DEF s
      <4> QED BY <4>1, <4>2
    <3>3. CASE i # 1
      <4>1. i - 1 \in 1..n - 1 /\ s[i] = r[i - 1] /\ i - 1 < j - 1
        BY <1>4, <2>1, <3>3
      <4> QED BY <1>9, <3>1, <4>1 DEF Increasing
    <3> QED BY <3>2, <3>3
  <2> QED BY <2>1 DEF Increasing
<1> QED BY <1>3, <1>10, <1>11

\* Ascending lists the elements of its set, each once and in order.
LEMMA AscendingFacts ==
  ASSUME NEW S \in SUBSET Nat, IsFiniteSet(S)
  PROVE  /\ Ascending(S) \in Seq(S) /\ Len(Ascending(S)) = Cardinality(S)
         /\ Increasing(Ascending(S)) /\ Range(Ascending(S)) = S
<1> DEFINE s == Ascending(S)
           n == Cardinality(S)
<1>1. n \in Nat
  BY FS_CardinalityType
<1>2. s \in [1..n -> S] /\ \A i, j \in 1..n : i < j => s[i] < s[j]
  <2>1. \E q \in [1..n -> S] : \A i, j \in 1..n : i < j => q[i] < q[j]
    BY EnumerationExists DEF Increasing
  <2> QED BY <2>1 DEF Ascending
<1> HIDE DEF s, n
<1>3. s \in Seq(S) /\ Len(s) = n /\ Increasing(s)
  BY <1>1, <1>2 DEF Increasing
<1>4. s \in Injection(1..n, S)
  <2>1. \A i, j \in 1..n : s[i] = s[j] => i = j
    <3>1. \A i \in 1..n : s[i] \in Nat
      BY <1>2
    <3> QED BY <1>1, <1>2, <3>1
  <2> QED BY <1>2, <2>1 DEF Injection, IsInjective
<1>5. s \in Surjection(1..n, S)
  <2>1. Cardinality(1..n) = n
    BY <1>1, FS_Interval
  <2> QED BY <1>4, <2>1, FS_Injection DEF n
<1>6. Range(s) = S
  BY <1>2, <1>5 DEF Surjection, Range
<1> QED BY <1>3, <1>6 DEF s, n

\* An increasing sequence is the ascending one of its elements.
LEMMA AscendingUnique ==
  ASSUME NEW s \in Seq(Nat), Increasing(s)
  PROVE  s = Ascending(Range(s)) /\ Len(s) = Cardinality(Range(s)) /\ IsFiniteSet(Range(s))
<1> DEFINE S == Range(s)
           r == Ascending(S)
<1>1. S \subseteq Nat /\ Len(s) \in Nat /\ DOMAIN s = 1..Len(s)
  BY DEF Range
<1>2. s \in Bijection(1..Len(s), S)
  <2>1. s \in [1..Len(s) -> S] /\ \A y \in S : \E i \in 1..Len(s) : s[i] = y
    BY <1>1 DEF Range
  <2>2. \A i, j \in 1..Len(s) : s[i] = s[j] => i = j
    <3>1. \A i \in 1..Len(s) : s[i] \in Nat
      BY <1>1
    <3> QED BY <1>1, <3>1 DEF Increasing
  <2> QED BY <2>1, <2>2 DEF Bijection, Injection, Surjection, IsInjective
<1>3. IsFiniteSet(S) /\ Cardinality(S) = Len(s)
  <2>1. IsFiniteSet(1..Len(s)) /\ Cardinality(1..Len(s)) = Len(s)
    BY <1>1, FS_Interval
  <2>2. ExistsBijection(1..Len(s), S)
    BY <1>2 DEF ExistsBijection
  <2> QED BY <2>1, <2>2, FS_Bijection
<1>4. r \in Seq(S) /\ Len(r) = Len(s) /\ Increasing(r) /\ Range(r) = S
  BY <1>1, <1>3, AscendingFacts
<1> HIDE DEF r, S
<1>5. DOMAIN r = 1..Len(s)
  BY <1>4
<1>6. Range(s) = S
  BY DEF S
<1> DEFINE Diff == {i \in 1..Len(s) : s[i] # r[i]}
<1>7. Diff = {}
  <2>1. SUFFICES ASSUME Diff # {} PROVE FALSE
    OBVIOUS
  <2>2. PICK i \in Diff : \A k \in Diff : i <= k
    <3>1. Diff \in SUBSET Nat
      OBVIOUS
    <3> HIDE DEF Diff
    <3> QED BY <2>1, <3>1, LeastNatural
  <2>3. i \in 1..Len(s) /\ s[i] # r[i] /\ \A k \in 1..Len(s) : k < i => s[k] = r[k]
    BY <1>1, <2>2
  <2>4. \A k \in 1..Len(s) : s[k] \in S /\ r[k] \in S /\ s[k] \in Nat /\ r[k] \in Nat
    BY <1>1, <1>4, <1>5, <1>6 DEF Range
  <2>5. CASE s[i] < r[i]
    <3>1. PICK k \in 1..Len(s) : r[k] = s[i]
      BY <1>4, <1>5, <2>3, <2>4 DEF Range
    <3>2. k < i => s[k] = r[k]
      BY <2>3
    <3>3. k < i => s[k] < s[i]
      BY <1>1, <2>3 DEF Increasing
    <3>4. i < k => r[i] < r[k]
      BY <1>4, <1>5, <2>3 DEF Increasing
    <3> QED BY <1>1, <2>3, <2>4, <2>5, <3>1, <3>2, <3>3, <3>4
  <2>6. CASE r[i] < s[i]
    <3>1. PICK k \in 1..Len(s) : s[k] = r[i]
      BY <1>1, <1>4, <1>6, <2>3, <2>4 DEF Range
    <3>2. k < i => s[k] = r[k]
      BY <2>3
    <3>3. k < i => r[k] < r[i]
      BY <1>4, <1>5, <2>3 DEF Increasing
    <3>4. i < k => s[i] < s[k]
      BY <1>1, <2>3 DEF Increasing
    <3> QED BY <1>1, <2>3, <2>4, <2>6, <3>1, <3>2, <3>3, <3>4
  <2> QED BY <2>3, <2>4, <2>5, <2>6
<1>8. s = r
  BY <1>1, <1>4, <1>5, <1>7
<1> QED BY <1>3, <1>8 DEF r, S

-----------------------------------------------------------------------------
\* The batches and the partitions are finitely many numbers.
LEMMA BatchFacts ==
  /\ Batches \in SUBSET Nat /\ IsFiniteSet(Batches) /\ Cardinality(Batches) = NBatches
  /\ NBatches \in Nat \ {0}
  /\ ExpectedParts \in SUBSET Nat /\ IsFiniteSet(ExpectedParts)
  /\ \A b \in Batches : CellsOf(b) \in SUBSET AllCells
<1>1. NBatches \in Nat \ {0} /\ Present \in [Batches -> SUBSET Nat] /\ IsFiniteSet(ExpectedParts)
  BY ScanAssumption
<1>2. IsFiniteSet(Batches) /\ Cardinality(Batches) = NBatches
  BY <1>1, FS_Interval DEF Batches
<1>3. Batches \in SUBSET Nat
  BY <1>1 DEF Batches
<1>4. ExpectedParts \in SUBSET Nat
  BY <1>1 DEF ExpectedParts
<1>5. \A b \in Batches : CellsOf(b) \in SUBSET AllCells
  BY DEF AllCells
<1> QED BY <1>1, <1>2, <1>3, <1>4, <1>5

\* The batches as the canonical checkpoint lists them.
Canonical == Ascending(Batches)

\* It lists all of them.
LEMMA CanonicalFacts ==
  /\ Canonical \in Seq(Batches) /\ Range(Canonical) = Batches /\ Len(Canonical) = NBatches
  /\ SortedParts \in Seq(ExpectedParts) /\ Len(SortedParts) \in Nat
BY BatchFacts, AscendingFacts, LenProperties DEF Canonical, SortedParts

\* The cells of listener partition p.
PartCells(p) == {x \in AllCells : x[1] = p}

\* What an artifact is meant to hold.
Meant(n) ==
  CASE n[1] = "artist_day"      -> CellsOf(n[2])
    [] n[1] = "listener_artist" -> CellsOf(n[2])
    [] n[1] = "affinity"        -> PartCells(n[2])
    [] OTHER                    -> AllCells

\* The artifacts of a scan, and what each is meant to hold.
LEMMA MeantFacts ==
  /\ \A b \in Batches : /\ <<"artist_day", b>> \in ScanNames
                        /\ Meant(<<"artist_day", b>>) = CellsOf(b)
                        /\ <<"listener_artist", b>> \in ScanNames
                        /\ Meant(<<"listener_artist", b>>) = CellsOf(b)
  /\ \A p \in ExpectedParts : /\ <<"affinity", p>> \in ScanNames
                              /\ Meant(<<"affinity", p>>) = PartCells(p)
  /\ <<"artist_day_out">> \in ScanNames /\ Meant(<<"artist_day_out">>) = AllCells
  /\ <<"affinity_out">> \in ScanNames /\ Meant(<<"affinity_out">>) = AllCells
  /\ \A n \in ScanNames : Meant(n) \in SUBSET AllCells /\ Meant(n) # None
<1>1. \A b \in Batches : CellsOf(b) \in SUBSET AllCells
  BY BatchFacts
<1>2. \A n \in ScanNames : Meant(n) \in SUBSET AllCells
  <2>1. ASSUME NEW b \in Batches
        PROVE  /\ Meant(<<"artist_day", b>>) = CellsOf(b)
               /\ Meant(<<"listener_artist", b>>) = CellsOf(b)
    BY DEF Meant
  <2>2. ASSUME NEW p \in ExpectedParts PROVE Meant(<<"affinity", p>>) = PartCells(p)
    BY DEF Meant
  <2>3. Meant(<<"artist_day_out">>) = AllCells /\ Meant(<<"affinity_out">>) = AllCells
    BY DEF Meant
  <2>4. \A p : PartCells(p) \in SUBSET AllCells
    BY DEF PartCells
  <2>5. SUFFICES ASSUME NEW n \in ScanNames PROVE Meant(n) \in SUBSET AllCells
    OBVIOUS
  <2>6. \/ \E b \in Batches : n = <<"artist_day", b>> \/ n = <<"listener_artist", b>>
        \/ \E p \in ExpectedParts : n = <<"affinity", p>>
        \/ n = <<"artist_day_out">> \/ n = <<"affinity_out">>
    BY DEF ScanNames
  <2> QED BY <1>1, <2>1, <2>2, <2>3, <2>4, <2>6
<1>3. \A cells \in SUBSET AllCells : cells # None
  BY ScanAssumption
<1> QED BY <1>2, <1>3 DEF Meant, ScanNames

\* An artifact is missing or what it is meant to be.
LakeInv ==
  /\ objects \in [ScanNames -> (SUBSET AllCells) \cup {None}]
  /\ \A n \in ScanNames : objects[n] \in {None, Meant(n)}

\* What checkpoint c says is done is in the lake.
Held(lake, c) ==
  /\ \A b \in Committed(c) : /\ lake[<<"artist_day", b>>] = CellsOf(b)
                             /\ lake[<<"listener_artist", b>>] = CellsOf(b)
  /\ c.completed_artist_day => lake[<<"artist_day_out">>] = AllCells
  /\ \A p \in c.completed_affinity_partitions : lake[<<"affinity", p>>] = PartCells(p)
  /\ c.completed_pairs => lake[<<"affinity_out">>] = AllCells

\* A checkpoint: what the jobs have committed.
Checkpoint ==
  [completed_batches : Seq(Batches), completed_artist_day : BOOLEAN,
   completed_affinity_partitions : SUBSET ExpectedParts, completed_pairs : BOOLEAN]

\* The batches of a worker's checkpoint are the first ones of its slice; those of the
\* canonical checkpoint, and of the slices made from it, are all.
BatchesFit(k, c) ==
  IF k \in Workers
  THEN /\ Len(c.completed_batches) <= Len(Slice[k])
       /\ \A i \in 1..Len(c.completed_batches) : c.completed_batches[i] = Slice[k][i]
  ELSE c.completed_batches = Canonical

\* The checkpoint under key k is true of the lake.
CkptOK(lake, k, c) == c \in Checkpoint /\ Held(lake, c) /\ BatchesFit(k, c)

\* Checkpoint d has lost nothing of c.
Ahead(c, d) == /\ Committed(c) \subseteq Committed(d)
               /\ c.completed_affinity_partitions \subseteq d.completed_affinity_partitions

\* the batches of the slice that are left
Left(w, left) ==
  /\ left \in Seq(Batches) /\ Len(left) <= Len(Slice[w])
  /\ \A i \in 1..Len(left) : left[i] = Slice[w][Len(Slice[w]) - Len(left) + i]

\* A map worker: what it remembers is in the lake, what it is about to commit
\* is there too, and it has skipped no batch.
WorkerOK(lake, w, p) ==
  /\ p.pc \in {"off", "map", "listeners", "commit", "publish"}
  /\ p.mem \in Checkpoint /\ Held(lake, p.mem) /\ BatchesFit(w, p.mem)
  /\ p.pc \in {"map", "listeners", "commit"} =>
       /\ Left(w, p.left)
       /\ Len(Slice[w]) - Len(p.left) <= Len(p.mem.completed_batches)
  /\ p.pc \in {"listeners", "commit"} =>
       /\ p.left # << >> /\ Len(Slice[w]) - Len(p.left) = Len(p.mem.completed_batches)
       /\ lake[<<"artist_day", Head(p.left)>>] = CellsOf(Head(p.left))
  /\ p.pc = "commit" => lake[<<"listener_artist", Head(p.left)>>] = CellsOf(Head(p.left))

\* The result that the step at the head of todo is about to save.
Uploaded(lake, p) ==
  CASE Head(p.todo) = "artist_day"    -> lake[<<"artist_day_out">>] = AllCells
    [] Head(p.todo) = "affinity"      -> /\ p.left # << >>
                                         /\ lake[<<"affinity", Head(p.left)>>] = PartCells(Head(p.left))
    [] Head(p.todo) = "affinity_seal" -> \A q \in ExpectedParts : lake[<<"affinity", q>>] = PartCells(q)
    [] Head(p.todo) = "pairs"         -> lake[<<"affinity_out">>] = AllCells
    [] OTHER                          -> FALSE

\* A reducer: it started from a canonical checkpoint, and what it is about to
\* save is in the lake.
ReducerOK(lake, p) ==
  /\ p.pc \in {"off", "resume", "boot", "step", "save", "marker", "gold"}
  /\ p.mem \in Checkpoint /\ Held(lake, p.mem)
  /\ p.left \in Seq(ExpectedParts) /\ p.todo \in Seq(Steps)
  /\ p.mem.completed_batches = IF p.pc = "off" THEN << >> ELSE Canonical
  /\ p.pc = "save" => p.todo # << >> /\ Uploaded(lake, p)
  /\ p.pc = "marker" => p.left # << >>
  /\ p.pc = "gold" => p.todo # << >>

\* Without a fault a process knows all its own checkpoint holds.
Current(ck, ft, j, p) ==
  j \in Workers \cup Slicers /\ ft = 0 /\ ck # None /\ p.pc \notin {"off", "resume"}
    => Ahead(ck, p.mem)

\* Types of a process.
Process ==
  [pc : {"off", "map", "listeners", "commit", "publish", "resume", "boot", "step", "save",
         "marker", "gold"},
   mem : Checkpoint, left : Seq(Batches) \cup Seq(ExpectedParts), todo : Seq(Steps)]

\* A job at work, with its durable checkpoint ck and the faults ft so far.
JobOK(lake, ck, ft, j, p) ==
  /\ p \in Process
  /\ IF j \in Workers THEN WorkerOK(lake, j, p) ELSE ReducerOK(lake, p)
  /\ p.pc = "resume" => j \in Slicers
  /\ Current(ck, ft, j, p)

\* The seal: the batches it has found are in the lake.
SealerOK(lake, p) ==
  /\ p \in [pc : {"off", "read"}, todo : Seq(Workers), found : SUBSET Batches]
  /\ \A b \in p.found : /\ lake[<<"artist_day", b>>] = CellsOf(b)
                        /\ lake[<<"listener_artist", b>>] = CellsOf(b)

\* The invariant: every checkpoint, durable or remembered, is true of the
\* lake.
ScanInv ==
  /\ LakeInv
  /\ \A k \in Keys : ckpt[k] = None \/ CkptOK(objects, k, ckpt[k])
  /\ DOMAIN ckpt = Keys /\ DOMAIN job = Jobs
  /\ \A j \in Jobs : JobOK(objects, ckpt[KeyOf(j)], faults, j, job[j])
  /\ SealerOK(objects, sealer)
  /\ markers \subseteq ExpectedParts /\ published \subseteq Slicers
  /\ current \in {None, AllCells} /\ faults \in Nat

-----------------------------------------------------------------------------
\* A fresh checkpoint claims nothing.
LEMMA FreshFacts ==
  /\ FreshCheckpoint \in Checkpoint /\ Committed(FreshCheckpoint) = {}
  /\ FreshCheckpoint.completed_batches = << >> /\ FreshCheckpoint.completed_affinity_partitions = {}
  /\ \A lake : Held(lake, FreshCheckpoint)
  /\ \A w \in Workers : BatchesFit(w, FreshCheckpoint)
  /\ Off.pc = "off" /\ Off.mem = FreshCheckpoint /\ Off.left = << >> /\ Off.todo = << >>
  /\ Off \in Process
  /\ \A lake, ck, ft, j : JobOK(lake, ck, ft, j, Off)
<1>1. /\ FreshCheckpoint \in Checkpoint /\ FreshCheckpoint.completed_batches = << >>
      /\ FreshCheckpoint.completed_affinity_partitions = {}
      /\ FreshCheckpoint.completed_artist_day = FALSE /\ FreshCheckpoint.completed_pairs = FALSE
  BY DEF FreshCheckpoint, Checkpoint
<1>2. Committed(FreshCheckpoint) = {}
  BY <1>1 DEF Committed, Range
<1>3. \A lake : Held(lake, FreshCheckpoint)
  BY <1>1, <1>2 DEF Held
<1>4. \A w \in Workers : BatchesFit(w, FreshCheckpoint)
  <2>1. \A w \in Workers : Len(Slice[w]) \in Nat
    BY ScanAssumption
  <2> QED BY <1>1, <2>1 DEF BatchesFit
<1>5. Off.pc = "off" /\ Off.mem = FreshCheckpoint /\ Off.left = << >> /\ Off.todo = << >>
  BY DEF Off
<1>6. Off \in Process
  BY <1>1 DEF Off, Process
<1>7. \A lake, ck, ft, j : JobOK(lake, ck, ft, j, Off)
  BY <1>1, <1>3, <1>4, <1>5, <1>6 DEF JobOK, WorkerOK, ReducerOK, Current
<1> QED BY <1>1, <1>2, <1>3, <1>4, <1>5, <1>6, <1>7

\* An artifact that is there stays as it is.
Grows == \A n \in ScanNames : objects[n] # None => objects'[n] = objects[n]

\* To put what an artifact is meant to hold leaves all others as they are.
LEMMA LakePut ==
  ASSUME LakeInv, NEW n \in ScanNames, PutObject(n, Meant(n))
  PROVE  LakeInv' /\ Grows /\ objects'[n] = Meant(n)
BY MeantFacts DEF LakeInv, PutObject, Grows

\* So does a step that puts none.
LEMMA LakeStays == LakeInv /\ UNCHANGED objects => LakeInv' /\ Grows
BY DEF LakeInv, Grows

\* A name that holds what it is meant to goes on doing so.
LEMMA NameStays ==
  ASSUME Grows
  PROVE  /\ \A b \in Batches : /\ objects[<<"artist_day", b>>] = CellsOf(b)
                                    => objects'[<<"artist_day", b>>] = CellsOf(b)
                               /\ objects[<<"listener_artist", b>>] = CellsOf(b)
                                    => objects'[<<"listener_artist", b>>] = CellsOf(b)
         /\ \A p \in ExpectedParts : objects[<<"affinity", p>>] = PartCells(p)
                                       => objects'[<<"affinity", p>>] = PartCells(p)
         /\ objects[<<"artist_day_out">>] = AllCells => objects'[<<"artist_day_out">>] = AllCells
         /\ objects[<<"affinity_out">>] = AllCells => objects'[<<"affinity_out">>] = AllCells
<1>1. \A n \in ScanNames : objects[n] = Meant(n) => objects'[n] = Meant(n)
  BY MeantFacts DEF Grows
<1> QED BY <1>1, MeantFacts

\* A checkpoint commits batches.
LEMMA CommittedAreBatches == \A c \in Checkpoint : Committed(c) \subseteq Batches
BY DEF Checkpoint, Committed, Range

\* What a checkpoint claims remains true while the lake only grows.
LEMMA HeldStays ==
  ASSUME Grows
  PROVE  \A c \in Checkpoint : Held(objects, c) => Held(objects', c)
<1>1. \A c \in Checkpoint : c.completed_affinity_partitions \subseteq ExpectedParts
                            /\ Committed(c) \subseteq Batches
  BY CommittedAreBatches DEF Checkpoint
<1>2. ASSUME NEW c \in Checkpoint, Held(objects, c) PROVE Held(objects', c)
  <2>1. \A b \in Committed(c) : /\ objects'[<<"artist_day", b>>] = CellsOf(b)
                                /\ objects'[<<"listener_artist", b>>] = CellsOf(b)
    BY <1>1, <1>2, NameStays DEF Held
  <2>2. \A p \in c.completed_affinity_partitions : objects'[<<"affinity", p>>] = PartCells(p)
    BY <1>1, <1>2, NameStays DEF Held
  <2>3. /\ c.completed_artist_day => objects'[<<"artist_day_out">>] = AllCells
        /\ c.completed_pairs => objects'[<<"affinity_out">>] = AllCells
    BY <1>2, NameStays DEF Held
  <2> QED BY <2>1, <2>2, <2>3 DEF Held
<1> QED BY <1>2

\* So does what a job at work knows.
LEMMA JobStays ==
  ASSUME Grows, NEW ck, NEW ft, NEW ft2, ft2 = 0 => ft = 0
  PROVE  \A j, p : JobOK(objects, ck, ft, j, p) => JobOK(objects', ck, ft2, j, p)
<1>1. ASSUME NEW j, NEW p, WorkerOK(objects, j, p) PROVE WorkerOK(objects', j, p)
  <2>1. p.mem \in Checkpoint /\ Held(objects', p.mem)
    BY <1>1, HeldStays DEF WorkerOK
  <2>2. ASSUME p.pc \in {"listeners", "commit"}
        PROVE  Head(p.left) \in Batches
    <3>1. p.left \in Seq(Batches) /\ p.left # << >>
      BY <1>1, <2>2 DEF WorkerOK, Left
    <3> QED BY <3>1
  <2>3. p.pc \in {"listeners", "commit"} => objects'[<<"artist_day", Head(p.left)>>] = CellsOf(Head(p.left))
    BY <1>1, <2>2, NameStays DEF WorkerOK
  <2>4. p.pc = "commit" => objects'[<<"listener_artist", Head(p.left)>>] = CellsOf(Head(p.left))
    BY <1>1, <2>2, NameStays DEF WorkerOK
  <2> QED BY <1>1, <2>1, <2>3, <2>4 DEF WorkerOK
<1>2. ASSUME NEW p, ReducerOK(objects, p) PROVE ReducerOK(objects', p)
  <2>1. p.mem \in Checkpoint /\ Held(objects', p.mem)
    BY <1>2, HeldStays DEF ReducerOK
  <2>2. ASSUME Uploaded(objects, p) PROVE Uploaded(objects', p)
    <3>1. p.left # << >> => Head(p.left) \in ExpectedParts
      BY <1>2 DEF ReducerOK
    <3> QED BY <2>2, <3>1, NameStays DEF Uploaded
  <2> QED BY <1>2, <2>1, <2>2 DEF ReducerOK
<1> QED BY <1>1, <1>2 DEF JobOK, Current

\* The empty sequence, where nothing is left to do.
LEMMA NothingLeft == << >> \in Seq(Steps) /\ << >> \in Seq(Batches) /\ << >> \in Seq(ExpectedParts)
OBVIOUS

\* A map worker and a slice have a key of their own; the reducers share the
\* canonical one.
LEMMA KeyFacts ==
  /\ \A j \in Jobs : KeyOf(j) \in Keys
  /\ \A j \in Workers \cup Slicers : KeyOf(j) = j
  /\ \A i, j \in Jobs : i \in Workers \cup Slicers /\ i # j => KeyOf(i) # KeyOf(j)
  /\ \A w \in Workers : w \in Jobs /\ w \notin Slicers /\ w \notin Reducers
  /\ \A j \in Slicers \cup Reducers : j \in Jobs /\ KeyOf(j) \notin Workers /\ j \notin Workers
  /\ Full \in Keys /\ Full \notin Workers
BY ScanAssumption DEF KeyOf, Keys, Jobs, Full

\* A step of process j: it goes on as p, objects are uploaded, its checkpoint may be put.
LEMMA JobGoesOn ==
  ASSUME ScanInv, NEW j \in Jobs, NEW p, Become(j, p),
         LakeInv', Grows, faults' \in Nat, faults' = 0 => faults = 0,
         \/ UNCHANGED ckpt
         \/ \E c : ckpt' = [ckpt EXCEPT ![KeyOf(j)] = c] /\ CkptOK(objects', KeyOf(j), c),
         JobOK(objects', ckpt'[KeyOf(j)], faults', j, p),
         UNCHANGED sealer, markers' \subseteq ExpectedParts, published' \subseteq Slicers,
         current' \in {None, AllCells}
  PROVE  ScanInv'
<1> USE DEF ScanInv
<1>1. job'[j] = p /\ DOMAIN job' = Jobs /\ \A i \in Jobs : i # j => job'[i] = job[i]
  BY DEF Become
<1>2. KeyOf(j) \in Keys /\ \A k \in Keys : k # KeyOf(j) => ckpt'[k] = ckpt[k]
  BY KeyFacts
<1>3. DOMAIN ckpt' = Keys
  OBVIOUS
<1>4. ASSUME NEW k \in Keys PROVE ckpt'[k] = None \/ CkptOK(objects', k, ckpt'[k])
  <2>1. CASE ckpt'[k] = ckpt[k]
    BY <2>1, HeldStays DEF CkptOK
  <2>2. CASE ckpt'[k] # ckpt[k]
    BY <1>2, <2>2
  <2> QED BY <2>1, <2>2
<1>5. ASSUME NEW i \in Jobs PROVE JobOK(objects', ckpt'[KeyOf(i)], faults', i, job'[i])
  <2>1. CASE i = j
    BY <1>1, <2>1
  <2>2. CASE i # j
    <3>1. job'[i] = job[i] /\ JobOK(objects, ckpt[KeyOf(i)], faults, i, job[i])
      BY <1>1, <2>2
    <3>2. JobOK(objects', ckpt[KeyOf(i)], faults', i, job[i])
      BY <3>1, JobStays
    <3>3. CASE i \in Workers \cup Slicers
      <4>1. KeyOf(i) \in Keys /\ KeyOf(i) # KeyOf(j)
        BY <2>2, <3>3, KeyFacts
      <4>2. ckpt'[KeyOf(i)] = ckpt[KeyOf(i)]
        BY <1>2, <4>1
      <4> QED BY <3>1, <3>2, <4>2
    <3>4. CASE i \notin Workers \cup Slicers
      BY <3>1, <3>2, <3>4 DEF JobOK, Current
    <3> QED BY <3>3, <3>4
  <2> QED BY <2>1, <2>2
<1>6. SealerOK(objects', sealer')
  BY NameStays DEF SealerOK
<1> QED BY <1>1, <1>3, <1>4, <1>5, <1>6

\* Faults only become more.
LEMMA FaultFacts ==
  ASSUME faults \in Nat, Fault \/ NoFault \/ UNCHANGED faults
  PROVE  faults' \in Nat /\ (faults' = 0 => faults = 0) /\ (Fault => faults' # 0)
BY DEF Fault, NoFault

\* A process that fails, raises or is killed.
LEMMA Fails ==
  ASSUME ScanInv, NEW j \in Jobs, Become(j, Off),
         Fault \/ NoFault \/ UNCHANGED faults,
         \/ UNCHANGED ckpt
         \/ \E c : ckpt' = [ckpt EXCEPT ![KeyOf(j)] = c] /\ CkptOK(objects', KeyOf(j), c),
         UNCHANGED <<objects, sealer>>, markers' \subseteq ExpectedParts,
         published' \subseteq Slicers, current' \in {None, AllCells}
  PROVE  ScanInv'
<1>1. LakeInv' /\ Grows
  BY LakeStays DEF ScanInv
<1>2. faults' \in Nat /\ (faults' = 0 => faults = 0)
  BY FaultFacts DEF ScanInv
<1>3. JobOK(objects', ckpt'[KeyOf(j)], faults', j, Off)
  BY FreshFacts
<1> QED BY <1>1, <1>2, <1>3, JobGoesOn

\* A put of a true checkpoint keeps the invariant, whether it throws or not,
\* before it or after.
LEMMA SaveInv ==
  ASSUME ScanInv, NEW j \in Jobs, NEW c, CkptOK(objects, KeyOf(j), c), NEW next,
         Save(j, c, next), JobOK(objects, c, faults, j, next),
         UNCHANGED <<objects, markers, current, sealer>>
  PROVE  ScanInv'
<1>1. KeyOf(j) \in Keys /\ DOMAIN ckpt = Keys /\ published \subseteq Slicers
      /\ markers \subseteq ExpectedParts /\ current \in {None, AllCells}
  BY KeyFacts DEF ScanInv
<1>2. CASE /\ NoFault /\ Become(j, next) /\ UNCHANGED published
           /\ ckpt' = [ckpt EXCEPT ![KeyOf(j)] = c]
  <2>1. LakeInv' /\ Grows
    BY LakeStays DEF ScanInv
  <2>2. faults' \in Nat /\ faults' = faults
    BY <1>2 DEF ScanInv, NoFault
  <2>3. ckpt'[KeyOf(j)] = c
    BY <1>1, <1>2
  <2>4. JobOK(objects', ckpt'[KeyOf(j)], faults', j, next)
    BY <2>2, <2>3
  <2> QED BY <1>1, <1>2, <2>1, <2>2, <2>4, JobGoesOn
<1>3. CASE /\ Fault /\ Fail(j) /\ ckpt' \in {ckpt, [ckpt EXCEPT ![KeyOf(j)] = c]}
  <2>1. published' \subseteq Slicers /\ Become(j, Off)
    BY <1>1, <1>3 DEF Fail
  <2>2. CkptOK(objects', KeyOf(j), c)
    OBVIOUS
  <2> QED BY <1>1, <1>3, <2>1, <2>2, Fails
<1> QED BY <1>2, <1>3 DEF Save

-----------------------------------------------------------------------------
\* What a worker's slice is.
LEMMA SliceFacts ==
  ASSUME NEW w \in Workers
  PROVE  /\ Slice[w] \in Seq(Batches) /\ Len(Slice[w]) \in Nat
         /\ \A i, k \in 1..Len(Slice[w]) : i < k => Slice[w][i] < Slice[w][k]
         /\ \A i \in 1..Len(Slice[w]) : Slice[w][i] \in Nat
<1>1. Slice[w] \in Seq(Batches)
  BY ScanAssumption
<1>2. Len(Slice[w]) \in Nat /\ DOMAIN Slice[w] = 1..Len(Slice[w])
  BY <1>1
<1>3. \A i, k \in DOMAIN Slice[w] : i < k => Slice[w][i] < Slice[w][k]
  BY ScanAssumption
<1>4. \A i \in 1..Len(Slice[w]) : Slice[w][i] \in Nat
  BY <1>1, <1>2, BatchFacts
<1> QED BY <1>1, <1>2, <1>3, <1>4

\* The next batch of a worker is the one behind those it has gone through; it was
\* committed when more were committed than that.
LEMMA NextBatch ==
  ASSUME NEW w \in Workers, NEW p, p.mem \in Checkpoint, BatchesFit(w, p.mem), Left(w, p.left),
         Len(Slice[w]) - Len(p.left) <= Len(p.mem.completed_batches), p.left # << >>
  PROVE  LET n == Len(Slice[w]) - Len(p.left) + 1 IN
         /\ n \in 1..Len(Slice[w]) /\ Head(p.left) = Slice[w][n] /\ Head(p.left) \in Batches
         /\ Head(p.left) \in Committed(p.mem) <=> n <= Len(p.mem.completed_batches)
         /\ Len(Tail(p.left)) = Len(p.left) - 1 /\ Left(w, Tail(p.left))
         /\ Len(p.left) \in Nat /\ Len(p.mem.completed_batches) \in Nat
<1> DEFINE S == Slice[w]
           left == p.left
           done == p.mem.completed_batches
           n == Len(S) - Len(left) + 1
<1>1. left \in Seq(Batches) /\ Len(left) <= Len(S) /\ left # << >>
      /\ \A i \in 1..Len(left) : left[i] = S[Len(S) - Len(left) + i]
  BY DEF Left
<1>2. done \in Seq(Batches)
  BY DEF Checkpoint
<1>3. Len(done) <= Len(S) /\ \A i \in 1..Len(done) : done[i] = S[i]
  BY DEF BatchesFit
<1>4. S \in Seq(Batches) /\ Len(S) \in Nat /\ \A i, k \in 1..Len(S) : i < k => S[i] < S[k]
  BY SliceFacts
<1>5. Committed(p.mem) = Range(done)
  BY DEF Committed
<1>6. Left(w, Tail(left)) <=>
        /\ Tail(left) \in Seq(Batches) /\ Len(Tail(left)) <= Len(S)
        /\ \A i \in 1..Len(Tail(left)) : Tail(left)[i] = S[Len(S) - Len(Tail(left)) + i]
  BY DEF Left
<1> HIDE DEF S, left, done
<1>7. Len(left) \in Nat /\ Len(done) \in Nat
  BY <1>1, <1>2
<1>8. n \in Nat /\ n = Len(S) - Len(left) + 1
  BY <1>1, <1>4, <1>7
<1> HIDE DEF n
<1>9. /\ n \in 1..Len(S) /\ Head(left) = S[n] /\ Head(left) \in Batches
      /\ Head(left) \in Range(done) <=> n <= Len(done)
      /\ Tail(left) \in Seq(Batches) /\ Len(Tail(left)) = Len(left) - 1
      /\ \A i \in 1..Len(Tail(left)) : Tail(left)[i] = S[Len(S) - Len(Tail(left)) + i]
  <2>1. Len(S) \in Nat /\ Len(left) \in Nat \ {0} /\ Len(done) \in Nat
        /\ DOMAIN done = 1..Len(done)
    BY <1>1, <1>2, <1>4, EmptySeq
  <2>2. n \in 1..Len(S) /\ 1 \in 1..Len(left) /\ Len(S) - Len(left) + 1 = n
    BY <1>1, <1>8, <2>1
  <2>3. Head(left) = left[1] /\ left[1] \in Batches
    BY <1>1, <2>1, <2>2
  <2>4. Head(left) = S[n]
    BY <1>1, <2>2, <2>3
  <2>5. \A i \in 1..Len(S) : S[i] \in Nat
    <3>1. \A i \in 1..Len(S) : S[i] \in Batches
      BY <1>4, <2>1
    <3> QED BY <3>1, BatchFacts
  <2>6. ASSUME n <= Len(done) PROVE S[n] \in Range(done)
    <3>1. n \in 1..Len(done)
      BY <2>1, <2>2, <2>6
    <3> QED BY <1>3, <2>1, <3>1 DEF Range
  <2>7. ASSUME S[n] \in Range(done) PROVE n <= Len(done)
    <3>1. PICK i \in 1..Len(done) : done[i] = S[n]
      BY <2>1, <2>7 DEF Range
    <3>2. i \in 1..Len(S) /\ S[i] = S[n] /\ i <= Len(done)
      BY <1>3, <2>1, <2>2, <3>1
    <3>3. ~ (i < n) /\ ~ (n < i)
      BY <1>4, <2>2, <2>5, <3>2
    <3> QED BY <3>2, <3>3, <1>8
  <2>8. Tail(left) \in Seq(Batches) /\ Len(Tail(left)) = Len(left) - 1
        /\ \A i \in 1..(Len(left) - 1) : Tail(left)[i] = left[i + 1]
    BY <1>1, <2>1, HeadTailProperties
  <2>9. ASSUME NEW i \in 1..(Len(left) - 1) PROVE left[i + 1] = S[Len(S) - (Len(left) - 1) + i]
    <3>1. i + 1 \in 1..Len(left)
      BY <2>1
    <3>2. Len(S) - Len(left) + (i + 1) = Len(S) - (Len(left) - 1) + i
      BY <2>1
    <3>3. left[i + 1] = S[Len(S) - Len(left) + (i + 1)]
      BY <1>1, <3>1
    <3> QED BY <3>2, <3>3
  <2> QED BY <2>2, <2>3, <2>4, <2>6, <2>7, <2>8, <2>9
<1>10. Len(Tail(left)) <= Len(S)
  BY <1>1, <1>4, <1>7, <1>9
<1>11. Left(w, Tail(left))
  BY <1>6, <1>9, <1>10
<1> QED BY <1>5, <1>7, <1>9, <1>11 DEF n, S, left, done

\* A map worker that starts, from its checkpoint or from a fresh one, keeps
\* the invariant.
LEMMA StartMapInv ==
  ASSUME ScanInv, NEW w \in Workers, StartMap(w)
  PROVE  ScanInv'
<1>1. w \in Jobs /\ KeyOf(w) = w /\ w \in Keys
  BY KeyFacts
<1>2. UNCHANGED <<ckpt, objects, markers, current, published, sealer>>
  BY DEF StartMap
<1>3. PICK c : /\ Become(w, MapProcess(w, c)) /\ (Fault \/ NoFault)
               /\ c = FreshCheckpoint \/ (ckpt[w] # None /\ c = ckpt[w])
               /\ Fault \/ ckpt[w] = None \/ c = ckpt[w]
  <2>1. CASE ~SliceDone(w) /\ NoFault
             /\ Become(w, MapProcess(w, IF ckpt[w] = None THEN FreshCheckpoint ELSE ckpt[w]))
    BY <2>1
  <2>2. CASE SliceDone(w) /\ Fault /\ Become(w, MapProcess(w, ckpt[w]))
    BY <2>2 DEF SliceDone
  <2>3. CASE ckpt[w] # None /\ Fault /\ Become(w, MapProcess(w, FreshCheckpoint))
    BY <2>3
  <2> QED BY <2>1, <2>2, <2>3 DEF StartMap, Loaded
<1>4. c \in Checkpoint /\ Held(objects, c) /\ BatchesFit(w, c)
  BY <1>1, <1>3, FreshFacts DEF ScanInv, CkptOK
<1> DEFINE p == MapProcess(w, c)
<1>5. p \in Process /\ p.pc = "map" /\ p.left = Slice[w] /\ p.mem = c
  <2>1. Slice[w] \in Seq(Batches) /\ Off \in Process
    BY SliceFacts, FreshFacts
  <2> QED BY <1>4, <2>1 DEF MapProcess, Process
<1> HIDE DEF p
<1>6. WorkerOK(objects, w, p)
  <2>1. Len(c.completed_batches) \in Nat
    BY <1>4 DEF Checkpoint
  <2>2. Left(w, Slice[w])
    BY SliceFacts DEF Left
  <2> QED BY <1>4, <1>5, <2>1, <2>2, SliceFacts DEF WorkerOK
<1>7. Current(ckpt[w], faults', w, p)
  <2>1. Fault => faults' # 0
    BY FaultFacts DEF ScanInv
  <2> QED BY <1>3, <1>5, <2>1 DEF Current, Ahead
<1>8. JobOK(objects', ckpt'[KeyOf(w)], faults', w, p)
  <2>1. JobOK(objects, ckpt[w], faults', w, p)
    BY <1>5, <1>6, <1>7 DEF JobOK, WorkerOK
  <2> QED BY <1>1, <1>2, <2>1
<1>9. /\ LakeInv' /\ Grows /\ faults' \in Nat /\ (faults' = 0 => faults = 0)
      /\ markers' \subseteq ExpectedParts /\ published' \subseteq Slicers
      /\ current' \in {None, AllCells}
  BY <1>2, <1>3, LakeStays, FaultFacts DEF ScanInv
<1>10. Become(w, p)
  BY <1>3 DEF p
<1> QED BY <1>1, <1>2, <1>8, <1>9, <1>10, JobGoesOn

\* What the invariant says of a map worker.
LEMMA WorkerFacts ==
  ASSUME ScanInv, NEW w \in Workers
  PROVE  /\ w \in Jobs /\ KeyOf(w) = w /\ w \in Keys /\ job[w] \in Process
         /\ WorkerOK(objects, w, job[w]) /\ Current(ckpt[w], faults, w, job[w])
         /\ LakeInv /\ DOMAIN ckpt = Keys /\ published \subseteq Slicers
BY KeyFacts DEF ScanInv, JobOK

\* A step of a worker that puts no checkpoint.
LEMMA MapGoesOn ==
  ASSUME ScanInv, NEW w \in Workers, NEW p, Become(w, p), p \in Process,
         LakeInv', Grows, UNCHANGED <<ckpt, markers, current, sealer, faults>>,
         published' \subseteq Slicers,
         WorkerOK(objects', w, p), p.mem = job[w].mem, job[w].pc # "off"
  PROVE  ScanInv'
<1>1. w \in Jobs /\ KeyOf(w) = w /\ Current(ckpt[w], faults, w, job[w])
      /\ job[w].pc \in {"off", "map", "listeners", "commit", "publish"}
  BY WorkerFacts DEF WorkerOK
<1>2. Current(ckpt'[w], faults', w, p)
  BY <1>1 DEF Current
<1>3. JobOK(objects', ckpt'[KeyOf(w)], faults', w, p)
  BY <1>1, <1>2 DEF JobOK, WorkerOK
<1>4. faults' \in Nat /\ (faults' = 0 => faults = 0) /\ markers' \subseteq ExpectedParts
      /\ current' \in {None, AllCells}
  BY DEF ScanInv
<1> QED BY <1>1, <1>3, <1>4, JobGoesOn

\* Skipping a committed batch keeps it.
LEMMA SkipBatchInv ==
  ASSUME ScanInv, NEW w \in Workers, SkipBatch(w)
  PROVE  ScanInv'
<1> DEFINE c == job[w]
           p == [c EXCEPT !.left = Tail(@)]
<1>1. w \in Jobs /\ c \in Process /\ WorkerOK(objects, w, c) /\ LakeInv /\ published \subseteq Slicers
  BY WorkerFacts
<1>2. c.pc = "map" /\ c.left # << >> /\ Head(c.left) \in Committed(c.mem)
      /\ UNCHANGED <<ckpt, objects, markers, current, sealer, faults>>
      /\ ((Become(w, p) /\ UNCHANGED published) \/ Fail(w))
  BY DEF SkipBatch, At, Resumed
<1>3. c.mem \in Checkpoint /\ BatchesFit(w, c.mem) /\ Left(w, c.left) /\ Held(objects, c.mem)
      /\ Len(Slice[w]) - Len(c.left) <= Len(c.mem.completed_batches)
  BY <1>1, <1>2 DEF WorkerOK
<1>4. CASE Fail(w)
  BY <1>1, <1>2, <1>4, Fails DEF Fail, ScanInv
<1>5. CASE Become(w, p) /\ UNCHANGED published
  <2>1. /\ Len(Slice[w]) - Len(c.left) + 1 <= Len(c.mem.completed_batches)
        /\ Len(Tail(c.left)) = Len(c.left) - 1 /\ Left(w, Tail(c.left)) /\ Len(c.left) \in Nat
        /\ Len(c.mem.completed_batches) \in Nat
    BY <1>2, <1>3, NextBatch
  <2>2. p \in Process /\ p.left = Tail(c.left) /\ p.mem = c.mem /\ p.pc = "map"
    BY <1>1, <1>2, <2>1 DEF Process, Left
  <2> HIDE DEF p
  <2>3. Len(Slice[w]) - Len(p.left) <= Len(p.mem.completed_batches)
    <3> DEFINE x == Len(Slice[w])
               y == Len(c.left)
               z == Len(c.mem.completed_batches)
    <3>1. x \in Nat /\ y \in Nat /\ z \in Nat /\ x - y + 1 <= z
      BY <2>1, SliceFacts
    <3>2. Len(p.left) = y - 1 /\ Len(p.mem.completed_batches) = z
      BY <2>1, <2>2
    <3> HIDE DEF x, y, z
    <3>3. x - (y - 1) <= z
      BY <3>1
    <3> QED BY <3>2, <3>3 DEF x
  <2>4. WorkerOK(objects, w, p)
    BY <1>3, <2>1, <2>2, <2>3 DEF WorkerOK
  <2>5. LakeInv' /\ Grows
    BY <1>1, <1>2, LakeStays
  <2> HIDE DEF c
  <2> QED BY <1>1, <1>2, <1>5, <2>2, <2>4, <2>5, MapGoesOn DEF c
<1> QED BY <1>2, <1>4, <1>5

\* So does uploading the partials of a batch.
LEMMA UploadInv ==
  ASSUME ScanInv, NEW w \in Workers, UploadArtistDay(w) \/ UploadListeners(w)
  PROVE  ScanInv'
<1> DEFINE c == job[w]
           b == Head(c.left)
<1>1. w \in Jobs /\ c \in Process /\ WorkerOK(objects, w, c) /\ LakeInv /\ published \subseteq Slicers
  BY WorkerFacts
<1>2. UNCHANGED <<ckpt, markers, current, published, sealer, faults>>
  BY DEF UploadArtistDay, UploadListeners
<1>3. c.pc \in {"map", "listeners"} /\ c.left # << >>
  BY <1>1 DEF UploadArtistDay, UploadListeners, At, WorkerOK
<1>4. c.mem \in Checkpoint /\ BatchesFit(w, c.mem) /\ Left(w, c.left) /\ Held(objects, c.mem)
      /\ Len(Slice[w]) - Len(c.left) <= Len(c.mem.completed_batches)
  BY <1>1, <1>3 DEF WorkerOK
<1>5. /\ b \in Batches
      /\ b \in Committed(c.mem) <=> Len(Slice[w]) - Len(c.left) + 1 <= Len(c.mem.completed_batches)
      /\ Len(c.left) \in Nat /\ Len(c.mem.completed_batches) \in Nat
  BY <1>3, <1>4, NextBatch
<1>6. CASE UploadArtistDay(w)
  <2> DEFINE p == [c EXCEPT !.pc = "listeners"]
  <2>1. Become(w, p) /\ PutObject(<<"artist_day", b>>, CellsOf(b)) /\ b \notin Committed(c.mem)
    BY <1>6 DEF UploadArtistDay, Resumed
  <2>2. p \in Process /\ p.left = c.left /\ p.mem = c.mem /\ p.pc = "listeners"
    BY <1>1 DEF Process
  <2>3. LakeInv' /\ Grows /\ objects'[<<"artist_day", b>>] = CellsOf(b)
    BY <1>1, <1>5, <2>1, MeantFacts, LakePut
  <2>4. Len(Slice[w]) - Len(c.left) = Len(c.mem.completed_batches)
    <3> DEFINE x == Len(Slice[w])
               y == Len(c.left)
               z == Len(c.mem.completed_batches)
    <3>1. x \in Nat /\ y \in Nat /\ z \in Nat /\ x - y <= z /\ ~ (x - y + 1 <= z)
      BY <1>4, <1>5, <2>1, SliceFacts
    <3> HIDE DEF x, y, z
    <3>2. x - y = z
      BY <3>1
    <3> QED BY <3>2 DEF x, y, z
  <2>5. Held(objects', c.mem)
    BY <1>4, <2>3, HeldStays
  <2> HIDE DEF p
  <2>6. WorkerOK(objects', w, p)
    BY <1>3, <1>4, <2>2, <2>3, <2>4, <2>5 DEF WorkerOK
  <2> HIDE DEF c
  <2> QED BY <1>1, <1>2, <1>3, <2>1, <2>2, <2>3, <2>6, MapGoesOn DEF c
<1>7. CASE UploadListeners(w)
  <2> DEFINE p == [c EXCEPT !.pc = "commit"]
  <2>1. Become(w, p) /\ PutObject(<<"listener_artist", b>>, CellsOf(b)) /\ c.pc = "listeners"
    BY <1>7 DEF UploadListeners, At
  <2>2. p \in Process /\ p.left = c.left /\ p.mem = c.mem /\ p.pc = "commit"
    BY <1>1 DEF Process
  <2>3. LakeInv' /\ Grows /\ objects'[<<"listener_artist", b>>] = CellsOf(b)
    BY <1>1, <1>5, <2>1, MeantFacts, LakePut
  <2>4. Len(Slice[w]) - Len(c.left) = Len(c.mem.completed_batches)
        /\ objects[<<"artist_day", b>>] = CellsOf(b)
    BY <1>1, <2>1 DEF WorkerOK
  <2>5. Held(objects', c.mem) /\ objects'[<<"artist_day", b>>] = CellsOf(b)
    BY <1>4, <1>5, <2>3, <2>4, HeldStays, NameStays
  <2> HIDE DEF p
  <2>6. WorkerOK(objects', w, p)
    BY <1>3, <1>4, <2>2, <2>3, <2>4, <2>5 DEF WorkerOK
  <2> HIDE DEF c
  <2> QED BY <1>1, <1>2, <1>3, <2>1, <2>2, <2>3, <2>6, MapGoesOn DEF c
<1> QED BY <1>6, <1>7

\* And committing the batch, which both uploads have preceded.
LEMMA CommitInv ==
  ASSUME ScanInv, NEW w \in Workers, CommitBatch(w)
  PROVE  ScanInv'
<1> DEFINE c == job[w]
           b == Head(c.left)
           done == c.mem.completed_batches
           d == WithBatch(c.mem, b)
           p == [c EXCEPT !.pc = "map", !.mem = d, !.left = Tail(@)]
<1>1. w \in Jobs /\ KeyOf(w) = w /\ c \in Process /\ WorkerOK(objects, w, c)
  BY WorkerFacts
<1>2. c.pc = "commit" /\ UNCHANGED <<objects, markers, current, sealer>> /\ Save(w, d, p)
  BY DEF CommitBatch, At
<1>3. c.mem \in Checkpoint /\ BatchesFit(w, c.mem) /\ Left(w, c.left) /\ Held(objects, c.mem)
      /\ c.left # << >> /\ Len(Slice[w]) - Len(c.left) = Len(done)
      /\ objects[<<"artist_day", b>>] = CellsOf(b) /\ objects[<<"listener_artist", b>>] = CellsOf(b)
  BY <1>1, <1>2 DEF WorkerOK
<1>4. Len(done) \in Nat
  BY <1>3 DEF Checkpoint
<1>5. /\ Len(done) + 1 \in 1..Len(Slice[w]) /\ b = Slice[w][Len(done) + 1] /\ b \in Batches
      /\ Len(Tail(c.left)) = Len(c.left) - 1 /\ Left(w, Tail(c.left)) /\ Len(c.left) \in Nat
  <2>1. Len(Slice[w]) - Len(c.left) <= Len(c.mem.completed_batches)
    <3> DEFINE x == Len(Slice[w]) - Len(c.left)
               z == Len(c.mem.completed_batches)
    <3>1. x = z /\ z \in Nat
      BY <1>3, <1>4
    <3> HIDE DEF x, z
    <3>2. x <= z
      BY <3>1
    <3> QED BY <3>2 DEF x, z
  <2>2. /\ Len(Slice[w]) - Len(c.left) + 1 \in 1..Len(Slice[w])
        /\ b = Slice[w][Len(Slice[w]) - Len(c.left) + 1] /\ b \in Batches
        /\ Len(Tail(c.left)) = Len(c.left) - 1 /\ Left(w, Tail(c.left)) /\ Len(c.left) \in Nat
    BY <1>3, <2>1, NextBatch
  <2> QED BY <1>3, <2>2
<1>6. done \in Seq(Batches) /\ d = [c.mem EXCEPT !.completed_batches = Append(done, b)]
  BY <1>3 DEF Checkpoint, WithBatch
<1>7. /\ Append(done, b) \in Seq(Batches) /\ Len(Append(done, b)) = Len(done) + 1
      /\ \A i \in 1..Len(done) : Append(done, b)[i] = done[i]
      /\ Append(done, b)[Len(done) + 1] = b
      /\ Range(Append(done, b)) = Range(done) \cup {b}
  <2>1. /\ Append(done, b) \in Seq(Batches) /\ Len(Append(done, b)) = Len(done) + 1
        /\ \A i \in 1..Len(done) : Append(done, b)[i] = done[i]
        /\ Append(done, b)[Len(done) + 1] = b
    <3> HIDE DEF done, b
    <3> QED BY <1>5, <1>6, AppendProperties
  <2>2. DOMAIN done = 1..Len(done) /\ DOMAIN Append(done, b) = 1..(Len(done) + 1)
    BY <1>6, <2>1, LenProperties
  <2> HIDE DEF done, b
  <2> QED BY <1>4, <2>1, <2>2 DEF Range
<1>8. d \in Checkpoint /\ d.completed_batches = Append(done, b)
      /\ d.completed_affinity_partitions = c.mem.completed_affinity_partitions
      /\ d.completed_artist_day = c.mem.completed_artist_day
      /\ d.completed_pairs = c.mem.completed_pairs
  BY <1>3, <1>6, <1>7 DEF Checkpoint
<1> HIDE DEF d
<1>9. Held(objects, d)
  BY <1>3, <1>7, <1>8 DEF Held, Committed
<1>10. BatchesFit(w, d)
  <2>1. Len(Append(done, b)) <= Len(Slice[w])
    BY <1>5, <1>7, SliceFacts
  <2>2. \A i \in 1..Len(done) : done[i] = Slice[w][i]
    BY <1>3 DEF BatchesFit
  <2>3. ASSUME NEW i \in 1..(Len(done) + 1) PROVE Append(done, b)[i] = Slice[w][i]
    <3>1. i = Len(done) + 1 \/ i \in 1..Len(done)
      BY <1>4
    <3> QED BY <1>5, <1>7, <2>2, <3>1
  <2> QED BY <1>7, <1>8, <2>1, <2>3 DEF BatchesFit
<1>11. p \in Process /\ p.pc = "map" /\ p.mem = d /\ p.left = Tail(c.left)
  BY <1>1, <1>5, <1>8 DEF Process, Left
<1> HIDE DEF p
<1>12. WorkerOK(objects, w, p)
  <2>1. Len(Slice[w]) - Len(p.left) <= Len(p.mem.completed_batches)
    <3>1. Len(p.left) = Len(c.left) - 1 /\ Len(p.mem.completed_batches) = Len(done) + 1
      BY <1>5, <1>7, <1>8, <1>11
    <3> DEFINE x == Len(Slice[w])
               y == Len(c.left)
               z == Len(done)
    <3>2. x \in Nat /\ y \in Nat /\ z \in Nat /\ x - y = z
      BY <1>3, <1>4, <1>5, SliceFacts
    <3>3. Len(p.left) = y - 1 /\ Len(p.mem.completed_batches) = z + 1
      BY <3>1
    <3> HIDE DEF x, y, z
    <3>4. x - (y - 1) <= z + 1
      BY <3>2
    <3> QED BY <3>3, <3>4 DEF x
  <2> QED BY <1>5, <1>8, <1>9, <1>10, <1>11, <2>1 DEF WorkerOK
<1>13. JobOK(objects, d, faults, w, p)
  BY <1>11, <1>12 DEF JobOK, WorkerOK, Current, Ahead
<1>14. CkptOK(objects, KeyOf(w), d)
  BY <1>1, <1>8, <1>9, <1>10 DEF CkptOK
<1> QED BY <1>1, <1>2, <1>13, <1>14, SaveInv

\* And the end of a map.
LEMMA EndMapInv ==
  ASSUME ScanInv, NEW w \in Workers, FinishMap(w) \/ Publish(w)
  PROVE  ScanInv'
<1> DEFINE c == job[w]
<1>1. w \in Jobs /\ KeyOf(w) = w /\ c \in Process /\ WorkerOK(objects, w, c)
      /\ published \subseteq Slicers
  BY WorkerFacts
<1>2. CASE FinishMap(w)
  <2> DEFINE p == [c EXCEPT !.pc = "publish", !.todo = << >>]
  <2>1. Save(w, c.mem, p) /\ UNCHANGED <<objects, markers, current, sealer>>
    BY <1>2 DEF FinishMap
  <2>2. p \in Process /\ p.pc = "publish" /\ p.mem = c.mem
    BY <1>1, NothingLeft DEF Process
  <2> HIDE DEF p
  <2>3. c.mem \in Checkpoint /\ BatchesFit(w, c.mem) /\ Held(objects, c.mem)
    BY <1>1 DEF WorkerOK
  <2>4. JobOK(objects, c.mem, faults, w, p)
    BY <2>2, <2>3 DEF JobOK, WorkerOK, Current, Ahead
  <2>5. CkptOK(objects, KeyOf(w), c.mem)
    BY <1>1, <2>3 DEF CkptOK
  <2> HIDE DEF c
  <2> QED BY <1>1, <2>1, <2>4, <2>5, SaveInv
<1>3. CASE Publish(w)
  <2>1. Become(w, Off) /\ published' \subseteq Slicers
        /\ UNCHANGED <<ckpt, objects, markers, current, sealer, faults>>
    BY <1>1, <1>3 DEF Publish
  <2> QED BY <1>1, <2>1, Fails DEF ScanInv
<1> QED BY <1>2, <1>3

-----------------------------------------------------------------------------
\* A step of the seal leaves the jobs alone.
LEMMA SealerGoesOn ==
  ASSUME ScanInv, UNCHANGED <<objects, markers, current, published, job>>,
         Fault \/ NoFault \/ UNCHANGED faults, SealerOK(objects, sealer'),
         \/ UNCHANGED ckpt
         \/ \E c : ckpt' = [ckpt EXCEPT ![Full] = c] /\ CkptOK(objects, Full, c)
  PROVE  ScanInv'
<1>1. LakeInv' /\ Grows /\ faults' \in Nat /\ (faults' = 0 => faults = 0) /\ Full \in Keys
  BY LakeStays, FaultFacts, KeyFacts DEF ScanInv
<1>2. DOMAIN ckpt' = Keys /\ \A k \in Keys : ckpt'[k] = None \/ CkptOK(objects', k, ckpt'[k])
  BY <1>1 DEF ScanInv
<1>3. \A k \in Keys \ {Full} : ckpt'[k] = ckpt[k]
  BY DEF ScanInv
<1>4. ASSUME NEW i \in Jobs PROVE JobOK(objects', ckpt'[KeyOf(i)], faults', i, job'[i])
  <2>1. JobOK(objects, ckpt[KeyOf(i)], faults, i, job[i])
    BY DEF ScanInv
  <2>2. JobOK(objects', ckpt[KeyOf(i)], faults', i, job[i])
    BY <1>1, <2>1, JobStays
  <2>3. CASE i \in Workers \cup Slicers
    <3>1. KeyOf(i) \in Keys \ {Full}
      BY <2>3, KeyFacts, ScanAssumption
    <3> QED BY <1>3, <2>2, <3>1
  <2>4. CASE i \notin Workers \cup Slicers
    BY <2>2, <2>4 DEF JobOK, Current
  <2> QED BY <2>3, <2>4
<1>5. SealerOK(objects', sealer') /\ markers' \subseteq ExpectedParts /\ published' \subseteq Slicers
      /\ current' \in {None, AllCells} /\ DOMAIN job' = Jobs
  BY DEF ScanInv
<1> QED BY <1>1, <1>2, <1>4, <1>5 DEF ScanInv

\* The seal's plan is a list of workers.
LEMMA PlanFacts ==
  ASSUME NEW plan \in SUBSET Workers
  PROVE  SetToSeq(plan) \in Seq(Workers)
<1>1. IsFiniteSet(plan)
  BY ScanAssumption, FS_Subset
<1>2. PICK f : f \in Bijection(1..Cardinality(plan), plan) /\ Cardinality(plan) \in Nat
  BY <1>1, FS_CardinalityType DEF ExistsBijection
<1>3. f \in [1..Cardinality(plan) -> plan] /\ IsInjective(f)
  BY <1>2 DEF Bijection, Injection, IsInjective
<1>4. SetToSeq(plan) \in [1..Cardinality(plan) -> plan]
  BY <1>3 DEF SetToSeq
<1> QED BY <1>2, <1>4

\* The seal keeps it: what it merges it has found in true checkpoints.
LEMMA SealInv ==
  ASSUME ScanInv, StartSeal \/ SealRead \/ SealPut
  PROVE  ScanInv'
<1>1. UNCHANGED <<objects, markers, current, published, job>> /\ (Fault \/ NoFault \/ UNCHANGED faults)
  BY DEF StartSeal, SealRead, SealPut
<1>2. SealerOK(objects, sealer)
  BY DEF ScanInv
<1>3. CASE StartSeal
  <2>1. PICK plan \in {Workers, Missing} :
          sealer' = [pc |-> "read", todo |-> SetToSeq(plan), found |-> {}]
    BY <1>3 DEF StartSeal
  <2>2. plan \in SUBSET Workers /\ UNCHANGED ckpt
    BY <1>3 DEF Missing, StartSeal
  <2>3. SetToSeq(plan) \in Seq(Workers)
    BY <2>2, PlanFacts
  <2>4. SealerOK(objects, sealer')
    BY <2>1, <2>3 DEF SealerOK
  <2> QED BY <1>1, <2>2, <2>4, SealerGoesOn
<1>4. CASE SealRead
  <2> DEFINE c == ckpt[Head(sealer.todo)]
  <2>1. sealer.todo # << >> /\ UNCHANGED ckpt
    BY <1>4 DEF SealRead
  <2>2. sealer.todo \in Seq(Workers) /\ Tail(sealer.todo) \in Seq(Workers)
        /\ Head(sealer.todo) \in Workers
    BY <1>2, <2>1 DEF SealerOK
  <2>3. c = None \/ CkptOK(objects, Head(sealer.todo), c)
    BY <2>2, KeyFacts DEF ScanInv, Keys
  <2>4. PICK more : /\ sealer' = [sealer EXCEPT !.todo = Tail(@), !.found = @ \cup more]
                    /\ more = {} \/ (c # None /\ more = Committed(c))
    <3>1. CASE /\ NoFault
               /\ sealer' = [sealer EXCEPT !.todo = Tail(@),
                                !.found = @ \cup (IF c = None THEN {} ELSE Committed(c))]
      BY <3>1
    <3>2. CASE sealer' = [sealer EXCEPT !.todo = Tail(@)]
      <4>1. sealer' = [sealer EXCEPT !.todo = Tail(@), !.found = @ \cup {}]
        BY <3>2, <1>2 DEF SealerOK
      <4> QED BY <4>1
    <3> QED BY <1>4, <3>1, <3>2 DEF SealRead
  <2>5. more \subseteq Batches
        /\ \A b \in more : /\ objects[<<"artist_day", b>>] = CellsOf(b)
                           /\ objects[<<"listener_artist", b>>] = CellsOf(b)
    BY <2>3, <2>4, CommittedAreBatches DEF CkptOK, Held
  <2>6. SealerOK(objects, sealer')
    BY <1>2, <2>2, <2>4, <2>5 DEF SealerOK
  <2> QED BY <1>1, <2>1, <2>6, SealerGoesOn
<1>5. CASE SealPut
  <2>1. sealer' = [pc |-> "off", todo |-> << >>, found |-> {}]
    BY <1>5 DEF SealPut
  <2>2. SealerOK(objects, sealer')
    BY <2>1 DEF SealerOK
  <2>3. CASE ~Whole(sealer.found)
    BY <1>1, <1>5, <2>2, <2>3, SealerGoesOn DEF SealPut
  <2>4. CASE Whole(sealer.found)
    <3> DEFINE c == [FreshCheckpoint EXCEPT !.completed_batches = Ascending(sealer.found)]
    <3>1. ckpt' = [ckpt EXCEPT ![Full] = c]
      BY <1>5, <2>4 DEF SealPut
    <3>2. sealer.found = Batches
      <4>1. sealer.found \subseteq Batches /\ Cardinality(sealer.found) >= Cardinality(Batches)
        BY <1>2, <2>4, BatchFacts DEF SealerOK, Whole
      <4>2. /\ IsFiniteSet(sealer.found)
            /\ Cardinality(sealer.found) <= Cardinality(Batches)
            /\ Cardinality(sealer.found) = Cardinality(Batches) => sealer.found = Batches
        BY <4>1, BatchFacts, FS_Subset
      <4>3. Cardinality(sealer.found) \in Nat /\ Cardinality(Batches) \in Nat
        BY <4>2, BatchFacts, FS_CardinalityType
      <4> QED BY <4>1, <4>2, <4>3
    <3>3. /\ c \in Checkpoint /\ c.completed_batches = Canonical
          /\ c.completed_artist_day = FALSE /\ c.completed_pairs = FALSE
          /\ c.completed_affinity_partitions = {}
      BY <3>2, CanonicalFacts DEF FreshCheckpoint, Checkpoint, Canonical
    <3> HIDE DEF c
    <3>4. Committed(c) = Batches
      BY <3>3, CanonicalFacts DEF Committed
    <3>5. Held(objects, c)
      BY <1>2, <3>2, <3>3, <3>4 DEF Held, SealerOK
    <3>6. CkptOK(objects, Full, c)
      BY <3>3, <3>5, KeyFacts DEF CkptOK, BatchesFit
    <3> QED BY <1>1, <2>2, <3>1, <3>6, SealerGoesOn
  <2> QED BY <2>3, <2>4
<1> QED BY <1>3, <1>4, <1>5

-----------------------------------------------------------------------------
\* What the invariant says of a reducer.
LEMMA ReducerFacts ==
  ASSUME ScanInv, NEW j \in Slicers \cup Reducers
  PROVE  /\ j \in Jobs /\ j \notin Workers /\ KeyOf(j) \in Keys /\ KeyOf(j) \notin Workers
         /\ job[j] \in Process /\ ReducerOK(objects, job[j])
         /\ Current(ckpt[KeyOf(j)], faults, j, job[j])
         /\ job[j].pc = "resume" => j \in Slicers
         /\ LakeInv /\ DOMAIN ckpt = Keys /\ published \subseteq Slicers
         /\ markers \subseteq ExpectedParts /\ current \in {None, AllCells} /\ faults \in Nat
BY KeyFacts DEF ScanInv, JobOK

\* A step of a reducer that puts no checkpoint.
LEMMA ReduceGoesOn ==
  ASSUME ScanInv, NEW j \in Slicers \cup Reducers, NEW p, Become(j, p), p \in Process,
         LakeInv', Grows, UNCHANGED <<ckpt, sealer>>, Fault \/ NoFault \/ UNCHANGED faults,
         markers' \subseteq ExpectedParts, published' \subseteq Slicers,
         current' \in {None, AllCells},
         ReducerOK(objects', p), p.mem = job[j].mem, p.pc # "resume",
         job[j].pc \notin {"off", "resume"}
  PROVE  ScanInv'
<1>1. j \in Jobs /\ j \notin Workers /\ Current(ckpt[KeyOf(j)], faults, j, job[j])
  BY ReducerFacts
<1>2. faults' \in Nat /\ (faults' = 0 => faults = 0)
  BY FaultFacts DEF ScanInv
<1>3. Current(ckpt'[KeyOf(j)], faults', j, p)
  BY <1>1, <1>2 DEF Current
<1>4. JobOK(objects', ckpt'[KeyOf(j)], faults', j, p)
  BY <1>1, <1>3 DEF JobOK
<1> QED BY <1>1, <1>2, <1>4, JobGoesOn

\* A step of a reducer that puts its checkpoint.
LEMMA ReducerSaves ==
  ASSUME ScanInv, NEW j \in Slicers \cup Reducers, NEW c, NEW p, Save(j, c, p), p \in Process,
         UNCHANGED <<objects, markers, current, sealer>>,
         ReducerOK(objects, p), p.mem = c, p.pc # "resume", c.completed_batches = Canonical
  PROVE  ScanInv'
<1>1. j \in Jobs /\ j \notin Workers /\ KeyOf(j) \notin Workers
  BY ReducerFacts
<1>2. CkptOK(objects, KeyOf(j), c)
  BY <1>1 DEF CkptOK, ReducerOK, BatchesFit
<1>3. JobOK(objects, c, faults, j, p)
  BY <1>1 DEF JobOK, Current, Ahead
<1> QED BY <1>1, <1>2, <1>3, SaveInv

\* The partitions of a reducer, also of a slice that reaches beyond the last
\* one.
LEMMA PartsFacts ==
  ASSUME NEW j \in Slicers \cup Reducers
  PROVE  PartsOf(j) \in Seq(ExpectedParts)
<1>1. SortedParts \in Seq(ExpectedParts) /\ Len(SortedParts) \in Nat
  BY CanonicalFacts
<1>2. CASE j \in Slicers
  <2> DEFINE first == PartSlice[j].offset + 1
             end == PartSlice[j].offset + PartSlice[j].max
             last == IF end < Len(SortedParts) THEN end ELSE Len(SortedParts)
  <2>1. PartSlice[j].offset \in Nat /\ PartSlice[j].max \in Nat
    BY <1>2, ScanAssumption
  <2>2. first \in Nat \ {0} /\ last \in Nat /\ last <= Len(SortedParts)
    BY SMTT(30), <1>1, <2>1
  <2>3. PartsOf(j) = SubSeq(SortedParts, first, last)
    BY <1>2 DEF PartsOf
  <2> HIDE DEF first, last
  <2>4. \A i \in first..last : i \in 1..Len(SortedParts)
    BY <1>1, <2>2
  <2>5. SubSeq(SortedParts, first, last) \in Seq(ExpectedParts)
    BY <1>1, <2>2, <2>4, SubSeqProperties
  <2> QED BY <2>3, <2>5
<1>3. CASE j \notin Slicers
  BY <1>1, <1>3 DEF PartsOf
<1> QED BY <1>2, <1>3

\* Reading the canonical checkpoint keeps the invariant.
LEMMA BootstrapInv ==
  ASSUME ScanInv, NEW j \in Slicers \cup Reducers, Bootstrap(j)
  PROVE  ScanInv'
<1> DEFINE c == ckpt[Full]
           first == IF j \in Slicers THEN "resume" ELSE "boot"
           steps == IF j \in Slicers THEN <<"affinity">> ELSE Phases[j]
           p == [pc |-> first, mem |-> c, left |-> PartsOf(j), todo |-> steps]
<1>1. j \in Jobs /\ j \notin Workers /\ Full \in Keys /\ Full \notin Workers
  BY ReducerFacts, KeyFacts
<1>2. Become(j, p) /\ c # None /\ UNCHANGED <<ckpt, objects, markers, current, published, sealer>>
      /\ (Fault \/ NoFault)
  BY DEF Bootstrap
<1>3. c \in Checkpoint /\ Held(objects, c) /\ c.completed_batches = Canonical
  BY <1>1, <1>2 DEF ScanInv, CkptOK, BatchesFit
<1>4. first \in {"resume", "boot"} /\ (j \in Slicers => first = "resume") /\ steps \in Seq(Steps)
  <2>1. "affinity" \in Steps
    BY DEF Steps
  <2>2. j \notin Slicers => Phases[j] \in Seq(Steps)
    BY ScanAssumption
  <2> QED BY <2>1, <2>2
<1>5. PartsOf(j) \in Seq(ExpectedParts)
  BY PartsFacts
<1> HIDE DEF first, steps, c
<1>6. p \in Process /\ p.mem = c /\ p.pc = first /\ p.left = PartsOf(j) /\ p.todo = steps
  BY <1>3, <1>4, <1>5 DEF Process
<1> HIDE DEF p
<1>7. ReducerOK(objects, p)
  BY <1>3, <1>4, <1>5, <1>6 DEF ReducerOK
<1>8. Current(ckpt'[KeyOf(j)], faults', j, p)
  BY <1>1, <1>4, <1>6, KeyFacts, ScanAssumption DEF Current
<1>9. JobOK(objects', ckpt'[KeyOf(j)], faults', j, p)
  <2>1. p.pc = "resume" => j \in Slicers
    BY <1>6 DEF first
  <2> QED BY <1>1, <1>2, <1>6, <1>7, <1>8, <2>1 DEF JobOK
<1>10. /\ LakeInv' /\ Grows /\ faults' \in Nat /\ (faults' = 0 => faults = 0)
       /\ markers' \subseteq ExpectedParts /\ published' \subseteq Slicers
       /\ current' \in {None, AllCells}
  BY <1>2, LakeStays, FaultFacts DEF ScanInv
<1> QED BY <1>1, <1>2, <1>9, <1>10, JobGoesOn

\* Taking the slice's own partitions from its checkpoint keeps it.
LEMMA ResumeInv ==
  ASSUME ScanInv, NEW j \in Slicers \cup Reducers, ResumeSlice(j)
  PROVE  ScanInv'
<1> DEFINE c == job[j]
           k == ckpt[j]
<1>1. /\ j \in Jobs /\ j \notin Workers /\ KeyOf(j) = j /\ c \in Process
      /\ ReducerOK(objects, c) /\ j \in Keys
  <2>1. j \in Slicers
    BY ReducerFacts DEF ResumeSlice, At
  <2> QED BY <2>1, ReducerFacts, KeyFacts DEF Keys
<1>2. c.pc = "resume" /\ UNCHANGED <<ckpt, objects, markers, current, published, sealer>>
      /\ (Fault \/ NoFault)
  BY DEF ResumeSlice, At
<1>3. PICK parts :
        /\ Become(j, [c EXCEPT !.pc = "boot", !.mem.completed_affinity_partitions = parts])
        /\ parts = {} \/ (k # None /\ parts = k.completed_affinity_partitions)
        /\ Fault \/ k = None \/ parts = k.completed_affinity_partitions
  <2> DEFINE whole == IF k = None THEN {} ELSE k.completed_affinity_partitions
  <2>1. CASE NoFault /\ Become(j, [c EXCEPT !.pc = "boot",
                                     !.mem.completed_affinity_partitions = whole])
    BY <2>1
  <2>2. CASE k # None /\ Fault /\ Become(j, [c EXCEPT !.pc = "boot",
                                               !.mem.completed_affinity_partitions = {}])
    BY <2>2
  <2> QED BY <2>1, <2>2 DEF ResumeSlice
<1>4. k # None => /\ k \in Checkpoint /\ Held(objects, k) /\ k.completed_batches = Canonical
  BY <1>1 DEF ScanInv, CkptOK, BatchesFit
<1>5. /\ c.mem \in Checkpoint /\ Held(objects, c.mem) /\ c.mem.completed_batches = Canonical
      /\ c.left \in Seq(ExpectedParts) /\ c.todo \in Seq(Steps)
  BY <1>1, <1>2 DEF ReducerOK
<1> DEFINE m == [c.mem EXCEPT !.completed_affinity_partitions = parts]
           p == [c EXCEPT !.pc = "boot", !.mem = m]
<1>6. Become(j, p)
  BY <1>3
<1>7. parts \subseteq ExpectedParts /\ \A q \in parts : objects[<<"affinity", q>>] = PartCells(q)
  BY <1>3, <1>4 DEF Checkpoint, Held
<1>8. m \in Checkpoint /\ m.completed_batches = Canonical /\ m.completed_affinity_partitions = parts
      /\ m.completed_artist_day = c.mem.completed_artist_day
      /\ m.completed_pairs = c.mem.completed_pairs
  BY <1>5, <1>7 DEF Checkpoint
<1> HIDE DEF m
<1>9. Held(objects, m)
  BY <1>5, <1>7, <1>8 DEF Held, Committed
<1>10. p \in Process /\ p.pc = "boot" /\ p.mem = m /\ p.left = c.left /\ p.todo = c.todo
  BY <1>1, <1>8 DEF Process
<1> HIDE DEF p
<1>11. ReducerOK(objects, p)
  BY <1>5, <1>8, <1>9, <1>10 DEF ReducerOK
<1>12. Current(k, faults', j, p)
  <2>1. Fault => faults' # 0
    BY FaultFacts DEF ScanInv
  <2> QED BY <1>3, <1>4, <1>8, <1>10, <2>1 DEF Current, Ahead, Committed
<1> HIDE DEF c
<1>13. JobOK(objects', ckpt'[KeyOf(j)], faults', j, p)
  BY <1>1, <1>2, <1>10, <1>11, <1>12 DEF JobOK
<1>14. /\ LakeInv' /\ Grows /\ faults' \in Nat /\ (faults' = 0 => faults = 0)
       /\ markers' \subseteq ExpectedParts /\ published' \subseteq Slicers
       /\ current' \in {None, AllCells}
  BY <1>2, LakeStays, FaultFacts DEF ScanInv
<1> QED BY <1>1, <1>2, <1>6, <1>13, <1>14, JobGoesOn

\* Putting what was read under the job's key keeps it.
LEMMA PutBootstrapInv ==
  ASSUME ScanInv, NEW j \in Slicers \cup Reducers, PutBootstrap(j)
  PROVE  ScanInv'
<1> DEFINE c == job[j]
           p == [c EXCEPT !.pc = "step"]
<1>1. c \in Process /\ ReducerOK(objects, c)
  BY ReducerFacts
<1>2. c.pc = "boot" /\ UNCHANGED <<objects, markers, current, sealer>> /\ Save(j, c.mem, p)
  BY DEF PutBootstrap, At
<1>3. c.mem.completed_batches = Canonical
  BY <1>1, <1>2 DEF ReducerOK
<1>4. p \in Process /\ p.pc = "step" /\ p.mem = c.mem /\ p.left = c.left /\ p.todo = c.todo
  BY <1>1 DEF Process
<1> HIDE DEF p
<1>5. ReducerOK(objects, p)
  BY <1>1, <1>3, <1>4 DEF ReducerOK
<1> HIDE DEF c
<1> QED BY <1>2, <1>3, <1>4, <1>5, ReducerSaves

\* A step whose admission was checked begins with the whole map in the checkpoint.
LEMMA InStepFacts ==
  ASSUME ScanInv, NEW j \in Slicers \cup Reducers, At(j, "step"), job[j].todo # << >>
  PROVE  /\ job[j] \in Process /\ job[j].pc = "step" /\ ReducerOK(objects, job[j])
         /\ job[j].mem \in Checkpoint /\ Held(objects, job[j].mem)
         /\ job[j].mem.completed_batches = Canonical
         /\ job[j].left \in Seq(ExpectedParts) /\ job[j].todo \in Seq(Steps)
         /\ Tail(job[j].todo) \in Seq(Steps)
         /\ job[j].left # << >> => /\ Head(job[j].left) \in ExpectedParts
                                   /\ Tail(job[j].left) \in Seq(ExpectedParts)
<1>1. job[j] \in Process /\ ReducerOK(objects, job[j]) /\ job[j].pc = "step"
  BY ReducerFacts DEF At
<1>2. job[j].left \in Seq(ExpectedParts) /\ job[j].todo \in Seq(Steps)
  BY <1>1 DEF ReducerOK
<1>3. Tail(job[j].todo) \in Seq(Steps)
      /\ (job[j].left # << >> => /\ Head(job[j].left) \in ExpectedParts
                                 /\ Tail(job[j].left) \in Seq(ExpectedParts))
  BY <1>2
<1> QED BY <1>1, <1>2, <1>3 DEF ReducerOK

\* A step that refuses its inputs keeps it.
LEMMA RefuseInv ==
  ASSUME ScanInv, NEW j \in Slicers \cup Reducers, Refuse(j)
  PROVE  ScanInv'
BY ReducerFacts, Fails DEF Refuse, Fail

\* A step that was done before keeps it.
LEMMA AlreadyReducedInv ==
  ASSUME ScanInv, NEW j \in Slicers \cup Reducers, AlreadyReduced(j)
  PROVE  ScanInv'
<1> DEFINE c == job[j]
           p == [c EXCEPT !.pc = "step", !.todo = Tail(@)]
<1>1. At(j, "step") /\ c.todo # << >> /\ Become(j, p)
      /\ UNCHANGED <<ckpt, objects, markers, current, published, sealer, faults>>
  BY DEF AlreadyReduced, InStep, StepDone
<1>2. /\ c \in Process /\ c.pc = "step" /\ c.mem \in Checkpoint /\ Held(objects, c.mem)
      /\ c.mem.completed_batches = Canonical /\ c.left \in Seq(ExpectedParts)
      /\ Tail(c.todo) \in Seq(Steps)
  BY <1>1, InStepFacts
<1>3. p \in Process /\ p.pc = "step" /\ p.mem = c.mem /\ p.left = c.left /\ p.todo = Tail(c.todo)
  BY <1>2 DEF Process
<1> HIDE DEF p
<1>4. ReducerOK(objects, p)
  BY <1>2, <1>3 DEF ReducerOK
<1>5. /\ LakeInv' /\ Grows /\ markers' \subseteq ExpectedParts /\ published' \subseteq Slicers
      /\ current' \in {None, AllCells} /\ objects' = objects
  BY <1>1, LakeStays DEF ScanInv
<1> HIDE DEF c
<1> QED BY <1>1, <1>2, <1>3, <1>4, <1>5, ReduceGoesOn DEF c

\* Skipping a partition that was done before keeps it.
LEMMA SkipPartitionInv ==
  ASSUME ScanInv, NEW j \in Slicers \cup Reducers, SkipPartition(j)
  PROVE  ScanInv'
<1> DEFINE c == job[j]
           p == [c EXCEPT !.left = Tail(@)]
<1>1. At(j, "step") /\ c.todo # << >> /\ c.left # << >>
      /\ ((Become(j, p) /\ UNCHANGED published) \/ Fail(j))
      /\ UNCHANGED <<ckpt, objects, markers, current, sealer, faults>>
  BY DEF SkipPartition, InStep
<1>2. /\ c \in Process /\ c.pc = "step" /\ c.mem \in Checkpoint /\ Held(objects, c.mem)
      /\ c.mem.completed_batches = Canonical /\ Tail(c.left) \in Seq(ExpectedParts)
      /\ c.todo \in Seq(Steps)
  BY <1>1, InStepFacts
<1>3. CASE Fail(j)
  BY <1>1, <1>3, ReducerFacts, Fails DEF Fail
<1>4. CASE Become(j, p) /\ UNCHANGED published
  <2>1. p \in Process /\ p.pc = "step" /\ p.mem = c.mem /\ p.left = Tail(c.left) /\ p.todo = c.todo
    BY <1>2 DEF Process
  <2> HIDE DEF p
  <2>2. ReducerOK(objects, p)
    BY <1>2, <2>1 DEF ReducerOK
  <2>3. /\ LakeInv' /\ Grows /\ markers' \subseteq ExpectedParts /\ published' \subseteq Slicers
        /\ current' \in {None, AllCells} /\ objects' = objects
    BY <1>1, <1>4, LakeStays DEF ScanInv
  <2> HIDE DEF c
  <2> QED BY <1>1, <1>2, <1>4, <2>1, <2>2, <2>3, ReduceGoesOn DEF c
<1> QED BY <1>1, <1>3, <1>4

\* What a reduction reads: a verified name holds what it is meant to.
LEMMA VerifiedFacts ==
  ASSUME LakeInv, NEW names, Verified(names)
  PROVE  \A n \in names \cap ScanNames : objects[n] = Meant(n)
BY DEF Verified, LakeInv

\* The partitions together are everything.
LEMMA PartsTogether == UNION {PartCells(q) : q \in ExpectedParts} = AllCells
<1>1. \A x \in AllCells : x[1] \in ExpectedParts
  BY DEF AllCells, CellsOf, ExpectedParts
<1> QED BY <1>1 DEF PartCells

\* A step that has uploaded, or checked, what it is about to save.
LEMMA GoesToSave ==
  ASSUME ScanInv, NEW j \in Slicers \cup Reducers, At(j, "step"), job[j].todo # << >>,
         Become(j, [job[j] EXCEPT !.pc = "save"]),
         UNCHANGED <<ckpt, markers, current, published, sealer, faults>>,
         LakeInv', Grows, Uploaded(objects', job[j])
  PROVE  ScanInv'
<1> DEFINE c == job[j]
           p == [c EXCEPT !.pc = "save"]
<1>1. /\ c \in Process /\ c.pc = "step" /\ c.mem \in Checkpoint /\ Held(objects, c.mem)
      /\ c.mem.completed_batches = Canonical /\ c.left \in Seq(ExpectedParts)
      /\ c.todo \in Seq(Steps)
  BY InStepFacts
<1>2. p \in Process /\ p.pc = "save" /\ p.mem = c.mem /\ p.left = c.left /\ p.todo = c.todo
  BY <1>1 DEF Process
<1> HIDE DEF p
<1>3. Held(objects', p.mem)
  BY <1>1, <1>2, HeldStays
<1>4. ReducerOK(objects', p)
  BY <1>1, <1>2, <1>3 DEF ReducerOK, Uploaded
<1>5. markers' \subseteq ExpectedParts /\ published' \subseteq Slicers
      /\ current' \in {None, AllCells} /\ Become(j, p)
  BY DEF ScanInv, p
<1> HIDE DEF c
<1> QED BY <1>1, <1>2, <1>4, <1>5, ReduceGoesOn DEF c

\* The sum over the artist-day partials keeps it: all batches are in the lake.
LEMMA ReduceArtistDayInv ==
  ASSUME ScanInv, NEW j \in Slicers \cup Reducers, ReduceArtistDay(j)
  PROVE  ScanInv'
<1>1. /\ At(j, "step") /\ job[j].todo # << >> /\ Head(job[j].todo) = "artist_day"
      /\ Admissible(j) /\ ~job[j].mem.completed_artist_day
      /\ PutObject(<<"artist_day_out">>, UNION {objects[<<"artist_day", b>>] : b \in Batches})
      /\ Become(j, [job[j] EXCEPT !.pc = "save"])
      /\ UNCHANGED <<ckpt, markers, current, published, sealer, faults>>
  BY DEF ReduceArtistDay, InStep
<1>2. Verified(UNION {MapObjects(b) : b \in Batches})
  BY <1>1 DEF Admissible, CommittedMap
<1>3. \A b \in Batches : objects[<<"artist_day", b>>] = CellsOf(b)
  <2>1. \A b \in Batches : <<"artist_day", b>> \in UNION {MapObjects(a) : a \in Batches}
    BY DEF MapObjects
  <2> QED BY <1>2, <2>1, VerifiedFacts, MeantFacts DEF ScanInv
<1>4. UNION {objects[<<"artist_day", b>>] : b \in Batches} = AllCells
  BY <1>3 DEF AllCells
<1>5. LakeInv' /\ Grows /\ objects'[<<"artist_day_out">>] = AllCells
  BY <1>1, <1>4, MeantFacts, LakePut DEF ScanInv
<1>6. Uploaded(objects', job[j])
  BY <1>1, <1>5 DEF Uploaded
<1> QED BY <1>1, <1>5, <1>6, GoesToSave

\* The sum of one partition keeps it: all listener partials are in the lake.
LEMMA ReducePartitionInv ==
  ASSUME ScanInv, NEW j \in Slicers \cup Reducers, ReducePartition(j)
  PROVE  ScanInv'
<1> DEFINE p == Head(job[j].left)
           read == UNION {objects[n] : n \in ListenerObjects}
<1>1. /\ At(j, "step") /\ job[j].todo # << >> /\ Head(job[j].todo) = "affinity"
      /\ job[j].left # << >> /\ UNCHANGED <<ckpt, markers, current, sealer, faults>>
  BY DEF ReducePartition, InStep
<1>2. p \in ExpectedParts
  BY <1>1, InStepFacts
<1>3. CASE Verified(ListenerObjects)
  <2>1. /\ PutObject(<<"affinity", p>>, {c \in read : c[1] = p}) /\ UNCHANGED published
        /\ Become(j, [job[j] EXCEPT !.pc = "save"])
    BY <1>3 DEF ReducePartition
  <2>2. \A n \in ListenerObjects : \E b \in Batches : n = <<"listener_artist", b>>
    BY DEF ListenerObjects
  <2>3. \A b \in Batches : <<"listener_artist", b>> \in ListenerObjects
                           /\ objects[<<"listener_artist", b>>] = CellsOf(b)
    <3>1. \A b \in Batches : <<"listener_artist", b>> \in ListenerObjects
      BY DEF ListenerObjects
    <3> QED BY <1>3, <3>1, VerifiedFacts, MeantFacts DEF ScanInv
  <2>4. read = AllCells
    BY <2>2, <2>3 DEF AllCells
  <2>5. {c \in read : c[1] = p} = PartCells(p)
    BY <2>4 DEF PartCells
  <2>6. LakeInv' /\ Grows /\ objects'[<<"affinity", p>>] = PartCells(p)
    BY <1>2, <2>1, <2>5, MeantFacts, LakePut DEF ScanInv
  <2>7. Uploaded(objects', job[j])
    BY <1>1, <2>6 DEF Uploaded
  <2> QED BY <1>1, <2>1, <2>6, <2>7, GoesToSave
<1>4. CASE ~Verified(ListenerObjects)
  <2>1. Fail(j) /\ UNCHANGED objects
    BY <1>4 DEF ReducePartition
  <2> QED BY <1>1, <2>1, ReducerFacts, Fails DEF Fail
<1> QED BY <1>3, <1>4

\* The pairs keep it: all partitions are in the lake.
LEMMA ReducePairsInv ==
  ASSUME ScanInv, NEW j \in Slicers \cup Reducers, ReducePairs(j)
  PROVE  ScanInv'
<1> DEFINE parts == job[j].mem.completed_affinity_partitions
<1>1. /\ At(j, "step") /\ job[j].todo # << >> /\ Head(job[j].todo) = "pairs"
      /\ Admissible(j) /\ ~job[j].mem.completed_pairs
      /\ PutObject(<<"affinity_out">>, UNION {objects[n] : n \in AffinityObjects(parts)})
      /\ Become(j, [job[j] EXCEPT !.pc = "save"])
      /\ UNCHANGED <<ckpt, markers, current, published, sealer, faults>>
  BY DEF ReducePairs, InStep
<1>2. parts = ExpectedParts /\ Verified(AffinityObjects(parts))
  BY <1>1 DEF Admissible, AffinityComplete
<1>3. \A q \in ExpectedParts : <<"affinity", q>> \in AffinityObjects(parts)
                               /\ objects[<<"affinity", q>>] = PartCells(q)
  <2>1. \A q \in ExpectedParts : <<"affinity", q>> \in AffinityObjects(parts)
    BY <1>2 DEF AffinityObjects
  <2> QED BY <1>2, <2>1, VerifiedFacts, MeantFacts DEF ScanInv
<1>4. \A n \in AffinityObjects(parts) : \E q \in ExpectedParts : n = <<"affinity", q>>
  BY <1>2 DEF AffinityObjects
<1>5. UNION {objects[n] : n \in AffinityObjects(parts)} = UNION {PartCells(q) : q \in ExpectedParts}
  BY <1>3, <1>4
<1>6. LakeInv' /\ Grows /\ objects'[<<"affinity_out">>] = AllCells
  BY <1>1, <1>5, PartsTogether, MeantFacts, LakePut DEF ScanInv
<1>7. Uploaded(objects', job[j])
  BY <1>1, <1>6 DEF Uploaded
<1> QED BY <1>1, <1>6, <1>7, GoesToSave

\* The affinity seal keeps it: it has seen a result for every marker.
LEMMA SealAffinityInv ==
  ASSUME ScanInv, NEW j \in Slicers \cup Reducers, SealAffinity(j)
  PROVE  ScanInv'
<1>1. /\ At(j, "step") /\ job[j].todo # << >> /\ Head(job[j].todo) = "affinity_seal"
      /\ Admissible(j) /\ Become(j, [job[j] EXCEPT !.pc = "save"])
      /\ UNCHANGED <<ckpt, objects, markers, current, published, sealer, faults>>
  BY DEF SealAffinity, InStep
<1>2. ExpectedParts \subseteq markers /\ Verified(AffinityObjects(markers))
  BY <1>1 DEF Admissible
<1>3. \A q \in ExpectedParts : objects[<<"affinity", q>>] = PartCells(q)
  <2>1. \A q \in ExpectedParts : <<"affinity", q>> \in AffinityObjects(markers)
    BY <1>2 DEF AffinityObjects
  <2> QED BY <1>2, <2>1, VerifiedFacts, MeantFacts DEF ScanInv
<1>4. LakeInv' /\ Grows
  BY <1>1, LakeStays DEF ScanInv
<1>5. Uploaded(objects', job[j])
  BY <1>1, <1>3 DEF Uploaded
<1> QED BY <1>1, <1>4, <1>5, GoesToSave

\* What a reducer that saves puts into its checkpoint is in the lake.
LEMMA ReducedFacts ==
  ASSUME ScanInv, NEW j \in Slicers \cup Reducers, At(j, "save")
  PROVE  /\ Reduced(j) \in Checkpoint /\ Held(objects, Reduced(j))
         /\ Reduced(j).completed_batches = Canonical /\ Ahead(job[j].mem, Reduced(j))
         /\ job[j].todo # << >> /\ (Head(job[j].todo) = "affinity" => job[j].left # << >>)
<1> DEFINE c == job[j]
           m == c.mem
           step == Head(c.todo)
           d == Reduced(j)
<1>1. c \in Process /\ c.pc = "save" /\ ReducerOK(objects, c)
  BY ReducerFacts DEF At
<1>2. /\ m \in Checkpoint /\ Held(objects, m) /\ m.completed_batches = Canonical
      /\ c.todo # << >> /\ Uploaded(objects, c) /\ c.left \in Seq(ExpectedParts)
  BY <1>1 DEF ReducerOK
<1>3. step \in {"artist_day", "affinity", "affinity_seal", "pairs"}
      /\ (step = "affinity" => c.left # << >>)
  BY <1>2 DEF Uploaded
<1>4. CASE step = "artist_day"
  <2>1. d = [m EXCEPT !.completed_artist_day = TRUE] /\ objects[<<"artist_day_out">>] = AllCells
    BY <1>2, <1>4 DEF Reduced, Uploaded
  <2>2. /\ d \in Checkpoint /\ d.completed_batches = m.completed_batches
        /\ d.completed_pairs = m.completed_pairs
        /\ d.completed_affinity_partitions = m.completed_affinity_partitions
    BY <1>2, <2>1 DEF Checkpoint
  <2> HIDE DEF d
  <2>3. Held(objects, d) /\ Ahead(m, d) /\ d.completed_batches = Canonical
    BY <1>2, <2>1, <2>2 DEF Held, Ahead, Committed
  <2> QED BY <1>2, <1>3, <2>2, <2>3 DEF d
<1>5. CASE step = "affinity"
  <2> DEFINE q == Head(c.left)
  <2>1. d = [m EXCEPT !.completed_affinity_partitions = m.completed_affinity_partitions \cup {q}]
        /\ objects[<<"affinity", q>>] = PartCells(q)
    BY <1>2, <1>5 DEF Reduced, Uploaded, Checkpoint
  <2>2. q \in ExpectedParts
    BY <1>2, <1>3, <1>5
  <2>3. m.completed_affinity_partitions \cup {q} \in SUBSET ExpectedParts
    BY <1>2, <2>2 DEF Checkpoint
  <2> HIDE DEF q
  <2>4. /\ d \in Checkpoint /\ d.completed_batches = m.completed_batches
        /\ d.completed_pairs = m.completed_pairs
        /\ d.completed_artist_day = m.completed_artist_day
        /\ d.completed_affinity_partitions = m.completed_affinity_partitions \cup {q}
    BY <1>2, <2>1, <2>3 DEF Checkpoint
  <2> HIDE DEF d
  <2>5. Held(objects, d) /\ Ahead(m, d) /\ d.completed_batches = Canonical
    BY <1>2, <2>1, <2>4 DEF Held, Ahead, Committed
  <2> QED BY <1>2, <1>3, <2>4, <2>5 DEF d
<1>6. CASE step = "affinity_seal"
  <2>1. d = [m EXCEPT !.completed_affinity_partitions = ExpectedParts]
        /\ \A q \in ExpectedParts : objects[<<"affinity", q>>] = PartCells(q)
    BY <1>2, <1>6 DEF Reduced, Uploaded
  <2>2. /\ d \in Checkpoint /\ d.completed_batches = m.completed_batches
        /\ d.completed_pairs = m.completed_pairs
        /\ d.completed_artist_day = m.completed_artist_day
        /\ d.completed_affinity_partitions = ExpectedParts
        /\ m.completed_affinity_partitions \subseteq ExpectedParts
    BY <1>2, <2>1 DEF Checkpoint
  <2> HIDE DEF d
  <2>3. Held(objects, d) /\ Ahead(m, d) /\ d.completed_batches = Canonical
    BY <1>2, <2>1, <2>2 DEF Held, Ahead, Committed
  <2> QED BY <1>2, <1>3, <2>2, <2>3 DEF d
<1>7. CASE step = "pairs"
  <2>1. d = [m EXCEPT !.completed_pairs = TRUE] /\ objects[<<"affinity_out">>] = AllCells
    BY <1>2, <1>7 DEF Reduced, Uploaded
  <2>2. /\ d \in Checkpoint /\ d.completed_batches = m.completed_batches
        /\ d.completed_artist_day = m.completed_artist_day
        /\ d.completed_affinity_partitions = m.completed_affinity_partitions
    BY <1>2, <2>1 DEF Checkpoint
  <2> HIDE DEF d
  <2>3. Held(objects, d) /\ Ahead(m, d) /\ d.completed_batches = Canonical
    BY <1>2, <2>1, <2>2 DEF Held, Ahead, Committed
  <2> QED BY <1>2, <1>3, <2>2, <2>3 DEF d
<1> QED BY <1>3, <1>4, <1>5, <1>6, <1>7

\* Saving the result of a step keeps it.
LEMMA SaveReducedInv ==
  ASSUME ScanInv, NEW j \in Slicers \cup Reducers, SaveReduced(j)
  PROVE  ScanInv'
<1> DEFINE c == job[j]
           d == Reduced(j)
           onward == [[c EXCEPT !.pc = "step", !.todo = Tail(@)] EXCEPT !.mem = d]
           toMarker == [c EXCEPT !.pc = "marker", !.mem = d]
<1>1. /\ At(j, "save") /\ UNCHANGED <<objects, markers, current, sealer>>
      /\ Save(j, d, IF Head(c.todo) = "affinity" THEN toMarker ELSE onward)
  BY DEF SaveReduced, StepDone
<1>2. /\ d \in Checkpoint /\ Held(objects, d) /\ d.completed_batches = Canonical
      /\ c.todo # << >> /\ (Head(c.todo) = "affinity" => c.left # << >>)
  BY <1>1, ReducedFacts
<1>3. c \in Process /\ c.left \in Seq(ExpectedParts) /\ c.todo \in Seq(Steps)
  BY ReducerFacts DEF ReducerOK
<1> HIDE DEF d
<1>4. CASE Head(c.todo) = "affinity"
  <2>1. toMarker \in Process /\ toMarker.pc = "marker" /\ toMarker.mem = d
        /\ toMarker.left = c.left /\ toMarker.todo = c.todo
    BY <1>2, <1>3 DEF Process
  <2>2. Save(j, d, toMarker)
    BY <1>1, <1>4
  <2> HIDE DEF toMarker
  <2>3. ReducerOK(objects, toMarker)
    BY <1>2, <1>3, <1>4, <2>1 DEF ReducerOK
  <2> HIDE DEF c
  <2> QED BY <1>1, <1>2, <2>1, <2>2, <2>3, ReducerSaves
<1>5. CASE Head(c.todo) # "affinity"
  <2>1. Tail(c.todo) \in Seq(Steps)
    BY <1>2, <1>3
  <2>2. onward \in Process /\ onward.pc = "step" /\ onward.mem = d
        /\ onward.left = c.left /\ onward.todo = Tail(c.todo)
    BY <1>2, <1>3, <2>1 DEF Process
  <2>3. Save(j, d, onward)
    BY <1>1, <1>5
  <2> HIDE DEF onward
  <2>4. ReducerOK(objects, onward)
    BY <1>2, <1>3, <2>1, <2>2 DEF ReducerOK
  <2> HIDE DEF c
  <2> QED BY <1>1, <1>2, <2>2, <2>3, <2>4, ReducerSaves
<1> QED BY <1>4, <1>5

\* Putting a marker keeps it.
LEMMA PutMarkerInv ==
  ASSUME ScanInv, NEW j \in Slicers \cup Reducers, PutMarker(j)
  PROVE  ScanInv'
<1> DEFINE c == job[j]
           p == [c EXCEPT !.pc = "step", !.left = Tail(@)]
<1>1. c.pc = "marker" /\ UNCHANGED <<ckpt, objects, current, sealer>>
  BY DEF PutMarker, At
<1>2. /\ c \in Process /\ c.mem \in Checkpoint /\ Held(objects, c.mem)
      /\ c.mem.completed_batches = Canonical /\ c.left \in Seq(ExpectedParts) /\ c.left # << >>
      /\ c.todo \in Seq(Steps)
  BY <1>1, ReducerFacts DEF ReducerOK
<1>3. Head(c.left) \in ExpectedParts /\ Tail(c.left) \in Seq(ExpectedParts)
  BY <1>2
<1>4. markers \cup {Head(c.left)} \subseteq ExpectedParts
  BY <1>3 DEF ScanInv
<1>5. CASE /\ NoFault /\ markers' = markers \cup {Head(c.left)} /\ UNCHANGED published
           /\ Become(j, p)
  <2>1. p \in Process /\ p.pc = "step" /\ p.mem = c.mem /\ p.left = Tail(c.left) /\ p.todo = c.todo
    BY <1>2, <1>3 DEF Process
  <2> HIDE DEF p
  <2>2. ReducerOK(objects', p)
    BY <1>1, <1>2, <1>3, <2>1 DEF ReducerOK
  <2>3. /\ LakeInv' /\ Grows /\ markers' \subseteq ExpectedParts /\ published' \subseteq Slicers
        /\ current' \in {None, AllCells}
    BY <1>1, <1>4, <1>5, LakeStays DEF ScanInv
  <2> HIDE DEF c
  <2> QED BY <1>1, <1>5, <2>1, <2>2, <2>3, ReduceGoesOn DEF c
<1>6. CASE Fault /\ Fail(j) /\ markers' \in {markers, markers \cup {Head(c.left)}}
  BY <1>1, <1>4, <1>6, ReducerFacts, Fails DEF Fail
<1> QED BY <1>5, <1>6 DEF PutMarker

\* The move of CURRENT keeps it, whether the put throws or not.
LEMMA PublishGoldInv ==
  ASSUME ScanInv, NEW j \in Slicers \cup Reducers, PublishGold(j)
  PROVE  ScanInv'
<1> DEFINE c == job[j]
           p == [c EXCEPT !.pc = "gold"]
<1>1. /\ At(j, "step") /\ c.todo # << >> /\ Head(c.todo) = "gold" /\ Admissible(j)
      /\ UNCHANGED <<ckpt, objects, markers, sealer>>
  BY DEF PublishGold, InStep
<1>2. /\ c \in Process /\ c.pc = "step" /\ c.mem \in Checkpoint /\ Held(objects, c.mem)
      /\ c.mem.completed_batches = Canonical /\ c.left \in Seq(ExpectedParts)
      /\ c.todo \in Seq(Steps)
  BY <1>1, InStepFacts
<1>3. objects[<<"affinity_out">>] = AllCells
  BY <1>1, <1>2 DEF Admissible, Held
<1>4. CASE NoFault /\ current' = objects[<<"affinity_out">>] /\ Become(j, p) /\ UNCHANGED published
  <2>1. p \in Process /\ p.pc = "gold" /\ p.mem = c.mem /\ p.left = c.left /\ p.todo = c.todo
    BY <1>2 DEF Process
  <2> HIDE DEF p
  <2>2. ReducerOK(objects', p)
    BY <1>1, <1>2, <2>1 DEF ReducerOK
  <2>3. /\ LakeInv' /\ Grows /\ markers' \subseteq ExpectedParts /\ published' \subseteq Slicers
        /\ current' \in {None, AllCells}
    BY <1>1, <1>3, <1>4, LakeStays DEF ScanInv
  <2> HIDE DEF c
  <2> QED BY <1>1, <1>2, <1>4, <2>1, <2>2, <2>3, ReduceGoesOn DEF c
<1>5. CASE Fault /\ Fail(j) /\ current' \in {current, objects[<<"affinity_out">>]}
  BY <1>1, <1>3, <1>5, ReducerFacts, Fails DEF Fail
<1> QED BY <1>4, <1>5 DEF PublishGold

\* Saving the Gold pointers keeps it.
LEMMA SaveGoldInv ==
  ASSUME ScanInv, NEW j \in Slicers \cup Reducers, SaveGold(j)
  PROVE  ScanInv'
<1> DEFINE c == job[j]
           p == [c EXCEPT !.pc = "step", !.todo = Tail(@)]
<1>1. c.pc = "gold" /\ UNCHANGED <<objects, markers, current, sealer>> /\ Save(j, c.mem, p)
  BY DEF SaveGold, At, StepDone
<1>2. /\ c \in Process /\ c.mem \in Checkpoint /\ Held(objects, c.mem)
      /\ c.mem.completed_batches = Canonical /\ c.left \in Seq(ExpectedParts)
      /\ c.todo \in Seq(Steps) /\ c.todo # << >>
  BY <1>1, ReducerFacts DEF ReducerOK
<1>3. Tail(c.todo) \in Seq(Steps)
  BY <1>2
<1>4. p \in Process /\ p.pc = "step" /\ p.mem = c.mem /\ p.left = c.left /\ p.todo = Tail(c.todo)
  BY <1>2, <1>3 DEF Process
<1> HIDE DEF p
<1>5. ReducerOK(objects, p)
  BY <1>2, <1>3, <1>4 DEF ReducerOK
<1> HIDE DEF c
<1> QED BY <1>1, <1>2, <1>4, <1>5, ReducerSaves DEF c

\* The end of a reducer keeps it.
LEMMA PublishInv ==
  ASSUME ScanInv, NEW j \in Slicers \cup Reducers, Publish(j)
  PROVE  ScanInv'
BY ReducerFacts, Fails DEF Publish

\* The death of a job keeps it: only its memory is lost.
LEMMA CrashInv ==
  ASSUME ScanInv, NEW j \in Jobs, Crash(j)
  PROVE  ScanInv'
<1>1. Become(j, Off) /\ Fault /\ UNCHANGED <<ckpt, objects, markers, current, published, sealer>>
  BY DEF Crash
<1>2. markers' \subseteq ExpectedParts /\ published' \subseteq Slicers /\ current' \in {None, AllCells}
  BY <1>1 DEF ScanInv
<1> QED BY <1>1, <1>2, Fails

-----------------------------------------------------------------------------
\* Every step keeps the invariant.
LEMMA StepScan == ScanInv /\ [ScanNext]_vars => ScanInv'
<1> SUFFICES ASSUME ScanInv, [ScanNext]_vars PROVE ScanInv'
  OBVIOUS
<1>1. ASSUME NEW w \in Workers, StartMap(w) \/ MapStep(w) PROVE ScanInv'
  BY <1>1, StartMapInv, SkipBatchInv, UploadInv, CommitInv, EndMapInv DEF MapStep
<1>2. ASSUME NEW j \in Slicers \cup Reducers, Bootstrap(j) \/ ReduceStep(j) PROVE ScanInv'
  <2>1. CASE \/ Bootstrap(j) \/ ResumeSlice(j) \/ PutBootstrap(j) \/ Refuse(j)
             \/ AlreadyReduced(j) \/ SkipPartition(j) \/ Publish(j)
    BY <2>1, BootstrapInv, ResumeInv, PutBootstrapInv, RefuseInv, AlreadyReducedInv,
       SkipPartitionInv, PublishInv
  <2>2. CASE \/ ReduceArtistDay(j) \/ ReducePartition(j) \/ ReducePairs(j) \/ SealAffinity(j)
    BY <2>2, ReduceArtistDayInv, ReducePartitionInv, ReducePairsInv, SealAffinityInv
  <2>3. CASE \/ SaveReduced(j) \/ PutMarker(j) \/ PublishGold(j) \/ SaveGold(j)
    BY <2>3, SaveReducedInv, PutMarkerInv, PublishGoldInv, SaveGoldInv
  <2> QED BY <1>2, <2>1, <2>2, <2>3 DEF ReduceStep
<1>3. ASSUME UNCHANGED vars PROVE ScanInv'
  <2>1. /\ UNCHANGED <<objects, markers, current, published, job>> /\ UNCHANGED faults
        /\ UNCHANGED ckpt /\ sealer' = sealer
    BY <1>3 DEF vars
  <2>2. SealerOK(objects, sealer')
    BY <2>1 DEF ScanInv
  <2> QED BY <2>1, <2>2, SealerGoesOn
<1> QED BY <1>1, <1>2, <1>3, CrashInv, SealInv DEF ScanNext

\* It holds of an empty lake.
LEMMA InitScan == ScanInit => ScanInv
<1> SUFFICES ASSUME ScanInit PROVE ScanInv
  OBVIOUS
<1>1. LakeInv
  BY DEF ScanInit, LakeInv
<1>2. SealerOK(objects, sealer)
  BY DEF ScanInit, SealerOK
<1>3. \A j \in Jobs : JobOK(objects, ckpt[KeyOf(j)], faults, j, job[j])
  BY FreshFacts DEF ScanInit
<1>4. DOMAIN ckpt = Keys /\ DOMAIN job = Jobs /\ \A k \in Keys : ckpt[k] = None
  BY DEF ScanInit
<1> QED BY <1>1, <1>2, <1>3, <1>4 DEF ScanInit, ScanInv

\* A list of batches is a list of numbers.
LEMMA BatchesAreNumbers == \A s \in Seq(Batches) : s \in Seq(Nat) /\ Range(s) \in SUBSET Batches
<1> SUFFICES ASSUME NEW s \in Seq(Batches) PROVE s \in Seq(Nat) /\ Range(s) \in SUBSET Batches
  OBVIOUS
<1>1. Len(s) \in Nat /\ s \in [1..Len(s) -> Batches]
  OBVIOUS
<1>2. s \in [1..Len(s) -> Nat]
  BY <1>1, BatchFacts
<1>3. s \in Seq(Nat)
  BY <1>1, <1>2, SeqDef
<1> QED BY <1>1, <1>3 DEF Range

\* The batches a worker has committed, in the order of its checkpoint, are ascending.
LEMMA InOrder ==
  ASSUME NEW w \in Workers, NEW c \in Checkpoint, BatchesFit(w, c)
  PROVE  c.completed_batches \in Seq(Nat) /\ Increasing(c.completed_batches)
<1> DEFINE done == c.completed_batches
<1>1. done \in Seq(Batches) /\ Len(done) <= Len(Slice[w])
      /\ \A i \in 1..Len(done) : done[i] = Slice[w][i]
  BY DEF Checkpoint, BatchesFit
<1> HIDE DEF done
<1>2. Len(done) \in Nat /\ DOMAIN done = 1..Len(done) /\ Len(Slice[w]) \in Nat
  BY <1>1, SliceFacts
<1>3. \A i \in 1..Len(done) : i \in 1..Len(Slice[w])
  BY <1>1, <1>2
<1>4. Increasing(done)
  BY <1>1, <1>2, <1>3, SliceFacts DEF Increasing
<1>5. done \in Seq(Nat)
  BY <1>1, BatchesAreNumbers
<1> QED BY <1>4, <1>5 DEF done

\* No checkpoint holds more batches than the corpus has.
LEMMA CheckpointBounded ==
  ASSUME NEW c \in Checkpoint, Len(c.completed_batches) <= NBatches
  PROVE  c \in Checkpoints
<1> DEFINE done == c.completed_batches
<1>1. done \in Seq(Batches) /\ Len(done) \in Nat
  BY DEF Checkpoint
<1>2. done \in [1..Len(done) -> Batches] /\ Len(done) \in 0..NBatches
  BY <1>1, BatchFacts
<1>3. done \in SeqOf(Batches, NBatches)
  BY <1>2 DEF SeqOf
<1> QED BY <1>3 DEF Checkpoint, Checkpoints

\* A list of batches in order is no longer than there are batches.
LEMMA FewBatches ==
  ASSUME NEW s \in Seq(Batches), s = << >> \/ s = Canonical \/ Increasing(s)
  PROVE  Len(s) <= NBatches
<1>1. CASE s = << >> \/ s = Canonical
  BY <1>1, BatchFacts, CanonicalFacts
<1>2. CASE Increasing(s)
  <2>1. s \in Seq(Nat) /\ Range(s) \in SUBSET Batches
    BY BatchesAreNumbers
  <2>2. Len(s) = Cardinality(Range(s))
    BY <1>2, <2>1, AscendingUnique
  <2>3. Cardinality(Range(s)) <= Cardinality(Batches)
    BY <2>1, BatchFacts, FS_Subset
  <2> QED BY <2>2, <2>3, BatchFacts
<1> QED BY <1>1, <1>2

\* The invariant implies the types,
LEMMA ScanInvTypes == ScanInv => ScanTypeOK
<1> SUFFICES ASSUME ScanInv PROVE ScanTypeOK
  OBVIOUS
<1>1. ASSUME NEW k \in Keys, ckpt[k] # None PROVE ckpt[k] \in Checkpoints
  <2>1. ckpt[k] \in Checkpoint /\ BatchesFit(k, ckpt[k])
    BY <1>1 DEF ScanInv, CkptOK
  <2>2. ckpt[k].completed_batches \in Seq(Batches)
    BY <2>1 DEF Checkpoint
  <2>3. ckpt[k].completed_batches = Canonical \/ Increasing(ckpt[k].completed_batches)
    BY <2>1, InOrder DEF BatchesFit
  <2> QED BY <2>1, <2>2, <2>3, FewBatches, CheckpointBounded
<1>2. ASSUME NEW j \in Jobs PROVE job[j].mem \in Checkpoints
  <2>1. job[j].mem \in Checkpoint
    BY DEF ScanInv, JobOK, Process
  <2>2. job[j].mem.completed_batches \in Seq(Batches)
    BY <2>1 DEF Checkpoint
  <2>3. \/ job[j].mem.completed_batches \in {<< >>, Canonical}
        \/ Increasing(job[j].mem.completed_batches)
    BY <2>1, InOrder DEF ScanInv, JobOK, WorkerOK, ReducerOK
  <2> QED BY <2>1, <2>2, <2>3, FewBatches, CheckpointBounded
<1>3. \A n \in ScanNames : objects[n] = None \/ objects[n] \subseteq AllCells
  BY DEF ScanInv, LakeInv
<1> QED BY <1>1, <1>2, <1>3 DEF ScanInv, ScanTypeOK

\* that what is done is in the lake,
LEMMA ScanInvLake == ScanInv => DoneIsInTheLake
<1> SUFFICES ASSUME ScanInv, NEW c \in {ckpt[k] : k \in Keys} \cup {job[j].mem : j \in Jobs}, c # None
             PROVE  /\ \A b \in Committed(c) : \A n \in MapObjects(b) : objects[n] = CellsOf(b)
                    /\ c.completed_artist_day => objects[<<"artist_day_out">>] = AllCells
                    /\ \A p \in c.completed_affinity_partitions :
                         objects[<<"affinity", p>>] = {x \in AllCells : x[1] = p}
                    /\ c.completed_pairs => objects[<<"affinity_out">>] = AllCells
  BY DEF DoneIsInTheLake
<1>1. Held(objects, c)
  BY DEF ScanInv, CkptOK, JobOK, WorkerOK, ReducerOK
<1> QED BY <1>1 DEF Held, MapObjects, PartCells

\* and that the ranges are exact.
LEMMA ScanInvOrder == ScanInv => BatchesInOrder
<1> SUFFICES ASSUME ScanInv, NEW k \in Workers \cup {Full}, ckpt[k] # None
             PROVE  /\ ckpt[k].completed_batches = Ascending(Committed(ckpt[k]))
                    /\ k = Full => Committed(ckpt[k]) = Batches
  BY DEF BatchesInOrder
<1>1. k \in Keys
  BY DEF Keys
<1>2. ckpt[k] \in Checkpoint /\ BatchesFit(k, ckpt[k])
  BY <1>1 DEF ScanInv, CkptOK
<1>3. CASE k \in Workers
  <2>1. k # Full
    BY <1>3, KeyFacts
  <2> QED BY <1>2, <1>3, <2>1, InOrder, AscendingUnique DEF Committed
<1>4. CASE k = Full
  <2>1. ckpt[k].completed_batches = Canonical
    BY <1>2, <1>4, KeyFacts DEF BatchesFit
  <2>2. Committed(ckpt[k]) = Batches
    BY <2>1, CanonicalFacts DEF Committed
  <2> QED BY <2>1, <2>2 DEF Canonical
<1> QED BY <1>3, <1>4

\* Every variable has its type in every reachable state: a checkpoint never
\* holds more batches than the corpus has, however often a worker starts
\* again.
THEOREM ScanTypeCorrect == ScanSpec => []ScanTypeOK
<1>1. ScanSpec => []ScanInv
  BY InitScan, StepScan, PTL DEF ScanSpec
<1> QED BY <1>1, ScanInvTypes, PTL

\* _publish_listenbrainz_tar_gold moves CURRENT to nothing less than the sum
\* over every batch and every listener partition, whatever crashed, was read
\* stale or overwrote the canonical checkpoint in between.
THEOREM GoldNeverPartial == ScanSpec => []GoldIsWhole
<1>1. ScanSpec => []ScanInv
  BY InitScan, StepScan, PTL DEF ScanSpec
<1>2. ScanInv => GoldIsWhole
  BY DEF ScanInv, GoldIsWhole
<1> QED BY <1>1, <1>2, PTL

\* What a checkpoint of lb_full_scan.py says is done, durable or remembered by
\* a job, is in the lake, so that a resume never finds an artifact missing
\* (verify_artifact_manifest).
THEOREM CheckpointsTellTheTruth == ScanSpec => []DoneIsInTheLake
<1>1. ScanSpec => []ScanInv
  BY InitScan, StepScan, PTL DEF ScanSpec
<1> QED BY <1>1, ScanInvLake, PTL

\* A map worker that resumes (cmd_map) repeats no batch and keeps their order,
\* without which the reducers, who demand the exact ranges, would be blocked
\* for ever; and the canonical checkpoint that the launcher's seal writes is
\* whole whenever it exists.
THEOREM RangesStayExact == ScanSpec => []BatchesInOrder
<1>1. ScanSpec => []ScanInv
  BY InitScan, StepScan, PTL DEF ScanSpec
<1> QED BY <1>1, ScanInvOrder, PTL

-----------------------------------------------------------------------------
\* A save that knows what the checkpoint held loses nothing of it.
LEMMA SaveKeeps ==
  ASSUME ScanInv, NEW j \in Jobs, NEW c, NEW next, Save(j, c, next), Ahead(job[j].mem, c),
         job[j].pc \notin {"off", "resume"},
         NEW k \in Workers \cup Slicers, ckpt[k] # None, faults' = 0
  PROVE  Ahead(ckpt[k], ckpt'[k])
<1>1. NoFault /\ ckpt' = [ckpt EXCEPT ![KeyOf(j)] = c]
  BY FaultFacts DEF Save, ScanInv
<1>2. faults = 0 /\ k \in Keys /\ KeyOf(k) = k /\ DOMAIN ckpt = Keys
  BY <1>1, KeyFacts DEF NoFault, Keys, ScanInv
<1>3. CASE KeyOf(j) = k
  <2>1. j \in Workers \cup Slicers
    BY <1>3, ScanAssumption DEF KeyOf, Jobs
  <2>2. Ahead(ckpt[k], job[j].mem)
    BY <1>2, <1>3, <2>1 DEF ScanInv, JobOK, Current
  <2>3. ckpt'[k] = c
    BY <1>1, <1>2, <1>3
  <2> QED BY <2>2, <2>3 DEF Ahead
<1>4. CASE KeyOf(j) # k
  BY <1>1, <1>2, <1>4 DEF Ahead
<1> QED BY <1>3, <1>4

\* Committing a batch loses none.
LEMMA CommitAdds ==
  ASSUME NEW c \in Checkpoint, NEW b \in Batches
  PROVE  Ahead(c, WithBatch(c, b))
<1> DEFINE done == c.completed_batches
<1>1. done \in Seq(Batches) /\ WithBatch(c, b).completed_batches = Append(done, b)
      /\ WithBatch(c, b).completed_affinity_partitions = c.completed_affinity_partitions
  BY DEF Checkpoint, WithBatch
<1>2. Range(done) \subseteq Range(Append(done, b))
  <2> HIDE DEF done
  <2>1. /\ Len(done) \in Nat /\ DOMAIN done = 1..Len(done)
        /\ DOMAIN Append(done, b) = 1..(Len(done) + 1)
        /\ \A i \in 1..Len(done) : Append(done, b)[i] = done[i]
    BY <1>1, AppendProperties, LenProperties
  <2> QED BY <2>1 DEF Range
<1> QED BY <1>1, <1>2 DEF Ahead, Committed

\* Without a fault, a step takes a checkpoint forward or leaves it.
LEMMA StepKeeps ==
  ASSUME ScanInv, [ScanNext]_vars, NEW k \in Workers \cup Slicers, ckpt[k] # None, faults' = 0
  PROVE  Ahead(ckpt[k], ckpt'[k])
<1>1. CASE UNCHANGED ckpt
  BY <1>1 DEF Ahead
<1>2. ASSUME NEW w \in Workers, CommitBatch(w) PROVE Ahead(ckpt[k], ckpt'[k])
  <2> DEFINE c == job[w]
             b == Head(c.left)
             next == [c EXCEPT !.pc = "map", !.mem = WithBatch(c.mem, b), !.left = Tail(@)]
  <2>1. Save(w, WithBatch(c.mem, b), next) /\ c.pc = "commit"
    BY <1>2 DEF CommitBatch, At
  <2>2. WorkerOK(objects, w, c) /\ w \in Jobs
    BY WorkerFacts
  <2>3. c.mem \in Checkpoint /\ b \in Batches
    <3>1. c.mem \in Checkpoint /\ c.left \in Seq(Batches) /\ c.left # << >>
      BY <2>1, <2>2 DEF WorkerOK, Left
    <3> QED BY <3>1
  <2>4. Ahead(c.mem, WithBatch(c.mem, b))
    BY <2>3, CommitAdds
  <2> HIDE DEF next, b
  <2> QED BY <2>1, <2>2, <2>4, SaveKeeps
<1>3. ASSUME NEW w \in Workers, FinishMap(w) PROVE Ahead(ckpt[k], ckpt'[k])
  <2>1. \E next : Save(w, job[w].mem, next)
    BY <1>3 DEF FinishMap
  <2>2. job[w].pc = "map" /\ w \in Jobs /\ Ahead(job[w].mem, job[w].mem)
    BY <1>3, WorkerFacts DEF FinishMap, At, Ahead
  <2> QED BY <2>1, <2>2, SaveKeeps
<1>4. ASSUME NEW j \in Slicers \cup Reducers, PutBootstrap(j) \/ SaveGold(j)
      PROVE  Ahead(ckpt[k], ckpt'[k])
  <2>1. \E next : Save(j, job[j].mem, next)
    BY <1>4 DEF PutBootstrap, SaveGold
  <2>2. job[j].pc \in {"boot", "gold"} /\ j \in Jobs /\ Ahead(job[j].mem, job[j].mem)
    BY <1>4, ReducerFacts DEF PutBootstrap, SaveGold, At, Ahead
  <2> QED BY <2>1, <2>2, SaveKeeps
<1>5. ASSUME NEW j \in Slicers \cup Reducers, SaveReduced(j) PROVE Ahead(ckpt[k], ckpt'[k])
  <2>1. \E next : Save(j, Reduced(j), next)
    BY <1>5 DEF SaveReduced
  <2>2. job[j].pc = "save" /\ j \in Jobs /\ Ahead(job[j].mem, Reduced(j))
    BY <1>5, ReducerFacts, ReducedFacts DEF SaveReduced, At
  <2> QED BY <2>1, <2>2, SaveKeeps
<1>6. CASE SealPut
  <2>1. k # Full
    BY KeyFacts, ScanAssumption
  <2>2. ckpt'[k] = ckpt[k]
    BY <1>6, <2>1 DEF SealPut
  <2> QED BY <2>2 DEF Ahead
<1>7. ASSUME NEW w \in Workers, StartMap(w) \/ SkipBatch(w) \/ UploadArtistDay(w)
                                \/ UploadListeners(w) \/ Publish(w)
      PROVE  UNCHANGED ckpt
  BY <1>7 DEF StartMap, SkipBatch, UploadArtistDay, UploadListeners, Publish
<1>8. ASSUME NEW j \in Slicers \cup Reducers,
             \/ Bootstrap(j) \/ ResumeSlice(j) \/ Refuse(j) \/ AlreadyReduced(j) \/ ReduceArtistDay(j)
             \/ SkipPartition(j) \/ ReducePartition(j) \/ ReducePairs(j) \/ SealAffinity(j)
             \/ PutMarker(j) \/ PublishGold(j) \/ Publish(j)
      PROVE  UNCHANGED ckpt
  BY <1>8 DEF Bootstrap, ResumeSlice, Refuse, AlreadyReduced, ReduceArtistDay, SkipPartition,
              ReducePartition, ReducePairs, SealAffinity, PutMarker, PublishGold, Publish
<1>9. ASSUME StartSeal \/ SealRead \/ (\E j \in Jobs : Crash(j)) \/ UNCHANGED vars
      PROVE  UNCHANGED ckpt
  BY <1>9 DEF StartSeal, SealRead, Crash, vars
<1> QED BY <1>1, <1>2, <1>3, <1>4, <1>5, <1>6, <1>7, <1>8, <1>9 DEF ScanNext, MapStep, ReduceStep

\* Without a fault no committed progress of a map or slice job is lost:
\* save_checkpoint replaces a job's checkpoint only by one that has all of it.
THEOREM ProgressIsKept == ScanSpec => ProgressKept
<1>1. ScanSpec => []ScanInv
  BY InitScan, StepScan, PTL DEF ScanSpec
<1>2. ScanInv /\ [ScanNext]_vars =>
        [\A k \in Workers \cup Slicers : ckpt[k] # None /\ faults' = 0 =>
           /\ Committed(ckpt[k]) \subseteq Committed(ckpt'[k])
           /\ ckpt[k].completed_affinity_partitions
                \subseteq ckpt'[k].completed_affinity_partitions]_vars
  BY StepKeeps DEF Ahead
<1> QED BY <1>1, <1>2, PTL DEF ScanSpec, ProgressKept
===============================================================================
