------------------------- MODULE ServingSnapshot_proofs -------------------------
(***************************************************************************)
(* The warehouse that the acquisition workflow writes, and the files that  *)
(* its publisher serves from it.                                           *)
(*                                                                         *)
(* The ledgers refer to each other as the code means them to: an alert     *)
(* tells of a snapshot that is in the ledger (AlertsAreTold), the runs     *)
(* that were followed up announced their events (FollowUpsAnnounce), and   *)
(* an alert without its edges is the one being written or cost a crash.    *)
(* Snapshots are appended and never changed, so whatever a copy of the     *)
(* warehouse says about them remains true of the warehouse; hence a served *)
(* file, which was counted and sealed from one cut, stays one, whatever is *)
(* written meanwhile and whoever publishes besides (IsServable).           *)
(*                                                                         *)
(* That CURRENT opens needs more: with two publishers, one may remove the  *)
(* file whose name the other has just put. One publisher alone has its     *)
(* file there from the rename on (PointerIsSound).                         *)
(***************************************************************************)
EXTENDS ServingSnapshot, FiniteSetTheorems, WellFoundedInduction, TLAPS

-----------------------------------------------------------------------------
(* The invariant. *)

\* The objects an alert is related to, and the programs of the workflow.
Kinds == {"EVENT", "ARTIST", "PROMOTER"}
Programs == {"idle", "market", "persist", "close", "tape", "changes", "new"}

\* A snapshot of an event as it was reported.
Record == [event : Events, at : Nat, run : Nat \cup {None}, facts : Reports]

\* What the program at work remembers.
Memory == [market : Nat, verdict : Verdicts, page : SUBSET Record,
           alert : AlertKeys \cup {None}, pending : SUBSET Kinds]

\* Types of the ledgers, and what they refer to.
LedgerTypes ==
  /\ snapshots \in Seq(Record) /\ runs \in Seq(Verdicts)
  /\ \A i \in 1..Len(snapshots) : snapshots[i].run \in (1..Len(runs)) \cup {None}
  /\ \A t \in tape : t[3] \in 1..Len(snapshots) /\ snapshots[t[3]].event = t[2]
  /\ resolved \subseteq Events
  /\ alerts \subseteq AlertKeys /\ IsFiniteSet(alerts)
  /\ edges \subseteq alerts \X Kinds /\ owed \subseteq alerts \X Kinds
  /\ announced \subseteq 1..Len(runs)
  /\ faults \in 0..MaxFaults

\* The program at work: a run that is written is the last one and still open; an
\* alert that is being related belongs to an alert pass.
AtWork ==
  /\ pc \in Programs /\ task \in Memory
  /\ pc \in {"market", "persist", "close"} =>
       /\ Len(runs) > 0 /\ runs[Len(runs)] = "RUNNING" /\ Len(runs) \notin announced
       /\ task.market > 0
       /\ pc = "persist" => \A x \in task.page : x.run = Len(runs)
  /\ task.alert # None =>
       /\ pc \in {"changes", "new"} /\ task.alert \in alerts
       /\ \A k \in Kinds : <<task.alert, k>> \in owed \ edges => k \in task.pending
  /\ task.alert # None => task.pending # {}

\* The snapshot among the first n that alert a tells of.
ToldBy(a, n) ==
  \E i \in 1..n :
    /\ snapshots[i].event = a[2]
    /\ a[1] # "NEW_EVENT" =>
         Previous(i) # 0 /\ a \in Changes(a[2], Before(i), snapshots[i].facts)

\* Every alert tells of a snapshot in the ledger.
AlertsAreTold == \A a \in alerts : ToldBy(a, Len(snapshots))

\* Runs 1..r all completed, each followed by an alert pass before the next.
FollowedUp(r) == \A q \in 1..r : runs[q] = "COMPLETE" /\ q \in announced

\* The events reported by runs that were all followed up have been announced.
FollowUpsAnnounce ==
  \A r \in 1..Len(runs) : FollowedUp(r) =>
    \A i \in 1..Len(snapshots) :
      snapshots[i].run \in 1..r => <<"NEW_EVENT", snapshots[i].event, "first_seen">> \in alerts

\* The invariant of the warehouse.
WarehouseInv ==
  /\ LedgerTypes /\ AtWork /\ AlertsAreTold /\ FollowUpsAnnounce
  /\ Cardinality(Orphans) <= faults

\* A copy of the warehouse: one cut, as long as the ledger at most.
IsCut(file) ==
  /\ file.cut \in 0..Len(snapshots)
  /\ file.alerts \subseteq AlertKeys /\ file.edges \subseteq file.alerts \X Kinds
  /\ \A a \in file.alerts : ToldBy(a, file.cut)

\* A copy that has not been sealed.
Drafts == [cut : Nat, alerts : SUBSET AlertKeys, edges : SUBSET (AlertKeys \X Kinds),
           workspace : BOOLEAN, status : {None}, counts : {None}]

\* A file that may be served: the rows counted before the copy are those
\* copied.
IsServable(file) == file \in Files /\ IsCut(file) /\ file.counts = file.cut

\* A publisher, and what it has in hand.
Publisher ==
  [pc : {"off", "copy", "seal", "rename", "open", "write", "replace"}, id : Ids \cup {None},
   counted : Nat, file : Drafts \cup Files \cup {None},
   fd : {None, "temp", "current", "gone"}]

\* A publisher that seals has one cut, and one that renames has a servable
\* file.
PublisherIsSound(x) ==
  /\ x.pc # "off" => x.id \in Ids
  /\ x.pc = "seal" => x.file \in Drafts /\ IsCut(x.file)
  /\ x.pc = "rename" => IsServable(x.file)

\* Every file under a served name is servable.
FilesAreServable ==
  /\ files \in [Ids -> Files \cup {None}]
  /\ \A i \in Ids : files[i] # None => IsServable(files[i])
  /\ pub \in [Publishers -> Publisher]
  /\ \A p \in Publishers : PublisherIsSound(pub[p])

\* The invariant of the warehouse and the files.
SnapshotInv == WarehouseInv /\ FilesAreServable

\* There is one publisher: the file it has renamed is there, and the temporary of
\* CURRENT.json is its own.
Alone == \E p \in Publishers : Publishers = {p}

\* One publisher: CURRENT names a file that is there, and so does what it is
\* about to put.
PointerIsSound ==
  /\ current # None => current \in Ids /\ files[current] # None
  /\ \A p \in Publishers :
       /\ pub[p].pc \in {"open", "write", "replace"} => files[pub[p].id] # None
       /\ pub[p].pc = "write" => pub[p].fd = "temp"
       /\ pub[p].pc = "replace" => temp = pub[p].id
-----------------------------------------------------------------------------
(* Snapshots. *)

\* A set of natural numbers that is not empty has a least element.
LEMMA LeastNatural ==
  ASSUME NEW T \in SUBSET Nat, T # {}
  PROVE  \E x \in T : \A y \in T : x <= y
<1>1. PICK x \in T : \A y \in T : ~ (<<y, x>> \in OpToRel(<, Nat))
  BY NatLessThanWellFounded, WFMin
<1>2. \A y \in T : ~ (y < x)
  BY <1>1 DEF OpToRel
<1> QED BY <1>2

\* ... and, if it is bounded, a last one, which LastOf returns.
LEMMA LastIsThere ==
  ASSUME NEW S \in SUBSET Nat, S # {}, NEW n \in Nat, \A x \in S : x <= n
  PROVE  LastOf(S) \in S /\ \A y \in S : y <= LastOf(S)
<1> DEFINE Bounds == {m \in Nat : \A x \in S : x <= m}
<1>1. PICK m \in Bounds : \A k \in Bounds : m <= k
  <2>1. Bounds \in SUBSET Nat /\ n \in Bounds
    OBVIOUS
  <2> HIDE DEF Bounds
  <2> QED BY <2>1, LeastNatural
<1>2. m \in Nat /\ \A x \in S : x <= m
  BY <1>1
<1>3. m \in S
  <2>1. SUFFICES ASSUME m \notin S PROVE FALSE
    OBVIOUS
  <2>2. \A x \in S : x <= m - 1
    BY <1>2, <2>1
  <2>3. m - 1 \in Nat
    <3>1. PICK x \in S : TRUE
      OBVIOUS
    <3>2. x \in Nat /\ x <= m - 1
      BY <2>2, <3>1
    <3> QED BY <1>2, <3>2
  <2> QED BY <1>1, <1>2, <2>2, <2>3
<1>4. \E x \in S : \A y \in S : y <= x
  BY <1>2, <1>3
<1> HIDE DEF Bounds
<1> QED BY <1>4 DEF LastOf

\* The previous snapshot of an event is an earlier one, of the same event.
LEMMA PreviousIsEarlier ==
  ASSUME snapshots \in Seq(Record), NEW i \in 1..Len(snapshots)
  PROVE  /\ Previous(i) # 0 => Previous(i) \in 1..Len(snapshots) /\ Previous(i) < i
         /\ Previous(i) = 0 <=> \A j \in 1..Len(snapshots) :
                                  snapshots[j].event = snapshots[i].event => j >= i
<1> DEFINE before == {j \in OfEvent(snapshots[i].event) : j < i}
<1>1. before \in SUBSET (1..Len(snapshots)) /\ \A j \in before : j < i
  BY DEF OfEvent
<1>2. Previous(i) = IF before = {} THEN 0 ELSE LastOf(before)
  BY DEF Previous
<1>3. before # {} => LastOf(before) \in before
  <2>1. before \in SUBSET Nat /\ i \in Nat /\ \A x \in before : x <= i
    BY <1>1
  <2> HIDE DEF before
  <2> QED BY <2>1, LastIsThere
<1>4. before = {} <=> \A j \in 1..Len(snapshots) :
                        snapshots[j].event = snapshots[i].event => j >= i
  BY DEF OfEvent
<1>5. CASE before = {}
  BY <1>2, <1>4, <1>5
<1>6. CASE before # {}
  <2>1. Previous(i) \in 1..Len(snapshots) /\ Previous(i) < i
    <3> HIDE DEF before
    <3> QED BY <1>1, <1>2, <1>3, <1>6
  <2> QED BY <1>4, <1>6, <2>1
<1> QED BY <1>5, <1>6

\* The ledger of snapshots only grows.
SnapshotsGrow ==
  /\ snapshots \in Seq(Record) /\ snapshots' \in Seq(Record)
  /\ Len(snapshots) <= Len(snapshots')
  /\ \A i \in 1..Len(snapshots) : snapshots'[i] = snapshots[i]

\* What was before a snapshot stays what it was.
LEMMA ThePastStays ==
  ASSUME SnapshotsGrow, NEW i \in 1..Len(snapshots)
  PROVE  Previous(i)' = Previous(i) /\ Before(i)' = Before(i)
<1> DEFINE before == {j \in OfEvent(snapshots[i].event) : j < i}
<1>1. Len(snapshots) \in Nat /\ Len(snapshots') \in Nat
  BY DEF SnapshotsGrow
<1>2. before' = before
  <2>1. \A j : j \in DOMAIN snapshots' /\ j < i <=> j \in DOMAIN snapshots /\ j < i
    BY <1>1 DEF SnapshotsGrow
  <2>2. \A j \in DOMAIN snapshots : snapshots'[j] = snapshots[j]
    BY DEF SnapshotsGrow
  <2> QED BY <2>1, <2>2 DEF OfEvent
<1>3. Previous(i)' = Previous(i)
  <2>1. /\ Previous(i) = IF before = {} THEN 0 ELSE LastOf(before)
        /\ Previous(i)' = IF before' = {} THEN 0 ELSE LastOf(before')
    BY DEF Previous, LastOf
  <2> HIDE DEF before
  <2> QED BY <1>2, <2>1
<1>4. Previous(i) # 0 => snapshots'[Previous(i)] = snapshots[Previous(i)]
  BY PreviousIsEarlier DEF SnapshotsGrow
<1> QED BY <1>3, <1>4 DEF Before

\* An alert goes on being told by the snapshots that told it, and by more.
LEMMA ToldStays ==
  ASSUME SnapshotsGrow, NEW a, NEW n \in 0..Len(snapshots), ToldBy(a, n),
         NEW m \in n..Len(snapshots')
  PROVE  ToldBy(a, m)'
<1>1. PICK i \in 1..n :
        /\ snapshots[i].event = a[2]
        /\ a[1] # "NEW_EVENT" =>
             Previous(i) # 0 /\ a \in Changes(a[2], Before(i), snapshots[i].facts)
  BY DEF ToldBy
<1>2. i \in 1..Len(snapshots) /\ i \in 1..m
  BY DEF SnapshotsGrow
<1>3. snapshots'[i] = snapshots[i] /\ Previous(i)' = Previous(i) /\ Before(i)' = Before(i)
  BY <1>2, ThePastStays DEF SnapshotsGrow
<1> QED BY <1>1, <1>2, <1>3 DEF ToldBy, Changes, When

\* Two numbers have a common bound.
LEMMA CommonBound ==
  ASSUME NEW x \in Nat, NEW y \in Nat
  PROVE  \E c \in Nat : x <= c /\ y <= c
<1>1. x + y \in Nat /\ x <= x + y /\ y <= x + y
  OBVIOUS
<1> QED BY <1>1

\* The time of the newest batch is a number.
LEMMA NowIsANumber ==
  ASSUME snapshots \in Seq(Record)
  PROVE  Now \in Nat
<1> DEFINE Bounded(n) == \E b \in Nat : \A i \in 1..n : snapshots[i].at <= b
           Bad == {n \in 0..Len(snapshots) : ~Bounded(n)}
<1>1. Len(snapshots) \in Nat /\ \A i \in 1..Len(snapshots) : snapshots[i].at \in Nat
  <2>1. \A i \in 1..Len(snapshots) : snapshots[i] \in Record
    OBVIOUS
  <2> QED BY <2>1 DEF Record
<1>2. Bad = {}
  <2>1. SUFFICES ASSUME Bad # {} PROVE FALSE
    OBVIOUS
  <2>2. PICK n \in Bad : \A m \in Bad : n <= m
    <3>1. Bad \in SUBSET Nat
      BY <1>1
    <3> HIDE DEF Bad
    <3> QED BY <2>1, <3>1, LeastNatural
  <2>3. n \in 0..Len(snapshots) /\ ~Bounded(n)
    BY <2>2
  <2>4. n # 0
    BY <2>3
  <2>5. n - 1 \in 0..Len(snapshots) /\ n - 1 \notin Bad
    <3>1. n \in Nat /\ n <= Len(snapshots)
      BY <1>1, <2>3
    <3>2. \A m \in Bad : n <= m
      BY <2>2
    <3> HIDE DEF Bad
    <3> QED BY <1>1, <2>4, <3>1, <3>2
  <2>6. PICK b \in Nat : \A i \in 1..(n - 1) : snapshots[i].at <= b
    BY <2>5
  <2>7. snapshots[n].at \in Nat
    BY <1>1, <2>3, <2>4
  <2>8. PICK c : c \in Nat /\ b <= c /\ snapshots[n].at <= c
    BY <2>7, CommonBound
  <2>9. \A i \in 1..n : snapshots[i].at <= c
    <3> TAKE i \in 1..n
    <3>1. i \in 1..(n - 1) \/ i = n
      BY <1>1, <2>3
    <3>2. i \in 1..Len(snapshots)
      BY <1>1, <2>3
    <3>3. snapshots[i].at \in Nat
      BY <1>1, <3>2
    <3> HIDE DEF Bad
    <3> QED BY <2>6, <2>7, <2>8, <3>1, <3>3
  <2> QED BY <2>3, <2>8, <2>9
<1>3. PICK b \in Nat : \A i \in 1..Len(snapshots) : snapshots[i].at <= b
  <2>1. Len(snapshots) \in 0..Len(snapshots)
    BY <1>1
  <2>2. Bounded(Len(snapshots))
    BY <1>2, <2>1
  <2> QED BY <2>2
<1>4. Batches \in SUBSET Nat /\ \A x \in Batches : x <= b
  BY <1>1, <1>3 DEF Batches
<1>5. Batches # {} => LastOf(Batches) \in Batches
  BY <1>4, LastIsThere
<1> QED BY <1>4, <1>5 DEF Now

-----------------------------------------------------------------------------
(* What an alert tells. *)

\* A change alert is about the event it was derived for, and is none of a new
\* event.
LEMMA ChangesAreOfTheEvent ==
  ASSUME NEW e, NEW p, NEW c, NEW a \in Changes(e, p, c)
  PROVE  /\ a[2] = e
         /\ a[1] \in {"EVENT_CANCELLED", "EVENT_POSTPONED", "EVENT_RESCHEDULED",
                      "EVENT_STATUS_CHANGED", "ONSALE_DISCOVERED", "PRESALE_DISCOVERED",
                      "PRICE_RANGE_CHANGED", "PROMOTER_IDENTIFIED"}
<1>1. StatusType(c.status) \in {"EVENT_CANCELLED", "EVENT_POSTPONED", "EVENT_RESCHEDULED",
                                "EVENT_STATUS_CHANGED"}
  BY DEF StatusType
<1> QED BY <1>1 DEF Changes, When

\* What precedes a snapshot that has a previous one is a report.
LEMMA BeforeIsAReport ==
  ASSUME snapshots \in Seq(Record), NEW i \in 1..Len(snapshots), Previous(i) # 0
  PROVE  Before(i) \in Reports
<1>1. Previous(i) \in 1..Len(snapshots)
  BY PreviousIsEarlier
<1>2. snapshots[Previous(i)] \in Record
  BY <1>1
<1> QED BY <1>2 DEF Before, Record

\* A change alert that is due is a key, and is told by the snapshot it was
\* derived from.
LEMMA ChangesAreTold ==
  ASSUME snapshots \in Seq(Record), NEW a \in ChangeAlerts
  PROVE  a \in AlertKeys /\ ToldBy(a, Len(snapshots))
<1>1. PICK i \in 1..Len(snapshots) :
        Previous(i) # 0 /\ a \in Changes(snapshots[i].event, Before(i), snapshots[i].facts)
  BY DEF ChangeAlerts
<1>2. a[2] = snapshots[i].event
  BY <1>1, ChangesAreOfTheEvent
<1>3. snapshots[i] \in Record
  OBVIOUS
<1>4. Before(i) \in Reports /\ snapshots[i].facts \in Reports /\ snapshots[i].event \in Events
  BY <1>1, <1>3, BeforeIsAReport DEF Record
<1>5. a \in AlertKeys
  BY <1>1, <1>4 DEF AlertKeys
<1> QED BY <1>1, <1>2, <1>5 DEF ToldBy

\* So is the alert about a new event.
LEMMA NewEventsAreTold ==
  ASSUME snapshots \in Seq(Record), NEW a \in NewEventAlerts
  PROVE  a \in AlertKeys /\ ToldBy(a, Len(snapshots))
<1>1. PICK e \in NewEvents : a = <<"NEW_EVENT", e, "first_seen">>
  BY DEF NewEventAlerts
<1>2. e \in Events /\ \E i \in OfEvent(e) : TRUE
  BY <1>1 DEF NewEvents
<1>3. PICK i \in 1..Len(snapshots) : snapshots[i].event = e
  BY <1>2 DEF OfEvent
<1> QED BY <1>1, <1>2, <1>3 DEF ToldBy, AlertKeys

\* An alert that a pass has yet to write tells of a snapshot.
LEMMA DueIsTold ==
  ASSUME snapshots \in Seq(Record), NEW a \in Due
  PROVE  /\ pc \in {"changes", "new"} /\ a \notin alerts
         /\ a \in AlertKeys /\ ToldBy(a, Len(snapshots))
BY ChangesAreTold, NewEventsAreTold DEF Due

-----------------------------------------------------------------------------
(* Orphans. *)

\* While no alert becomes an orphan there are not more of them.
LEMMA FewOrphansStay ==
  ASSUME WarehouseInv, Orphans' \subseteq Orphans, faults' = faults
  PROVE  Cardinality(Orphans') <= faults'
<1>1. IsFiniteSet(Orphans)
  BY FS_Subset DEF WarehouseInv, LedgerTypes, Orphans
<1>2. /\ Cardinality(Orphans') <= Cardinality(Orphans)
      /\ Cardinality(Orphans') \in Nat /\ Cardinality(Orphans) \in Nat
  BY <1>1, FS_Subset, FS_CardinalityType
<1> QED BY <1>2 DEF WarehouseInv, LedgerTypes

-----------------------------------------------------------------------------
(* The steps of the warehouse. *)

\* The invariant holds of the legacy warehouse.
LEMMA InitWarehouse ==
  ASSUME EAInit
  PROVE  WarehouseInv
<1> USE DEF EAInit
<1>1. Legacy \in Seq(Record) /\ \A i \in 1..Len(Legacy) : Legacy[i].run = None
  <2> DEFINE Old == [event : Events, at : Nat, run : {None}, facts : Reports]
  <2>1. Legacy \in Seq(Old)
    BY EAAssumption
  <2>2. \A i \in 1..Len(Legacy) : Legacy[i] \in Old
    <3> HIDE DEF Old
    <3> QED BY <2>1
  <2>3. \A i \in 1..Len(Legacy) : Legacy[i] \in Record /\ Legacy[i].run = None
    BY <2>2 DEF Record
  <2> HIDE DEF Old
  <2> QED BY <2>1, <2>3
<1>2. LedgerTypes
  BY <1>1, EAAssumption, FS_EmptySet DEF LedgerTypes
<1>3. AtWork
  BY DEF AtWork, Programs, Memory, Rest, Verdicts
<1>4. Cardinality(Orphans) <= faults
  <2>1. Orphans = {}
    BY DEF Orphans
  <2> QED BY <2>1, FS_EmptySet
<1> QED BY <1>2, <1>3, <1>4 DEF WarehouseInv, AlertsAreTold, FollowUpsAnnounce

\* A step that leaves the snapshots alone leaves what they tell.
LEMMA ToldAsBefore ==
  ASSUME LedgerTypes, UNCHANGED snapshots
  PROVE  SnapshotsGrow /\ \A a, n : ToldBy(a, n)' = ToldBy(a, n)
<1>1. SnapshotsGrow
  BY DEF LedgerTypes, SnapshotsGrow
<1> QED BY <1>1 DEF ToldBy, Previous, Before, OfEvent

\* What a snapshot tells does not depend on anything but the snapshots.
LEMMA ToldAgain ==
  ASSUME UNCHANGED snapshots
  PROVE  \A a, n : ToldBy(a, n)' = ToldBy(a, n)
BY DEF ToldBy, Previous, Before, OfEvent

\* Opening a run keeps the invariant.
LEMMA StartRunStep ==
  ASSUME WarehouseInv, StartRun
  PROVE  WarehouseInv' /\ SnapshotsGrow
<1> USE DEF WarehouseInv
<1>1. /\ pc = "idle" /\ runs' = Append(runs, "RUNNING") /\ pc' = "market"
      /\ task' = [Rest EXCEPT !.market = 1]
      /\ UNCHANGED <<snapshots, tape, resolved, alerts, edges, faults, owed, announced>>
  BY DEF StartRun
<1>2. /\ runs' \in Seq(Verdicts) /\ Len(runs) \in Nat /\ Len(runs') = Len(runs) + 1
      /\ runs'[Len(runs) + 1] = "RUNNING" /\ \A r \in 1..Len(runs) : runs'[r] = runs[r]
  BY <1>1 DEF LedgerTypes, Verdicts
<1>3. LedgerTypes'
  BY <1>1, <1>2 DEF LedgerTypes
<1>4. task' = [market |-> 1, verdict |-> "RUNNING", page |-> {}, alert |-> None, pending |-> {}]
  BY <1>1 DEF Rest
<1>5. Len(runs') \notin announced
  BY <1>2 DEF LedgerTypes
<1>6. AtWork'
  <2>1. task' \in Memory /\ task'.alert = None /\ task'.market = 1
    BY <1>4 DEF Memory, Verdicts
  <2> QED BY <1>1, <1>2, <1>5, <2>1 DEF AtWork, Programs
<1>7. FollowUpsAnnounce'
  <2>1. SUFFICES ASSUME NEW r \in 1..Len(runs'), FollowedUp(r)',
                        NEW i \in 1..Len(snapshots), snapshots[i].run \in 1..r
                 PROVE  <<"NEW_EVENT", snapshots[i].event, "first_seen">> \in alerts
    BY <1>1 DEF FollowUpsAnnounce
  <2>2. r \in 1..Len(runs)
    BY <1>2, <2>1 DEF FollowedUp
  <2>3. FollowedUp(r)
    BY <1>1, <1>2, <2>1, <2>2 DEF FollowedUp
  <2> QED BY <2>1, <2>2, <2>3 DEF FollowUpsAnnounce
<1>8. Orphans' = Orphans
  <2>1. task.alert = None
    BY <1>1 DEF AtWork
  <2> QED BY <1>1, <1>4, <2>1 DEF Orphans
<1> QED BY <1>1, <1>3, <1>6, <1>7, <1>8, FewOrphansStay, ToldAsBefore DEF AlertsAreTold

\* A step of the program's memory only.
LEMMA MemoryStep ==
  ASSUME WarehouseInv, UNCHANGED <<canonical, faults, owed, announced>>,
         task'.alert = task.alert, AtWork'
  PROVE  WarehouseInv' /\ SnapshotsGrow
<1> USE DEF WarehouseInv, canonical
<1>1. LedgerTypes'
  BY DEF LedgerTypes
<1>2. FollowUpsAnnounce'
  BY DEF FollowUpsAnnounce, FollowedUp
<1>3. Orphans' = Orphans
  BY DEF Orphans
<1> QED BY <1>1, <1>2, <1>3, FewOrphansStay, ToldAsBefore DEF AlertsAreTold

\* Fetching a page keeps it.
LEMMA AcquirePageStep ==
  ASSUME WarehouseInv, AcquirePage
  PROVE  WarehouseInv' /\ SnapshotsGrow
<1> USE DEF WarehouseInv
<1>1. pc = "market" /\ task.market <= Len(Markets) /\ UNCHANGED <<canonical, faults, owed, announced>>
  BY DEF AcquirePage
<1>2. /\ task \in Memory /\ task.alert = None /\ Len(runs) > 0 /\ Len(runs) \in Nat
      /\ runs[Len(runs)] = "RUNNING" /\ Len(runs) \notin announced
      /\ task.market \in Nat /\ task.market > 0
  BY <1>1 DEF AtWork, LedgerTypes, Memory
<1>3. CASE \E S \in SUBSET Markets[task.market] : \E reported \in [S -> Reports] :
             /\ task' = [task EXCEPT !.page = Page(S, reported), !.market = @ + 1]
             /\ pc' = "persist"
  <2> PICK S \in SUBSET Markets[task.market] : \E reported \in [S -> Reports] :
             /\ task' = [task EXCEPT !.page = Page(S, reported), !.market = @ + 1]
             /\ pc' = "persist"
    BY <1>3
  <2>1. PICK reported \in [S -> Reports] :
             /\ task' = [task EXCEPT !.page = Page(S, reported), !.market = @ + 1]
             /\ pc' = "persist"
    OBVIOUS
  <2>2. Markets[task.market] \in SUBSET Events
    BY <1>1, <1>2, EAAssumption
  <2>3. Now + 1 \in Nat
    BY NowIsANumber DEF LedgerTypes
  <2>4. Page(S, reported) \subseteq Record /\ \A x \in Page(S, reported) : x.run = Len(runs)
    BY <1>2, <2>2, <2>3 DEF Page, Record
  <2>5. PICK page : page = Page(S, reported)
    OBVIOUS
  <2>6. /\ task'.page = page /\ task'.market > 0 /\ task'.alert = None
        /\ task' \in Memory
    <3>1. PICK m \in Nat : m = task.market + 1
      BY <1>2
    <3>2. task' = [task EXCEPT !.page = page, !.market = m]
      BY <1>2, <2>1, <2>5, <3>1
    <3>3. page \in SUBSET Record /\ m > 0
      BY <1>2, <2>4, <2>5, <3>1
    <3> QED BY <1>2, <3>2, <3>3 DEF Memory
  <2>7. AtWork'
    BY <1>1, <1>2, <2>1, <2>4, <2>5, <2>6 DEF AtWork, Programs, canonical
  <2> QED BY <1>1, <1>2, <2>6, <2>7, MemoryStep
<1>4. CASE task' = [task EXCEPT !.verdict = "STOPPED"] /\ pc' = "close"
  <2>1. task' \in Memory /\ task'.alert = None /\ task'.market = task.market
    BY <1>2, <1>4 DEF Memory, Verdicts
  <2>2. AtWork'
    BY <1>1, <1>2, <1>4, <2>1 DEF AtWork, Programs, canonical
  <2> QED BY <1>1, <1>2, <2>1, <2>2, MemoryStep
<1> QED BY <1>3, <1>4 DEF AcquirePage

\* Appending a snapshot keeps it: the run that reports it is open, and not yet
\* followed up.
LEMMA PersistStep ==
  ASSUME WarehouseInv, PersistSnapshot
  PROVE  WarehouseInv' /\ SnapshotsGrow
<1> USE DEF WarehouseInv
<1>1. /\ pc = "persist" /\ UNCHANGED <<runs, tape, resolved, alerts, edges, faults, owed, announced>>
      /\ pc' \in {"market", "close", "persist"}
  BY DEF PersistSnapshot, NextStep
<1>2. /\ task \in Memory /\ task.alert = None /\ Len(runs) > 0 /\ Len(runs) \in Nat
      /\ runs[Len(runs)] = "RUNNING" /\ Len(runs) \notin announced /\ task.market > 0
      /\ \A x \in task.page : x \in Record /\ x.run = Len(runs)
  BY <1>1 DEF AtWork, LedgerTypes, Memory
<1>3. CASE task.page = {}
  <2>1. task' = task /\ snapshots' = snapshots
    BY <1>3 DEF PersistSnapshot
  <2>2. AtWork'
    BY <1>1, <1>2, <2>1 DEF AtWork, Programs
  <2> QED BY <1>1, <2>1, <2>2, MemoryStep DEF canonical
<1>4. CASE task.page # {}
  <2>1. PICK x \in task.page : x = NextOf(task.page)
    BY <1>4 DEF NextOf
  <2>2. snapshots' = Append(snapshots, x) /\ task' = [task EXCEPT !.page = @ \ {x}]
    BY <1>4, <2>1 DEF PersistSnapshot
  <2>3. x \in Record /\ x.run = Len(runs)
    BY <1>2
  <2>4. /\ Len(snapshots) \in Nat /\ Len(snapshots') = Len(snapshots) + 1
        /\ snapshots' \in Seq(Record) /\ snapshots'[Len(snapshots) + 1] = x
        /\ \A i \in 1..Len(snapshots) : snapshots'[i] = snapshots[i]
    BY <2>2, <2>3 DEF LedgerTypes
  <2>5. SnapshotsGrow
    BY <2>4 DEF SnapshotsGrow, LedgerTypes
  <2>6. LedgerTypes'
    <3>1. \A i \in 1..Len(snapshots') : snapshots'[i].run \in (1..Len(runs)) \cup {None}
      <4> TAKE i \in 1..Len(snapshots')
      <4>1. i \in 1..Len(snapshots) \/ i = Len(snapshots) + 1
        BY <2>4
      <4> QED BY <1>2, <2>3, <2>4, <4>1 DEF LedgerTypes
    <3>2. \A t \in tape : t[3] \in 1..Len(snapshots') /\ snapshots'[t[3]].event = t[2]
      BY <2>4 DEF LedgerTypes
    <3> QED BY <1>1, <2>4, <3>1, <3>2 DEF LedgerTypes
  <2>7. task' \in Memory /\ task'.alert = None /\ task'.market = task.market
        /\ \A y \in task'.page : y.run = Len(runs)
    BY <1>2, <2>2 DEF Memory
  <2>8. AtWork'
    BY <1>1, <1>2, <2>7 DEF AtWork, Programs
  <2>9. AlertsAreTold'
    <3>1. PICK m : m = Len(snapshots')
      OBVIOUS
    <3>2. Len(snapshots) \in 0..Len(snapshots) /\ m \in Len(snapshots)..Len(snapshots')
      BY <2>4, <3>1
    <3>3. \A a \in alerts : ToldBy(a, m)'
      BY <2>5, <3>2, ToldStays DEF AlertsAreTold
    <3> QED BY <1>1, <3>1, <3>3 DEF AlertsAreTold
  <2>10. FollowUpsAnnounce'
    <3>1. SUFFICES ASSUME NEW r \in 1..Len(runs), FollowedUp(r),
                          NEW i \in 1..Len(snapshots'), snapshots'[i].run \in 1..r
                   PROVE  <<"NEW_EVENT", snapshots'[i].event, "first_seen">> \in alerts
      BY <1>1 DEF FollowUpsAnnounce, FollowedUp
    <3>2. r # Len(runs)
      BY <1>2, <3>1 DEF FollowedUp
    <3>3. i \in 1..Len(snapshots)
      BY <1>2, <2>3, <2>4, <3>1, <3>2
    <3> QED BY <2>4, <3>1, <3>3 DEF FollowUpsAnnounce
  <2>11. Orphans' = Orphans
    BY <1>1, <1>2, <2>7 DEF Orphans
  <2> QED BY <1>1, <2>5, <2>6, <2>8, <2>9, <2>10, <2>11, FewOrphansStay
<1> QED BY <1>3, <1>4

\* Closing a run keeps it: nothing of the run is announced yet, so the runs
\* followed up stay what they were.
LEMMA CloseRunStep ==
  ASSUME WarehouseInv, CloseRun
  PROVE  WarehouseInv' /\ SnapshotsGrow
<1> USE DEF WarehouseInv
<1>1. /\ pc = "close" /\ pc' = "tape" /\ task' = Rest
      /\ UNCHANGED <<snapshots, tape, resolved, alerts, edges, faults, owed, announced>>
  BY DEF CloseRun
<1>2. task \in Memory /\ task.alert = None /\ Len(runs) > 0 /\ Len(runs) \in Nat
      /\ Len(runs) \notin announced
  BY <1>1 DEF AtWork, LedgerTypes
<1>3. PICK v \in Verdicts : runs' = [runs EXCEPT ![Len(runs)] = v]
  BY <1>2 DEF CloseRun, Memory, Verdicts
<1>4. /\ runs' \in Seq(Verdicts) /\ Len(runs') = Len(runs)
      /\ \A r \in 1..Len(runs) : r # Len(runs) => runs'[r] = runs[r]
  BY <1>2, <1>3 DEF LedgerTypes
<1>5. LedgerTypes'
  BY <1>1, <1>4 DEF LedgerTypes
<1>6. AtWork'
  BY <1>1 DEF AtWork, Memory, Programs, Verdicts, Rest
<1>7. FollowUpsAnnounce'
  <2>1. SUFFICES ASSUME NEW r \in 1..Len(runs), FollowedUp(r)',
                        NEW i \in 1..Len(snapshots), snapshots[i].run \in 1..r
                 PROVE  <<"NEW_EVENT", snapshots[i].event, "first_seen">> \in alerts
    BY <1>1, <1>4 DEF FollowUpsAnnounce
  <2>2. r # Len(runs)
    BY <1>1, <1>2, <2>1 DEF FollowedUp
  <2>3. FollowedUp(r)
    BY <1>1, <1>4, <2>1, <2>2 DEF FollowedUp
  <2> QED BY <2>1, <2>3 DEF FollowUpsAnnounce
<1>8. Orphans' = Orphans
  BY <1>1, <1>2 DEF Orphans, Rest
<1> QED BY <1>1, <1>5, <1>6, <1>7, <1>8, FewOrphansStay, ToldAsBefore DEF AlertsAreTold

\* A step that leaves the snapshots, the runs and the alerts alone.
LEMMA QuietStep ==
  ASSUME WarehouseInv, UNCHANGED <<snapshots, runs, alerts, edges, faults, owed, announced>>,
         task'.alert = task.alert, LedgerTypes', AtWork'
  PROVE  WarehouseInv' /\ SnapshotsGrow
<1> USE DEF WarehouseInv
<1>1. FollowUpsAnnounce'
  BY DEF FollowUpsAnnounce, FollowedUp
<1>2. Orphans' = Orphans
  BY DEF Orphans
<1> QED BY <1>1, <1>2, FewOrphansStay, ToldAsBefore DEF AlertsAreTold

\* A row of the tape keeps it.
LEMMA TapeStep ==
  ASSUME WarehouseInv, InsertTapeRow
  PROVE  WarehouseInv' /\ SnapshotsGrow
<1> USE DEF WarehouseInv
<1>1. /\ pc = "tape" /\ UNCHANGED <<snapshots, runs, resolved, alerts, edges, pc, task, faults, owed,
                                    announced>>
  BY DEF InsertTapeRow
<1>2. PICK x \in TapeRows : tape' = tape \cup {x}
  BY DEF InsertTapeRow, Untaped, NextOf
<1>3. x[3] \in 1..Len(snapshots) /\ snapshots[x[3]].event = x[2]
  BY DEF TapeRows, LedgerTypes
<1>4. LedgerTypes'
  BY <1>1, <1>2, <1>3 DEF LedgerTypes
<1>5. AtWork'
  BY <1>1 DEF AtWork
<1> QED BY <1>1, <1>4, <1>5, QuietStep

\* Resolving the artist of an event keeps it.
LEMMA ResolveStep ==
  ASSUME WarehouseInv, NEW e \in Events, Resolve(e)
  PROVE  WarehouseInv' /\ SnapshotsGrow
<1> USE DEF WarehouseInv
<1>1. /\ UNCHANGED <<snapshots, runs, tape, alerts, edges, pc, task, faults, owed, announced>>
      /\ resolved' = resolved \cup {e}
  BY DEF Resolve
<1>2. LedgerTypes' /\ AtWork'
  BY <1>1 DEF LedgerTypes, AtWork
<1> QED BY <1>1, <1>2, QuietStep

\* The end of a program and the start of the alert passes keep it.
LEMMA TurnStep ==
  ASSUME WarehouseInv, EndActivation \/ StartAlerts
  PROVE  WarehouseInv' /\ SnapshotsGrow
<1> USE DEF WarehouseInv
<1>1. /\ pc \in {"tape", "idle"} /\ pc' \in {"idle", "changes"}
      /\ UNCHANGED <<canonical, task, faults, owed, announced>>
  BY DEF EndActivation, StartAlerts
<1>2. AtWork'
  BY <1>1 DEF AtWork, Programs, canonical
<1> QED BY <1>1, <1>2, MemoryStep

\* An alert is written with the debt of its edges, and is no orphan while it is
\* being related.
LEMMA InsertAlertStep ==
  ASSUME WarehouseInv, InsertAlert
  PROVE  WarehouseInv' /\ SnapshotsGrow
<1> USE DEF WarehouseInv
<1>1. PICK a \in Due : a = NextOf(Due)
  BY DEF InsertAlert, NextOf
<1>2. /\ a \notin alerts /\ a \in AlertKeys /\ ToldBy(a, Len(snapshots))
      /\ pc \in {"changes", "new"} /\ a # None
  BY DueIsTold, NoneAssumption DEF LedgerTypes
<1>3. PICK kinds \in SUBSET Kinds : kinds = Related(a[2]) /\ kinds # {}
  BY DEF Related, When, Kinds
<1>4. /\ alerts' = alerts \cup {a} /\ owed' = owed \cup ({a} \X kinds)
      /\ task' = [task EXCEPT !.alert = a, !.pending = kinds]
      /\ UNCHANGED <<snapshots, runs, tape, resolved, edges, pc, faults, announced>>
      /\ task.alert = None
  BY <1>1, <1>3 DEF InsertAlert, RelatedTo
<1>5. task \in Memory
  BY DEF AtWork
<1>6. /\ task'.alert = a /\ task'.pending = kinds /\ task' \in Memory
      /\ task'.page = task.page /\ task'.market = task.market
  BY <1>2, <1>4, <1>5 DEF Memory
<1>7. LedgerTypes'
  <2>1. IsFiniteSet(alerts')
    BY <1>4, FS_AddElement DEF LedgerTypes
  <2>2. owed' \subseteq alerts' \X Kinds
    BY <1>4 DEF LedgerTypes
  <2> QED BY <1>2, <1>4, <2>1, <2>2 DEF LedgerTypes
<1>8. AtWork'
  <2>1. \A k \in Kinds : <<a, k>> \in owed' => k \in kinds
    BY <1>2, <1>4 DEF LedgerTypes
  <2> QED BY <1>2, <1>3, <1>4, <1>6, <2>1 DEF AtWork, Programs
<1>9. AlertsAreTold'
  BY <1>2, <1>4, ToldAsBefore DEF AlertsAreTold
<1>10. FollowUpsAnnounce'
  BY <1>4 DEF FollowUpsAnnounce, FollowedUp
<1>11. Orphans' \subseteq Orphans
  <2>1. SUFFICES ASSUME NEW b \in Orphans' PROVE b \in Orphans
    OBVIOUS
  <2>2. b \in alerts /\ b # a /\ b # None
    BY <1>4, <1>6, <2>1, NoneAssumption DEF Orphans, LedgerTypes
  <2>3. \A o \in owed' : o[1] = b => o \in owed
    BY <1>4, <2>2
  <2> QED BY <1>4, <2>1, <2>2, <2>3 DEF Orphans
<1> QED BY <1>4, <1>7, <1>8, <1>9, <1>10, <1>11, FewOrphansStay, ToldAsBefore

\* The last edge ends the debt.
LEMMA InsertEdgeStep ==
  ASSUME WarehouseInv, InsertEdge
  PROVE  WarehouseInv' /\ SnapshotsGrow
<1> USE DEF WarehouseInv
<1>1. /\ task.alert # None /\ task \in Memory /\ task.alert \in alerts /\ task.pending # {}
      /\ pc \in {"changes", "new"}
      /\ \A k \in Kinds : <<task.alert, k>> \in owed \ edges => k \in task.pending
  BY DEF InsertEdge, AtWork
<1>2. PICK x \in task.pending : x = NextOf(task.pending)
  BY <1>1 DEF NextOf
<1>3. /\ edges' = edges \cup {<<task.alert, x>>}
      /\ task' = IF task.pending = {x} THEN Rest ELSE [task EXCEPT !.pending = @ \ {x}]
      /\ UNCHANGED <<snapshots, runs, tape, resolved, alerts, pc, faults, owed, announced>>
  BY <1>2 DEF InsertEdge
<1>4. x \in Kinds
  BY <1>1, <1>2 DEF Memory
<1>5. LedgerTypes'
  BY <1>1, <1>3, <1>4 DEF LedgerTypes
<1>6. AlertsAreTold' /\ FollowUpsAnnounce' /\ SnapshotsGrow
  BY <1>3, ToldAsBefore DEF AlertsAreTold, FollowUpsAnnounce, FollowedUp
<1>7. CASE task.pending = {x}
  <2>1. task' = Rest /\ task'.alert = None /\ task' \in Memory
    BY <1>3, <1>7 DEF Rest, Memory, Verdicts
  <2>2. AtWork'
    BY <1>1, <1>3, <2>1 DEF AtWork, Programs
  <2>3. Orphans' \subseteq Orphans
    <3>1. SUFFICES ASSUME NEW b \in Orphans' PROVE b \in Orphans
      OBVIOUS
    <3>2. PICK o \in owed : o[1] = b /\ o \notin edges'
      BY <1>3, <3>1 DEF Orphans
    <3>3. b # task.alert
      <4>1. SUFFICES ASSUME b = task.alert PROVE FALSE
        OBVIOUS
      <4>2. o = <<b, o[2]>> /\ o[2] \in Kinds
        BY <3>2 DEF LedgerTypes
      <4>3. o[2] \in task.pending
        BY <1>1, <1>3, <3>2, <4>1, <4>2
      <4> QED BY <1>3, <1>7, <3>2, <4>1, <4>2, <4>3
    <3> QED BY <1>3, <3>1, <3>2, <3>3 DEF Orphans
  <2> QED BY <1>3, <1>5, <1>6, <2>2, <2>3, FewOrphansStay
<1>8. CASE task.pending # {x}
  <2>1. /\ task' \in Memory /\ task'.alert = task.alert /\ task'.pending = task.pending \ {x}
        /\ task'.pending # {} /\ task'.page = task.page /\ task'.market = task.market
    BY <1>1, <1>2, <1>3, <1>8 DEF Memory
  <2>2. \A k \in Kinds : <<task.alert, k>> \in owed \ edges' => k \in task'.pending
    BY <1>1, <1>3, <2>1
  <2>3. AtWork'
    BY <1>1, <1>3, <2>1, <2>2 DEF AtWork, Programs
  <2>4. Orphans' \subseteq Orphans
    BY <1>3, <2>1 DEF Orphans
  <2> QED BY <1>3, <1>5, <1>6, <2>3, <2>4, FewOrphansStay
<1> QED BY <1>7, <1>8

\* When the last pass of alerts ends, every event of the run that just completed
\* has been announced: by this pass, or after an earlier run that reported it.
LEMMA PhaseDoneStep ==
  ASSUME WarehouseInv, PhaseDone
  PROVE  WarehouseInv' /\ SnapshotsGrow
<1> USE DEF WarehouseInv
<1>1. /\ pc \in {"changes", "new"} /\ task.alert = None /\ Due = {} /\ pc' \in {"new", "idle"}
      /\ UNCHANGED <<canonical, task, faults, owed>>
      /\ announced' = announced \/ (pc = "new" /\ runs # << >> /\ announced' = announced \cup {Len(runs)})
  BY DEF PhaseDone, When
<1>2. Len(runs) \in Nat /\ (runs # << >> => Len(runs) > 0)
  BY DEF LedgerTypes
<1>3. AtWork'
  BY <1>1 DEF AtWork, Programs, canonical
<1>4. CASE announced' = announced
  BY <1>1, <1>3, <1>4, MemoryStep
<1>5. CASE pc = "new" /\ runs # << >> /\ announced' = announced \cup {Len(runs)}
  <2>1. LedgerTypes'
    BY <1>1, <1>2, <1>5 DEF LedgerTypes, canonical
  <2>2. NewEventAlerts \subseteq alerts
    BY <1>1, <1>5 DEF Due
  <2>3. FollowUpsAnnounce'
    <3>1. SUFFICES ASSUME NEW r \in 1..Len(runs), FollowedUp(r)',
                          NEW i \in 1..Len(snapshots), snapshots[i].run \in 1..r
                   PROVE  <<"NEW_EVENT", snapshots[i].event, "first_seen">> \in alerts
      BY <1>1 DEF FollowUpsAnnounce, canonical
    <3>2. \A q \in 1..r : runs[q] = "COMPLETE" /\ q \in announced \cup {Len(runs)}
      BY <1>1, <1>5, <3>1 DEF FollowedUp, canonical
    <3>3. ASSUME NEW k \in 1..Len(runs), k < Len(runs), k <= r,
                 NEW j \in 1..Len(snapshots), snapshots[j].run \in 1..k
          PROVE  <<"NEW_EVENT", snapshots[j].event, "first_seen">> \in alerts
      <4>1. FollowedUp(k)
        BY <1>2, <3>2, <3>3 DEF FollowedUp
      <4> QED BY <3>3, <4>1 DEF FollowUpsAnnounce
    <3>4. CASE r < Len(runs)
      BY <3>1, <3>3, <3>4
    <3>5. CASE r = Len(runs)
      <4> DEFINE e == snapshots[i].event
      <4>1. CompleteRuns = 1..Len(runs) /\ CompleteRuns # {}
        BY <1>2, <1>5, <3>2, <3>5 DEF CompleteRuns, LedgerTypes
      <4>2. LatestRun = Len(runs)
        <5>1. Len(runs) \in CompleteRuns /\ \A y \in CompleteRuns : y <= Len(runs)
          BY <1>2, <1>5, <4>1
        <5>2. \A x \in CompleteRuns : (\A y \in CompleteRuns : y <= x) => x = Len(runs)
          BY <1>2, <4>1, <5>1
        <5> QED BY <5>1, <5>2 DEF LatestRun, LastOf
      <4>3. ASSUME NEW j \in OfEvent(e), snapshots[j].run \notin {None, Len(runs)}
            PROVE  <<"NEW_EVENT", e, "first_seen">> \in alerts
        <5>1. j \in 1..Len(snapshots) /\ snapshots[j].event = e
          BY <4>3 DEF OfEvent, LedgerTypes
        <5>2. snapshots[j].run \in 1..Len(runs)
          BY <4>3, <5>1 DEF LedgerTypes
        <5>3. PICK k : k = snapshots[j].run
          OBVIOUS
        <5>4. k \in 1..Len(runs) /\ k < Len(runs) /\ k <= r /\ snapshots[j].run \in 1..k
          BY <1>2, <3>5, <4>3, <5>2, <5>3
        <5> QED BY <3>3, <5>1, <5>4
      <4>4. CASE \A j \in OfEvent(e) : snapshots[j].run \in {None, Len(runs)}
        <5>1. i \in OfEvent(e) /\ snapshots[i].run # None /\ e \in Events
          <6>1. snapshots[i] \in Record /\ i \in DOMAIN snapshots
            BY DEF LedgerTypes
          <6> QED BY <3>1, <6>1, NoneAssumption DEF OfEvent, Record
        <5>2. e \in NewEvents
          BY <4>1, <4>2, <4>4, <5>1 DEF NewEvents
        <5> QED BY <2>2, <5>2 DEF NewEventAlerts
      <4> QED BY <4>3, <4>4
    <3> QED BY <1>2, <3>4, <3>5
  <2>4. Orphans' = Orphans
    BY <1>1 DEF Orphans, canonical
  <2>5. AlertsAreTold' /\ SnapshotsGrow
    BY <1>1, ToldAsBefore DEF AlertsAreTold, canonical
  <2> QED BY <1>1, <1>3, <2>1, <2>3, <2>4, <2>5, FewOrphansStay
<1> QED BY <1>1, <1>4, <1>5

\* A crash makes an orphan of the alert being related, and of no other.
LEMMA CrashStep ==
  ASSUME WarehouseInv, Crash
  PROVE  WarehouseInv' /\ SnapshotsGrow
<1> USE DEF WarehouseInv
<1>1. /\ pc' = "idle" /\ task' = Rest /\ faults < MaxFaults /\ faults' = faults + 1
      /\ UNCHANGED <<canonical, owed, announced>>
  BY DEF Crash
<1>2. faults \in Nat /\ faults' \in 0..MaxFaults /\ MaxFaults \in Nat
  BY <1>1, EAAssumption DEF LedgerTypes
<1>3. LedgerTypes'
  BY <1>1, <1>2 DEF LedgerTypes, canonical
<1>4. AtWork'
  BY <1>1 DEF AtWork, Rest, Memory, Programs, Verdicts
<1>5. AlertsAreTold' /\ FollowUpsAnnounce' /\ SnapshotsGrow
  BY <1>1, ToldAsBefore DEF AlertsAreTold, FollowUpsAnnounce, FollowedUp, canonical
<1>6. Cardinality(Orphans') <= faults'
  <2>1. Orphans' \subseteq Orphans \cup {task.alert}
    BY <1>1 DEF Orphans, canonical
  <2>2. IsFiniteSet(Orphans)
    BY FS_Subset DEF LedgerTypes, Orphans
  <2>3. /\ IsFiniteSet(Orphans \cup {task.alert}) /\ Cardinality(Orphans) \in Nat
        /\ Cardinality(Orphans \cup {task.alert}) \in Nat
        /\ Cardinality(Orphans \cup {task.alert}) <= Cardinality(Orphans) + 1
    <3>1. Cardinality(Orphans) \in Nat
      BY <2>2, FS_CardinalityType
    <3>2. /\ IsFiniteSet(Orphans \cup {task.alert})
          /\ Cardinality(Orphans \cup {task.alert}) =
               IF task.alert \in Orphans THEN Cardinality(Orphans) ELSE Cardinality(Orphans) + 1
      BY <2>2, FS_AddElement
    <3> QED BY <3>1, <3>2
  <2>4. /\ Cardinality(Orphans') <= Cardinality(Orphans \cup {task.alert})
        /\ Cardinality(Orphans') \in Nat
    BY <2>1, <2>3, FS_Subset, FS_CardinalityType
  <2> QED BY <1>1, <1>2, <2>3, <2>4
<1> QED BY <1>3, <1>4, <1>5, <1>6

\* Every step of the warehouse keeps it, and only appends snapshots.
LEMMA WarehouseStep ==
  ASSUME WarehouseInv, EANext
  PROVE  WarehouseInv' /\ SnapshotsGrow
BY StartRunStep, AcquirePageStep, PersistStep, CloseRunStep, TapeStep, ResolveStep, TurnStep,
   InsertAlertStep, InsertEdgeStep, PhaseDoneStep, CrashStep
   DEF EANext

\* A step of a publisher leaves the warehouse alone; its death counts as a fault.
LEMMA WarehouseRests ==
  ASSUME WarehouseInv, UNCHANGED <<canonical, pc, task, owed, announced>>,
         faults' \in 0..MaxFaults, faults' >= faults
  PROVE  WarehouseInv' /\ SnapshotsGrow
<1> USE DEF WarehouseInv
<1>1. LedgerTypes' /\ AtWork'
  BY DEF LedgerTypes, AtWork, canonical
<1>2. AlertsAreTold' /\ FollowUpsAnnounce' /\ SnapshotsGrow
  BY ToldAsBefore DEF AlertsAreTold, FollowUpsAnnounce, FollowedUp, canonical
<1>3. Orphans' = Orphans /\ IsFiniteSet(Orphans)
  BY FS_Subset DEF Orphans, canonical, LedgerTypes
<1>4. Cardinality(Orphans) \in Nat /\ faults \in Nat /\ faults' \in Nat
  BY <1>3, FS_CardinalityType DEF LedgerTypes
<1> QED BY <1>1, <1>2, <1>3, <1>4

-----------------------------------------------------------------------------
(* The steps of a publisher. *)

\* What was one cut of the warehouse remains one.
LEMMA CutStays ==
  ASSUME SnapshotsGrow, NEW file, IsCut(file)
  PROVE  IsCut(file)'
<1>1. PICK n : n = file.cut
  OBVIOUS
<1>2. n \in 0..Len(snapshots) /\ n \in 0..Len(snapshots') /\ n \in n..Len(snapshots')
  BY <1>1 DEF IsCut, SnapshotsGrow
<1>3. \A a \in file.alerts : ToldBy(a, n)'
  BY <1>1, <1>2, ToldStays DEF IsCut
<1> QED BY <1>1, <1>2, <1>3 DEF IsCut

\* A servable file stays servable while snapshots are only appended.
LEMMA ServableStays ==
  ASSUME SnapshotsGrow, NEW file, IsServable(file)
  PROVE  IsServable(file)'
BY CutStays DEF IsServable

\* So does what a publisher has in hand.
LEMMA SoundStays ==
  ASSUME SnapshotsGrow, NEW x, PublisherIsSound(x)
  PROVE  PublisherIsSound(x)'
<1>1. x.pc = "seal" => IsCut(x.file)'
  BY CutStays DEF PublisherIsSound
<1>2. x.pc = "rename" => IsServable(x.file)'
  BY ServableStays DEF PublisherIsSound
<1> QED BY <1>1, <1>2 DEF PublisherIsSound

\* A step of the warehouse leaves what was published servable.
LEMMA WarehouseGrows ==
  ASSUME FilesAreServable, SnapshotsGrow, UNCHANGED <<files, pub>>
  PROVE  FilesAreServable'
<1>1. \A i \in Ids : files[i] # None => IsServable(files[i])'
  <2> TAKE i \in Ids
  <2>1. PICK file : file = files[i] /\ file = files'[i]
    OBVIOUS
  <2> QED BY <2>1, ServableStays DEF FilesAreServable, IsServable, IsCut
<1>2. \A p \in Publishers : PublisherIsSound(pub[p])'
  <2> TAKE p \in Publishers
  <2>1. PICK x : x = pub[p] /\ x = pub'[p]
    OBVIOUS
  <2> QED BY <2>1, SoundStays DEF FilesAreServable, PublisherIsSound, IsServable, IsCut
<1> QED BY <1>1, <1>2 DEF FilesAreServable

\* One publisher goes on.
LEMMA PublisherGoesOn ==
  ASSUME FilesAreServable, SnapshotsGrow, UNCHANGED <<snapshots, files>>,
         NEW p \in Publishers, NEW x \in Publisher, PublisherIsSound(x),
         pub' = [pub EXCEPT ![p] = x]
  PROVE  FilesAreServable'
<1>1. \A file : IsCut(file)' = IsCut(file)
  BY ToldAgain DEF IsCut
<1>2. \A i \in Ids : files[i] # None => IsServable(files[i])'
  BY <1>1 DEF FilesAreServable, IsServable
<1>3. pub' \in [Publishers -> Publisher]
  BY DEF FilesAreServable
<1>4. \A q \in Publishers : PublisherIsSound(pub'[q])
  BY DEF FilesAreServable
<1>5. \A q \in Publishers : PublisherIsSound(pub[q])'
  BY <1>1, <1>4 DEF PublisherIsSound, IsServable
<1> QED BY <1>2, <1>3, <1>5 DEF FilesAreServable

\* A publisher that gives up, or dies, removes only its own file or none.
LEMMA CleanUpStep ==
  ASSUME FilesAreServable, SnapshotsGrow, UNCHANGED <<snapshots, files>>,
         NEW p \in Publishers, CleanUp(p)
  PROVE  FilesAreServable'
<1>1. Off \in Publisher /\ PublisherIsSound(Off)
  BY DEF Off, Publisher, PublisherIsSound
<1> QED BY <1>1, PublisherGoesOn DEF CleanUp

\* A publication that begins keeps the files servable.
LEMMA BeginStep ==
  ASSUME WarehouseInv, SnapshotsGrow, FilesAreServable, NEW p \in Publishers,
         \E i \in Ids : Begin(p, i)
  PROVE  FilesAreServable'
<1>1. PICK i \in Ids : Begin(p, i)
  OBVIOUS
<1>2. PICK x : x = [Off EXCEPT !.pc = "copy", !.id = i, !.counted = Len(snapshots)]
  OBVIOUS
<1>3. Len(snapshots) \in Nat
  BY DEF WarehouseInv, LedgerTypes
<1>4. x \in Publisher /\ x.pc = "copy" /\ x.id = i
  BY <1>2, <1>3 DEF Off, Publisher
<1>5. pub' = [pub EXCEPT ![p] = x] /\ UNCHANGED <<snapshots, files>>
  BY <1>1, <1>2 DEF Begin, eaVars, canonical
<1> QED BY <1>4, <1>5, PublisherGoesOn DEF PublisherIsSound

\* The copy is one cut: that of the moment it was taken.
LEMMA CopyStep ==
  ASSUME WarehouseInv, SnapshotsGrow, FilesAreServable, NEW p \in Publishers, CopyWarehouse(p)
  PROVE  FilesAreServable'
<1>1. pub[p].pc = "copy" /\ UNCHANGED <<snapshots, files>>
  BY DEF CopyWarehouse, At, eaVars, canonical
<1>2. CASE CleanUp(p)
  BY <1>1, <1>2, CleanUpStep
<1>3. ASSUME pub' = [pub EXCEPT ![p].pc = "seal", ![p].file = Copy(pub[p].counted)]
      PROVE  FilesAreServable'
  <2>1. PICK file : file = Copy(pub[p].counted)
    OBVIOUS
  <2>2. file \in Drafts /\ IsCut(file)
    <3>1. /\ Len(snapshots) \in Nat /\ alerts \subseteq AlertKeys /\ edges \subseteq alerts \X Kinds
          /\ \A a \in alerts : ToldBy(a, Len(snapshots))
      BY DEF WarehouseInv, LedgerTypes, AlertsAreTold
    <3>2. /\ file.cut = Len(snapshots) /\ file.alerts = alerts /\ file.edges = edges
          /\ file = [cut |-> Len(snapshots), alerts |-> alerts, edges |-> edges,
                     workspace |-> TRUE, status |-> None, counts |-> None]
      BY <2>1 DEF Copy
    <3>3. file \in Drafts
      BY <3>1, <3>2 DEF Drafts, Kinds
    <3> QED BY <3>1, <3>2, <3>3 DEF IsCut
  <2>3. PICK x : x = [pub[p] EXCEPT !.pc = "seal", !.file = file]
    OBVIOUS
  <2>4. pub[p] \in Publisher /\ pub[p].id \in Ids
    BY <1>1 DEF FilesAreServable, PublisherIsSound
  <2>5. /\ x \in Publisher /\ x.pc = "seal" /\ x.file = file /\ x.id = pub[p].id
        /\ pub' = [pub EXCEPT ![p] = x]
    BY <1>3, <2>1, <2>2, <2>3, <2>4 DEF Publisher, FilesAreServable
  <2> QED BY <1>1, <2>2, <2>4, <2>5, PublisherGoesOn DEF PublisherIsSound
<1> QED BY <1>2, <1>3 DEF CopyWarehouse

\* What passes verification can be served.
LEMMA SealStep ==
  ASSUME SnapshotsGrow, FilesAreServable, NEW p \in Publishers, StripSealVerify(p)
  PROVE  FilesAreServable'
<1>1. pub[p].pc = "seal" /\ UNCHANGED <<snapshots, files>>
  BY DEF StripSealVerify, At, eaVars, canonical
<1>2. CASE CleanUp(p)
  BY <1>1, <1>2, CleanUpStep
<1>3. ASSUME Verified(Sealed(p)),
             pub' = [pub EXCEPT ![p].pc = "rename", ![p].file = Sealed(p)]
      PROVE  FilesAreServable'
  <2>1. PICK file : file = Sealed(p)
    OBVIOUS
  <2>2. /\ pub[p] \in Publisher /\ pub[p].id \in Ids /\ pub[p].file \in Drafts
        /\ IsCut(pub[p].file) /\ pub[p].counted \in Nat
    BY <1>1 DEF FilesAreServable, PublisherIsSound, Publisher
  <2>3. PICK draft \in Drafts : draft = pub[p].file
    BY <2>2
  <2>4. file = [draft EXCEPT !.workspace = FALSE, !.status = "VERIFIED", !.counts = pub[p].counted]
    BY <2>1, <2>3 DEF Sealed
  <2>5. /\ file \in Files /\ file.cut = draft.cut /\ file.alerts = draft.alerts
        /\ file.edges = draft.edges
    <3>1. file = [cut |-> draft.cut, alerts |-> draft.alerts, edges |-> draft.edges,
                  workspace |-> FALSE, status |-> "VERIFIED", counts |-> pub[p].counted]
      BY <2>4 DEF Drafts
    <3>2. /\ draft.cut \in Nat /\ draft.alerts \in SUBSET AlertKeys
          /\ draft.edges \in SUBSET (AlertKeys \X {"EVENT", "ARTIST", "PROMOTER"})
      BY DEF Drafts, Kinds
    <3> QED BY <2>2, <3>1, <3>2 DEF Files
  <2>6. IsServable(file)
    BY <1>3, <2>1, <2>2, <2>3, <2>5 DEF IsServable, IsCut, Verified, Valid
  <2>7. PICK x : x = [pub[p] EXCEPT !.pc = "rename", !.file = file]
    OBVIOUS
  <2>8. /\ x \in Publisher /\ x.pc = "rename" /\ x.file = file /\ x.id = pub[p].id
        /\ pub' = [pub EXCEPT ![p] = x]
    BY <1>3, <2>1, <2>2, <2>5, <2>7 DEF Publisher, FilesAreServable
  <2> QED BY <1>1, <2>2, <2>6, <2>8, PublisherGoesOn DEF PublisherIsSound
<1> QED BY <1>2, <1>3 DEF StripSealVerify

\* A rename puts a servable file under its name.
LEMMA RenameStep ==
  ASSUME SnapshotsGrow, FilesAreServable, NEW p \in Publishers, Rename(p)
  PROVE  FilesAreServable'
<1>1. pub[p].pc = "rename" /\ UNCHANGED snapshots
  BY DEF Rename, At, eaVars, canonical
<1>2. pub[p] \in Publisher /\ pub[p].id \in Ids /\ IsServable(pub[p].file)
  BY <1>1 DEF FilesAreServable, PublisherIsSound
<1>3. files' = [files EXCEPT ![pub[p].id] = pub[p].file]
  BY DEF Rename
<1>4. files' \in [Ids -> Files \cup {None}]
  BY <1>2, <1>3 DEF FilesAreServable, IsServable
<1>5. \A file : IsCut(file)' = IsCut(file)
  BY <1>1, ToldAgain DEF IsCut
<1>6. \A i \in Ids : files'[i] # None => IsServable(files'[i])
  BY <1>2, <1>3 DEF FilesAreServable
<1>7. \A i \in Ids : files'[i] # None => IsServable(files[i])'
  BY <1>5, <1>6 DEF IsServable
<1>8. PICK x : x = [pub[p] EXCEPT !.pc = "open", !.file = None]
  OBVIOUS
<1>9. /\ x \in Publisher /\ x.pc = "open" /\ x.id = pub[p].id
      /\ pub' = [pub EXCEPT ![p] = x]
  BY <1>2, <1>8 DEF Publisher, FilesAreServable, Rename
<1>10. pub' \in [Publishers -> Publisher] /\ \A q \in Publishers : PublisherIsSound(pub'[q])
  BY <1>2, <1>9 DEF FilesAreServable, PublisherIsSound
<1>11. \A q \in Publishers : PublisherIsSound(pub[q])'
  BY <1>5, <1>10 DEF PublisherIsSound, IsServable
<1> QED BY <1>4, <1>7, <1>10, <1>11 DEF FilesAreServable

\* The pointer and its temporary are no part of what can be served.
LEMMA PointerStep ==
  ASSUME SnapshotsGrow, FilesAreServable, NEW p \in Publishers,
         OpenTemp(p) \/ WriteTemp(p) \/ ReplaceCurrent(p)
  PROVE  FilesAreServable'
<1>1. UNCHANGED <<snapshots, files>> /\ pub[p].pc \in {"open", "write", "replace"}
  BY DEF OpenTemp, WriteTemp, ReplaceCurrent, At, eaVars, canonical
<1>2. pub[p] \in Publisher /\ pub[p].id \in Ids
  BY <1>1 DEF FilesAreServable, PublisherIsSound
<1>3. CASE OpenTemp(p) \/ WriteTemp(p)
  <2>1. PICK x \in {[pub[p] EXCEPT !.pc = "write", !.fd = "temp"],
                    [pub[p] EXCEPT !.pc = "replace", !.fd = None]} :
          pub' = [pub EXCEPT ![p] = x]
    BY <1>2, <1>3 DEF OpenTemp, WriteTemp, FilesAreServable
  <2>2. x \in Publisher /\ x.pc \in {"write", "replace"} /\ x.id = pub[p].id
    BY <1>2 DEF Publisher
  <2> QED BY <1>1, <1>2, <2>1, <2>2, PublisherGoesOn DEF PublisherIsSound
<1>4. CASE ReplaceCurrent(p)
  <2>1. CASE CleanUp(p)
    BY <1>1, <2>1, CleanUpStep
  <2>2. CASE pub' = [q \in Publishers |->
                       IF q = p THEN Off ELSE [pub[q] EXCEPT !.fd = Renamed(@)]]
    <3>1. \A q \in Publishers : pub'[q] \in Publisher /\ PublisherIsSound(pub'[q])
      <4> TAKE q \in Publishers
      <4>1. CASE q = p
        BY <2>2, <4>1 DEF Off, Publisher, PublisherIsSound
      <4>2. CASE q # p
        <5>1. pub[q] \in Publisher /\ PublisherIsSound(pub[q])
          BY DEF FilesAreServable
        <5>2. PICK f : f = Renamed(pub[q].fd)
          OBVIOUS
        <5>3. f \in {None, "temp", "current", "gone"}
          BY <5>1, <5>2 DEF Renamed, Publisher
        <5>4. pub'[q] = [pub[q] EXCEPT !.fd = f]
          BY <2>2, <4>2, <5>1, <5>2 DEF Publisher
        <5>5. /\ pub'[q] \in Publisher /\ pub'[q].pc = pub[q].pc /\ pub'[q].id = pub[q].id
              /\ pub'[q].file = pub[q].file
          BY <5>1, <5>3, <5>4 DEF Publisher
        <5> QED BY <5>1, <5>5 DEF PublisherIsSound
      <4> QED BY <4>1, <4>2
    <3>2. pub' \in [Publishers -> Publisher]
      BY <2>2, <3>1
    <3>3. \A file : IsCut(file)' = IsCut(file)
      BY <1>1, ToldAgain DEF IsCut
    <3>4. \A q \in Publishers : PublisherIsSound(pub[q])'
      BY <3>1, <3>3 DEF PublisherIsSound, IsServable
    <3>5. \A i \in Ids : files[i] # None => IsServable(files[i])'
      BY <1>1, <3>3 DEF FilesAreServable, IsServable
    <3> QED BY <1>1, <3>2, <3>4, <3>5 DEF FilesAreServable
  <2> QED BY <1>4, <2>1, <2>2 DEF ReplaceCurrent
<1> QED BY <1>3, <1>4

\* Every step of a publication keeps the invariant.
LEMMA PublicationStep ==
  ASSUME SnapshotInv, NEW p \in Publishers, Publication(p)
  PROVE  SnapshotInv'
<1> USE DEF SnapshotInv
<1>1. CASE PublisherCrash(p)
  <2>1. /\ UNCHANGED <<canonical, pc, task, owed, announced, files>> /\ CleanUp(p)
        /\ faults < MaxFaults /\ faults' = faults + 1
    BY <1>1 DEF PublisherCrash
  <2>2. faults' \in 0..MaxFaults /\ faults' >= faults
    BY <2>1, EAAssumption DEF WarehouseInv, LedgerTypes
  <2>3. WarehouseInv' /\ SnapshotsGrow
    BY <2>1, <2>2, WarehouseRests
  <2> QED BY <2>1, <2>3, CleanUpStep DEF canonical
<1>2. CASE ~PublisherCrash(p)
  <2>1. UNCHANGED eaVars
    BY <1>2 DEF Publication, Begin, CopyWarehouse, StripSealVerify, Rename, OpenTemp, WriteTemp,
                ReplaceCurrent
  <2>2. UNCHANGED <<canonical, pc, task, owed, announced>> /\ faults' = faults
        /\ faults \in 0..MaxFaults
    BY <2>1 DEF eaVars, WarehouseInv, LedgerTypes
  <2>3. WarehouseInv' /\ SnapshotsGrow
    BY <2>2, WarehouseRests
  <2> QED BY <1>2, <2>3, BeginStep, CopyStep, SealStep, RenameStep, PointerStep DEF Publication
<1> QED BY <1>1, <1>2

-----------------------------------------------------------------------------
(* The theorems. *)

\* It holds at the beginning.
LEMMA InitSnapshots ==
  ASSUME SSInit
  PROVE  SnapshotInv
<1>1. WarehouseInv
  BY InitWarehouse DEF SSInit
<1>2. Off \in Publisher /\ PublisherIsSound(Off)
  BY DEF Off, Publisher, PublisherIsSound
<1> QED BY <1>1, <1>2 DEF SnapshotInv, FilesAreServable, SSInit

\* Every step keeps it.
LEMMA SnapshotStep ==
  ASSUME SnapshotInv, [SSNext]_vars
  PROVE  SnapshotInv'
<1>1. CASE EANext /\ UNCHANGED ssVars
  BY <1>1, WarehouseStep, WarehouseGrows DEF SnapshotInv, ssVars
<1>2. CASE \E p \in Publishers : Publication(p)
  BY <1>2, PublicationStep
<1>3. CASE UNCHANGED vars
  <2>1. UNCHANGED <<canonical, pc, task, owed, announced, files, pub>> /\ faults' = faults
        /\ faults \in 0..MaxFaults
    BY <1>3 DEF vars, ssVars, eaVars, SnapshotInv, WarehouseInv, LedgerTypes
  <2>2. WarehouseInv' /\ SnapshotsGrow
    BY <2>1, WarehouseRests DEF SnapshotInv
  <2> QED BY <2>1, <2>2, WarehouseGrows DEF SnapshotInv
<1> QED BY <1>1, <1>2, <1>3 DEF SSNext

\* It holds in every state of every behaviour.
LEMMA SnapshotInvHolds == SSSpec => []SnapshotInv
BY InitSnapshots, SnapshotStep, PTL DEF SSSpec

\* Every variable of the warehouse has its type in every reachable state, and
\* every reference is to a row that exists: a snapshot to its run, a tape row
\* to its snapshot, an edge to its alert.
THEOREM WarehouseTypeCorrect == SSSpec => []EATypeOK
<1>1. SnapshotInv => EATypeOK
  <2> SUFFICES ASSUME LedgerTypes, AtWork PROVE EATypeOK
    BY DEF SnapshotInv, WarehouseInv
  <2>1. \A i \in 1..Len(snapshots) : snapshots[i].event \in Events /\ snapshots[i].facts \in Reports
    <3>1. \A i \in 1..Len(snapshots) : snapshots[i] \in Record
      BY DEF LedgerTypes
    <3> QED BY <3>1 DEF Record
  <2>2. \A r \in 1..Len(runs) : runs[r] \in Verdicts
    BY DEF LedgerTypes
  <2>3. DOMAIN snapshots = 1..Len(snapshots) /\ DOMAIN runs = 1..Len(runs)
    BY DEF LedgerTypes
  <2>4. \A x \in edges : x[1] \in alerts
    BY DEF LedgerTypes
  <2> QED BY <2>1, <2>2, <2>3, <2>4 DEF LedgerTypes, AtWork, EATypeOK, Programs
<1> QED BY <1>1, SnapshotInvHolds, PTL

\* Only a crash between the two statements of _persist_alert leaves an alert
\* without its edges, and no crash leaves two: there are no more such alerts
\* than crashes, for any number of events, runs and passes.
THEOREM CrashesMakeOrphans == SSSpec => []OrphansNeedCrashes
<1>1. SnapshotInv => OrphansNeedCrashes
  BY DEF SnapshotInv, WarehouseInv, OrphansNeedCrashes
<1> QED BY <1>1, SnapshotInvHolds, PTL

\* An event with a snapshot has a first one.
LEMMA EventsHaveAFirst ==
  ASSUME snapshots \in Seq(Record), NEW i \in 1..Len(snapshots)
  PROVE  \E j \in OfEvent(snapshots[i].event) : Previous(j) = 0
<1>1. PICK j \in 1..Len(snapshots) :
        /\ snapshots[j].event = snapshots[i].event
        /\ \A k \in 1..Len(snapshots) : snapshots[k].event = snapshots[i].event => j <= k
  <2> DEFINE T == {k \in 1..Len(snapshots) : snapshots[k].event = snapshots[i].event}
  <2>1. T \in SUBSET Nat /\ T # {}
    OBVIOUS
  <2>2. \E x \in T : \A y \in T : x <= y
    <3> HIDE DEF T
    <3> QED BY <2>1, LeastNatural
  <2> QED BY <2>2
<1>2. Previous(j) = 0
  <2>1. \A k \in 1..Len(snapshots) : snapshots[k].event = snapshots[j].event => k >= j
    BY <1>1
  <2> QED BY <2>1, PreviousIsEarlier
<1> QED BY <1>1, <1>2 DEF OfEvent

\* The change an alert of a taped kind tells of is a discovery of the derivation
\* too, at the same snapshot.
LEMMA ChangesAreDiscovered ==
  ASSUME NEW i \in 1..Len(snapshots), NEW a,
         a \in Changes(a[2], Before(i), snapshots[i].facts),
         a[1] \notin OnlyAlerted, a[1] # "NEW_EVENT"
  PROVE  a[1] \in Discoveries(i) /\ TapedAs(a[1]) = a[1]
<1> DEFINE p == Before(i)
           c == snapshots[i].facts
<1>1. a[1] \in {"EVENT_CANCELLED", "EVENT_POSTPONED", "EVENT_RESCHEDULED",
                "ONSALE_DISCOVERED", "PROMOTER_IDENTIFIED"}
  BY ChangesAreOfTheEvent DEF OnlyAlerted
<1>2. CASE a[1] \in {"EVENT_CANCELLED", "EVENT_POSTPONED", "EVENT_RESCHEDULED"}
  <2>1. /\ p.status # None /\ c.status # None /\ p.status # c.status
        /\ a[1] = StatusType(c.status)
    BY <1>2 DEF Changes, When
  <2>2. Activity(c.status) = a[1] /\ a[1] # None
    BY <1>2, <2>1, NoneAssumption DEF Activity, StatusType
  <2> QED BY <1>2, <2>1, <2>2 DEF Discoveries, TapedAs
<1>3. CASE a[1] = "ONSALE_DISCOVERED"
  <2>1. StatusType(c.status) # "ONSALE_DISCOVERED"
    BY DEF StatusType
  <2>2. p.onsale = None /\ c.onsale # None
    BY <1>3, <2>1 DEF Changes, When
  <2> QED BY <1>3, <2>2 DEF Discoveries, TapedAs
<1>4. CASE a[1] = "PROMOTER_IDENTIFIED"
  <2>1. StatusType(c.status) # "PROMOTER_IDENTIFIED"
    BY DEF StatusType
  <2>2. p.promoter = None /\ c.promoter # None
    BY <1>4, <2>1 DEF Changes, When
  <2> QED BY <1>4, <2>2 DEF Discoveries, TapedAs
<1> QED BY <1>1, <1>2, <1>3, <1>4

\* An alert tells of a snapshot, and each it tells of has its row among those the
\* tape is owed.
LEMMA SourcesAreTaped ==
  ASSUME snapshots \in Seq(Record), NEW a, ToldBy(a, Len(snapshots)), a[1] \notin OnlyAlerted
  PROVE  /\ Sources(a) # {}
         /\ \A i \in Sources(a) : <<TapedAs(a[1]), a[2], i>> \in TapeRows
<1>1. PICK i \in 1..Len(snapshots) :
        /\ snapshots[i].event = a[2]
        /\ a[1] # "NEW_EVENT" =>
             Previous(i) # 0 /\ a \in Changes(a[2], Before(i), snapshots[i].facts)
  BY DEF ToldBy
<1>2. \A j \in OfEvent(a[2]) : j \in 1..Len(snapshots) /\ snapshots[j].event = a[2]
  BY DEF OfEvent
<1>3. CASE a[1] = "NEW_EVENT"
  <2>1. Sources(a) # {}
    BY <1>1, <1>3, EventsHaveAFirst DEF Sources
  <2>2. ASSUME NEW j \in Sources(a) PROVE <<TapedAs(a[1]), a[2], j>> \in TapeRows
    <3>1. j \in 1..Len(snapshots) /\ snapshots[j].event = a[2] /\ Previous(j) = 0
      BY <1>2, <1>3 DEF Sources
    <3>2. "EVENT_DISCOVERED" \in Discoveries(j)
      BY <3>1 DEF Discoveries
    <3> QED BY <1>3, <3>1, <3>2 DEF TapedAs, TapeRows
  <2> QED BY <2>1, <2>2
<1>4. CASE a[1] # "NEW_EVENT"
  <2>1. Sources(a) # {}
    BY <1>1, <1>4 DEF Sources, OfEvent
  <2>2. ASSUME NEW j \in Sources(a) PROVE <<TapedAs(a[1]), a[2], j>> \in TapeRows
    <3>1. /\ j \in 1..Len(snapshots) /\ snapshots[j].event = a[2]
          /\ a \in Changes(a[2], Before(j), snapshots[j].facts)
      BY <1>2, <1>4 DEF Sources
    <3>2. a[1] \in Discoveries(j) /\ TapedAs(a[1]) = a[1]
      BY <1>4, <3>1, ChangesAreDiscovered
    <3> QED BY <3>1, <3>2 DEF TapeRows
  <2> QED BY <2>1, <2>2
<1> QED BY <1>3, <1>4

\* Once the activity tape is up to date, each snapshot that makes the change an
\* alert tells of has the row of that change there, for any reports, runs and
\* crashes; the three kinds the tape does not have (OnlyAlerted), presales among
\* them, are excepted.
THEOREM AnalystsSeeTheTape == SSSpec => []AlertsAreTaped
<1>1. SnapshotInv => AlertsAreTaped
  <2> SUFFICES ASSUME SnapshotInv, Untaped = {}, NEW a \in alerts, a[1] \notin OnlyAlerted
               PROVE  /\ Sources(a) # {}
                      /\ \A i \in Sources(a) : <<TapedAs(a[1]), a[2], i>> \in tape
    BY DEF AlertsAreTaped
  <2>1. ToldBy(a, Len(snapshots)) /\ snapshots \in Seq(Record)
    BY DEF SnapshotInv, WarehouseInv, LedgerTypes, AlertsAreTold
  <2>2. TapeRows \subseteq tape
    BY DEF Untaped
  <2> QED BY <2>1, <2>2, SourcesAreTaped
<1> QED BY <1>1, SnapshotInvHolds, PTL

\* When every run so far completed and each was followed by an alert pass
\* before the next run, every event that a run has reported was announced as
\* new (generate_new_event_alerts).
THEOREM NothingGoesUnannounced == SSSpec => []NewEventsAreAnnounced
<1>1. SnapshotInv => NewEventsAreAnnounced
  <2> SUFFICES ASSUME SnapshotInv, CompleteRuns = DOMAIN runs, announced = DOMAIN runs,
                      NEW i \in DOMAIN snapshots, snapshots[i].run # None
               PROVE  <<"NEW_EVENT", snapshots[i].event, "first_seen">> \in alerts
    BY DEF NewEventsAreAnnounced
  <2>1. /\ i \in 1..Len(snapshots) /\ snapshots[i].run \in 1..Len(runs)
        /\ Len(runs) \in Nat /\ DOMAIN runs = 1..Len(runs)
    BY DEF SnapshotInv, WarehouseInv, LedgerTypes
  <2>2. Len(runs) \in 1..Len(runs)
    BY <2>1
  <2>3. FollowedUp(Len(runs))
    BY <2>1 DEF FollowedUp, CompleteRuns
  <2> QED BY <2>1, <2>2, <2>3 DEF SnapshotInv, WarehouseInv, FollowUpsAnnounce
<1> QED BY <1>1, SnapshotInvHolds, PTL

\* A file that is served is one cut of the warehouse, without the analysts'
\* tables: each change alert comes with the two snapshots it compares, each
\* edge with its alert, whatever is written during the copy and however
\* publishers race.
THEOREM OneCutIsServed == SSSpec => []ServedIsOneCut
<1>1. SnapshotInv => ServedIsOneCut
  <2> SUFFICES ASSUME SnapshotInv, NEW i \in Ids, files[i] # None
               PROVE  /\ ~files[i].workspace
                      /\ \A x \in files[i].edges : x[1] \in files[i].alerts
                      /\ \A a \in files[i].alerts : ToldBy(a, files[i].cut)
    BY DEF ServedIsOneCut, Served, ToldBy
  <2>1. IsServable(files[i])
    BY DEF SnapshotInv, FilesAreServable
  <2> QED BY <2>1 DEF IsServable, IsCut, Files
<1> QED BY <1>1, SnapshotInvHolds, PTL

\* A step of one publisher keeps what it puts into CURRENT.json there.
LEMMA PointerStaysSound ==
  ASSUME Alone, SnapshotInv, PointerIsSound, [SSNext]_vars
  PROVE  PointerIsSound'
<1>1. CASE UNCHANGED ssVars
  BY <1>1 DEF PointerIsSound, ssVars
<1>2. ASSUME NEW p \in Publishers, Publication(p) PROVE PointerIsSound'
  <2>1. \A q \in Publishers : q = p
    BY DEF Alone
  <2>2. /\ pub \in [Publishers -> Publisher] /\ pub[p] \in Publisher
        /\ files \in [Ids -> Files \cup {None}]
        /\ pub[p].pc # "off" => pub[p].id \in Ids
        /\ pub[p].pc = "rename" => pub[p].file \in Files
    BY DEF SnapshotInv, FilesAreServable, PublisherIsSound, IsServable
  <2>3. SUFFICES
          /\ current' # None => current' \in Ids /\ files'[current'] # None
          /\ pub'[p].pc \in {"open", "write", "replace"} => files'[pub'[p].id] # None
          /\ pub'[p].pc = "write" => pub'[p].fd = "temp"
          /\ pub'[p].pc = "replace" => temp' = pub'[p].id
    BY <2>1 DEF PointerIsSound
  <2>4. /\ current # None => current \in Ids /\ files[current] # None
        /\ pub[p].pc \in {"open", "write", "replace"} => files[pub[p].id] # None
        /\ pub[p].pc = "write" => pub[p].fd = "temp"
        /\ pub[p].pc = "replace" => temp = pub[p].id
    BY DEF PointerIsSound
  <2>5. Off.pc = "off" /\ (CleanUp(p) => pub'[p] = Off)
    BY <2>2 DEF Off, CleanUp
  <2>6. CASE \E i \in Ids : Begin(p, i)
    <3>1. PICK i \in Ids : Begin(p, i)
      BY <2>6
    <3>2. pub'[p].pc = "copy" /\ UNCHANGED <<files, current>>
      BY <2>2, <3>1 DEF Begin, Off
    <3> QED BY <2>4, <3>2
  <2>7. CASE CopyWarehouse(p) \/ StripSealVerify(p)
    <3>1. pub'[p].pc \in {"off", "seal", "rename"} /\ UNCHANGED <<files, current>>
      BY <2>2, <2>5, <2>7 DEF CopyWarehouse, StripSealVerify, Publisher
    <3> QED BY <2>4, <3>1
  <2>8. CASE Rename(p)
    <3>1. /\ pub[p].pc = "rename" /\ files' = [files EXCEPT ![pub[p].id] = pub[p].file]
          /\ pub' = [pub EXCEPT ![p].pc = "open", ![p].file = None] /\ current' = current
      BY <2>8 DEF Rename, At
    <3>2. pub'[p].pc = "open" /\ pub'[p].id = pub[p].id
      BY <2>2, <3>1 DEF Publisher
    <3>3. pub[p].file # None
      BY <2>2, <3>1, FileAssumption
    <3> QED BY <2>2, <2>4, <3>1, <3>2, <3>3
  <2>9. CASE OpenTemp(p)
    <3>1. /\ pub[p].pc = "open" /\ pub' = [pub EXCEPT ![p].pc = "write", ![p].fd = "temp"]
          /\ UNCHANGED <<files, current>>
      BY <2>9 DEF OpenTemp, At
    <3>2. pub'[p].pc = "write" /\ pub'[p].fd = "temp" /\ pub'[p].id = pub[p].id
      BY <2>2, <3>1 DEF Publisher
    <3> QED BY <2>4, <3>1, <3>2
  <2>10. CASE WriteTemp(p)
    <3>1. /\ pub[p].pc = "write" /\ pub' = [pub EXCEPT ![p].pc = "replace", ![p].fd = None]
          /\ files' = files /\ current' = current /\ temp' = pub[p].id
      BY <2>4, <2>10 DEF WriteTemp, At
    <3>2. pub'[p].pc = "replace" /\ pub'[p].id = pub[p].id
      BY <2>2, <3>1 DEF Publisher
    <3> QED BY <2>4, <3>1, <3>2
  <2>11. CASE ReplaceCurrent(p)
    <3>1. pub[p].pc = "replace" /\ files' = files /\ current' \in {current, temp}
      BY <2>11 DEF ReplaceCurrent, At
    <3>2. pub'[p].pc = "off"
      BY <2>5, <2>11 DEF ReplaceCurrent
    <3> QED BY <2>2, <2>4, <3>1, <3>2
  <2>12. CASE PublisherCrash(p)
    BY <2>4, <2>5, <2>12 DEF PublisherCrash
  <2> QED BY <1>2, <2>6, <2>7, <2>8, <2>9, <2>10, <2>11, <2>12 DEF Publication
<1>3. CASE UNCHANGED vars
  BY <1>1, <1>3 DEF vars
<1> QED BY <1>1, <1>2, <1>3 DEF SSNext

\* With one publisher whatever CURRENT.json names can be opened: a writer
\* between the count and the copy, a crash between the rename and the pointer,
\* an interrupted write of the pointer never leave the terminal without a
\* snapshot to start on.
THEOREM OnePublisherKeepsCurrent ==
  ASSUME Alone
  PROVE  SSSpec => []CurrentOpens
<1>1. SSInit => PointerIsSound
  BY DEF SSInit, PointerIsSound, Off
<1>2. SnapshotInv /\ PointerIsSound /\ [SSNext]_vars => PointerIsSound'
  BY PointerStaysSound
<1>3. SnapshotInv /\ PointerIsSound => CurrentOpens
  BY DEF SnapshotInv, FilesAreServable, IsServable, Files, PointerIsSound, CurrentOpens, Valid
<1> QED BY <1>1, <1>2, <1>3, SnapshotInvHolds, PTL DEF SSSpec

===============================================================================
