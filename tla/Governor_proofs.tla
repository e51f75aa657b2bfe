--------------------------- MODULE Governor_proofs ---------------------------
(***************************************************************************)
(* Theorems of the Governor, for every set of tasks, every budget and      *)
(* every sequence of calls.  All of them follow from one inductive         *)
(* invariant: the ledgers balance because every reservation counts in the  *)
(* budget test, which needs the reservations to be finite, hence to be     *)
(* backed by leases, of which there are never more than MaxConcurrent.     *)
(***************************************************************************)
EXTENDS Governor, FiniteSetTheorems, TLAPS

PeriodsAgree == current_month = current_day \div MonthDays

GovInv ==
    /\ TypeOK
    /\ IsFiniteSet(DOMAIN active_leases)
    /\ ReservationsAreLeased
    /\ LeasesWithinLimit
    /\ CompletedHoldNothing
    /\ DailyLedger
    /\ MonthlyLedger
    /\ PeriodsAgree

(* A subset of a finite set is finite, and no larger. *)
LEMMA SubsetFacts ==
    ASSUME NEW S, NEW T, IsFiniteSet(S), T \subseteq S
    PROVE  /\ IsFiniteSet(T)
           /\ Cardinality(T) \in Nat /\ Cardinality(S) \in Nat
           /\ Cardinality(T) <= Cardinality(S)
BY FS_Subset, FS_CardinalityType

(* The reservations are finite, and dropping some leaves no more of them. *)
LEMMA ReservationFacts ==
    ASSUME IsFiniteSet(DOMAIN active_leases), ReservationsAreLeased
    PROVE  /\ IsFiniteSet(reservations)
           /\ Cardinality(reservations) \in Nat
           /\ Cardinality(DOMAIN active_leases) \in Nat
           /\ IsFiniteSet(LiveReservations)
           /\ Cardinality(LiveReservations) \in Nat
           /\ Cardinality(LiveReservations) <= Cardinality(reservations)
<1>1. reservations \subseteq DOMAIN active_leases
  BY DEF ReservationsAreLeased
<1>2. LiveReservations \subseteq reservations
  BY DEF LiveReservations
<1> QED BY <1>1, <1>2, SubsetFacts

(* Days and months of the clock are naturals. *)
LEMMA PeriodType ==
    ASSUME NEW t \in Nat
    PROVE  Day(t) \in Nat /\ Month(t) \in Nat /\ Month(t) = Day(t) \div MonthDays
BY TimeAssumption DEF Day, Month

(* The initial state satisfies it. *)
LEMMA InitInv == Init => GovInv
<1> SUFFICES ASSUME Init PROVE GovInv
  OBVIOUS
<1>1. TypeOK
  BY PeriodType DEF Init, TypeOK, EmptyMap, NoObservation, ClosedBreaker, NoRequests
<1>2. DOMAIN active_leases = {} /\ reservations = {} /\ DOMAIN recent_task_keys = {}
  BY DEF Init, EmptyMap
<1>3. Cardinality({}) = 0 /\ IsFiniteSet({})
  BY FS_EmptySet
<1>4. PeriodsAgree
  BY PeriodType DEF Init, PeriodsAgree
<1>5. DailyLedger /\ MonthlyLedger /\ LeasesWithinLimit
  BY <1>2, <1>3, BudgetAssumption, LimitAssumption
     DEF Init, DailyLedger, MonthlyLedger, LeasesWithinLimit
<1> QED
  BY <1>1, <1>2, <1>3, <1>4, <1>5 DEF GovInv, ReservationsAreLeased, CompletedHoldNothing

-----------------------------------------------------------------------------
(* What Restrict does to a lease table: it keeps the type of what it keeps. *)
LEMMA RestrictFacts ==
    ASSUME NEW f, NEW S \in SUBSET DOMAIN f, f \in [DOMAIN f -> Nat]
    PROVE  Restrict(f, S) \in [S -> Nat] /\ DOMAIN Restrict(f, S) = S
BY DEF Restrict

(* The part of the invariant that reads neither the clock nor the counters *)
(* of the providers is untouched by the calls that record health.          *)
LEMMA LedgerUnchanged ==
    ASSUME GovInv, UNCHANGED <<ledgerVars, overdraft>>, TypeOK'
    PROVE  GovInv'
BY DEF GovInv, ledgerVars, spendVars, periodVars, leaseVars, ReservationsAreLeased,
       LeasesWithinLimit, CompletedHoldNothing, DailyLedger, MonthlyLedger, PeriodsAgree

(* The clock may move at any moment without disturbing the invariant:      *)
(* nothing in it compares a lease with the time.                           *)
LEMMA TickInv == ASSUME GovInv, Tick PROVE GovInv'
<1>1. TypeOK'
  BY DEF GovInv, TypeOK, Tick, govVars, ledgerVars, spendVars, periodVars, leaseVars, healthVars
<1> QED BY <1>1, LedgerUnchanged DEF Tick, govVars

(* The calls that record observations, failures, successes and requests    *)
(* touch no ledger.                                                        *)
LEMMA RecordInv ==
    ASSUME GovInv,
           \/ \E e \in Event, success \in BOOLEAN : RecordObservation(e, success)
           \/ \E p \in Provider : RecordFailure(p) \/ RecordSuccess(p) \/ RecordRateLimit(p)
    PROVE  GovInv'
<1> USE DEF GovInv, TypeOK, ledgerVars, spendVars, periodVars, leaseVars, healthVars
<1>1. CASE \E e \in Event, success \in BOOLEAN : RecordObservation(e, success)
  <2>1. TypeOK' BY <1>1 DEF RecordObservation
  <2> QED BY <1>1, <2>1, LedgerUnchanged DEF RecordObservation
<1>2. CASE \E p \in Provider : RecordFailure(p)
  <2>1. PICK p \in Provider : RecordFailure(p) BY <1>2
  <2>2. circuit_breakers' \in [Provider -> [open : BOOLEAN, failures : Nat]]
    BY <2>1 DEF RecordFailure
  <2>3. provider_cooldowns' \in [Provider -> Nat]
    BY <2>1, TimeAssumption DEF RecordFailure
  <2>4. TypeOK' BY <2>1, <2>2, <2>3 DEF RecordFailure
  <2> QED BY <2>1, <2>4, LedgerUnchanged DEF RecordFailure
<1>3. CASE \E p \in Provider : RecordSuccess(p)
  <2>1. TypeOK' BY <1>3 DEF RecordSuccess, ClosedBreaker
  <2> QED BY <1>3, <2>1, LedgerUnchanged DEF RecordSuccess
<1>4. CASE \E p \in Provider : RecordRateLimit(p)
  <2>1. TypeOK' BY <1>4 DEF RecordRateLimit
  <2> QED BY <1>4, <2>1, LedgerUnchanged DEF RecordRateLimit
<1> QED BY <1>1, <1>2, <1>3, <1>4

(* The reset returns the ledgers to an empty period.                       *)
LEMMA ResetInv == ASSUME GovInv, ResetState PROVE GovInv'
<1>1. TypeOK'
  BY PeriodType DEF GovInv, TypeOK, ResetState, EmptyMap, NoObservation, ClosedBreaker, NoRequests
<1>2. (DOMAIN active_leases)' = {} /\ reservations' = {} /\ (DOMAIN recent_task_keys)' = {}
  BY DEF ResetState, EmptyMap
<1>3. Cardinality({}) = 0 /\ IsFiniteSet({})
  BY FS_EmptySet
<1>4. PeriodsAgree'
  BY PeriodType DEF ResetState, PeriodsAgree, GovInv, TypeOK
<1>5. DailyLedger' /\ MonthlyLedger' /\ LeasesWithinLimit'
  BY <1>2, <1>3, BudgetAssumption, LimitAssumption
     DEF ResetState, DailyLedger, MonthlyLedger, LeasesWithinLimit
<1> QED
  BY <1>1, <1>2, <1>3, <1>4, <1>5 DEF GovInv, ReservationsAreLeased, CompletedHoldNothing

-----------------------------------------------------------------------------
(* Expiring the stale leases keeps the shape of the lease table. *)
LEMMA LiveFacts ==
    ASSUME GovInv
    PROVE  /\ DOMAIN LiveLeases = DOMAIN active_leases \ Stale
           /\ LiveLeases \in [DOMAIN LiveLeases -> Nat]
           /\ DOMAIN LiveLeases \subseteq DOMAIN active_leases
           /\ LiveReservations \subseteq DOMAIN LiveLeases
           /\ IsFiniteSet(DOMAIN LiveLeases)
           /\ Cardinality(DOMAIN LiveLeases) \in Nat
           /\ Cardinality(DOMAIN LiveLeases) <= MaxConcurrent
           /\ LiveReservations \subseteq reservations
<1>1. LiveLeases \in [DOMAIN active_leases \ Stale -> Nat]
      /\ DOMAIN LiveLeases = DOMAIN active_leases \ Stale
  BY RestrictFacts DEF GovInv, TypeOK, LiveLeases
<1>2. IsFiniteSet(DOMAIN LiveLeases) /\ Cardinality(DOMAIN LiveLeases) \in Nat
      /\ Cardinality(DOMAIN LiveLeases) <= Cardinality(DOMAIN active_leases)
      /\ Cardinality(DOMAIN active_leases) \in Nat
  BY <1>1, SubsetFacts DEF GovInv
<1>3. Cardinality(DOMAIN LiveLeases) <= MaxConcurrent
  BY <1>2, LimitAssumption DEF GovInv, LeasesWithinLimit
<1> QED BY <1>1, <1>2, <1>3 DEF GovInv, ReservationsAreLeased, LiveReservations

(* The subtraction of reserved_spend is clamped at zero.                   *)
LEMMA MonusType == ASSUME NEW a \in Nat, NEW b \in Nat PROVE Monus(a, b) \in Nat
BY DEF Monus

(* What expireStaleLeases leaves of reserved_spend is a natural number.    *)
LEMMA UnreserveType == ASSUME GovInv PROVE UnreserveStale \in Nat
<1>1. reservations \cap Stale \subseteq DOMAIN active_leases
  BY DEF Stale
<1>2. Cardinality(reservations \cap Stale) \in Nat
  BY <1>1, SubsetFacts DEF GovInv
<1> QED BY <1>2, MonusType DEF UnreserveStale, GovInv, TypeOK

(* Every refused reservation only drops what has expired; a granted one    *)
(* fits in both budgets and in the limit on leases.                        *)
LEMMA ReserveInv ==
    ASSUME GovInv, NEW t \in Task, NEW p \in Provider, ReserveTask(t, p)
    PROVE  GovInv'
<1> USE DEF GovInv
<1>0. UNCHANGED <<now, daily_spend, monthly_spend, periodVars, recent_task_keys,
                  observation_state, healthVars, overdraft>>
  BY DEF ReserveTask
<1>1. PeriodsAgree'
  BY <1>0 DEF PeriodsAgree, periodVars
<1>2. CASE UNCHANGED <<leaseVars, reserved_spend>>
  BY <1>0, <1>2, LedgerUnchanged DEF ledgerVars, spendVars, periodVars, leaseVars, healthVars, TypeOK
<1>3. CASE /\ reservations' = LiveReservations
           /\ active_leases' = LiveLeases
           /\ reserved_spend' = UnreserveStale
  <2>1. TypeOK'
    BY <1>0, <1>3, LiveFacts, UnreserveType DEF TypeOK, periodVars, healthVars
  <2>2. CompletedHoldNothing'
    BY <1>0, <1>3, LiveFacts DEF CompletedHoldNothing
  <2>3. DailyLedger' /\ MonthlyLedger'
    BY <1>0, <1>3, ReservationFacts, BudgetAssumption DEF DailyLedger, MonthlyLedger, TypeOK
  <2> QED BY <1>1, <1>3, <2>1, <2>2, <2>3, LiveFacts DEF ReservationsAreLeased, LeasesWithinLimit
<1>4. CASE /\ ReserveReason(t, p) = "ALLOWED"
           /\ reservations' = LiveReservations \cup {t}
           /\ active_leases' = Leased(t)
           /\ reserved_spend' = UnreserveStale
  <2>1. /\ t \notin DOMAIN recent_task_keys
        /\ t \notin reservations
        /\ t \notin DOMAIN active_leases
        /\ ~(daily_spend + totalReserved + 1 > DailyBudget)
        /\ ~(monthly_spend + totalReserved + 1 > MonthlyBudget)
        /\ ~(Cardinality(DOMAIN LiveLeases) >= MaxConcurrent)
    BY <1>4 DEF ReserveReason, OverDay, OverMonth, NoLeaseLeft
  <2>2. DOMAIN active_leases' = DOMAIN LiveLeases \cup {t}
        /\ active_leases' \in [DOMAIN LiveLeases \cup {t} -> Nat]
    BY <1>4, LiveFacts, TimeAssumption DEF Leased, TypeOK
  <2>3. TypeOK'
    BY <1>0, <1>4, <2>2, LiveFacts, UnreserveType DEF TypeOK, periodVars, healthVars
  <2>4. IsFiniteSet(DOMAIN active_leases') /\ LeasesWithinLimit'
    <3>1. Cardinality(DOMAIN LiveLeases \cup {t}) <= Cardinality(DOMAIN LiveLeases) + 1
          /\ IsFiniteSet(DOMAIN LiveLeases \cup {t})
      BY LiveFacts, FS_AddElement
    <3>2. Cardinality(DOMAIN LiveLeases \cup {t}) \in Nat
      BY <3>1, FS_CardinalityType
    <3> QED BY <2>1, <2>2, <3>1, <3>2, LiveFacts, LimitAssumption DEF LeasesWithinLimit
  <2>5. DailyLedger' /\ MonthlyLedger'
    <3>1. Cardinality(reservations') = totalReserved + 1 /\ totalReserved \in Nat
      <4>1. t \notin LiveReservations
        BY <2>1, LiveFacts
      <4> QED BY <1>4, <4>1, ReservationFacts, FS_AddElement DEF totalReserved
    <3> QED BY <1>0, <2>1, <3>1, BudgetAssumption DEF DailyLedger, MonthlyLedger, TypeOK
  <2>6. CompletedHoldNothing'
    BY <1>0, <1>4, <2>1, <2>2, LiveFacts DEF CompletedHoldNothing
  <2>7. ReservationsAreLeased'
    BY <1>4, <2>2, LiveFacts DEF ReservationsAreLeased
  <2> QED BY <1>1, <2>3, <2>4, <2>5, <2>6, <2>7
<1> QED BY <1>2, <1>3, <1>4 DEF ReserveTask

(* Dropping the hold of one task frees its reservation and its lease, and  *)
(* changes neither limit nor type.                                         *)
LEMMA DropFacts ==
    ASSUME GovInv, NEW t \in Task, DropHold(t)
    PROVE  /\ reserved_spend' \in Nat
           /\ reservations' \subseteq Task
           /\ DOMAIN active_leases' = DOMAIN active_leases \ {t}
           /\ active_leases' \in [DOMAIN active_leases' -> Nat]
           /\ IsFiniteSet(DOMAIN active_leases')
           /\ ReservationsAreLeased' /\ LeasesWithinLimit'
           /\ Cardinality(reservations') \in Nat
           /\ Cardinality(reservations) \in Nat
           /\ t \in reservations => Cardinality(reservations') = Cardinality(reservations) - 1
           /\ t \notin reservations => reservations' = reservations
           /\ Cardinality(reservations') <= Cardinality(reservations)
<1> USE DEF GovInv
<1>1. DOMAIN active_leases' = DOMAIN active_leases \ {t}
      /\ active_leases' \in [DOMAIN active_leases' -> Nat]
  <2>1. DOMAIN active_leases \ {t} \in SUBSET DOMAIN active_leases OBVIOUS
  <2> QED BY <2>1, RestrictFacts DEF DropHold, TypeOK
<1>2. IsFiniteSet(DOMAIN active_leases') /\ LeasesWithinLimit'
  <2>1. /\ IsFiniteSet(DOMAIN active_leases')
        /\ Cardinality(DOMAIN active_leases') <= Cardinality(DOMAIN active_leases)
        /\ Cardinality(DOMAIN active_leases) \in Nat
        /\ Cardinality(DOMAIN active_leases') \in Nat
    BY <1>1, SubsetFacts
  <2> QED BY <2>1, LimitAssumption DEF LeasesWithinLimit
<1>3. reserved_spend' \in Nat
  BY MonusType DEF DropHold, TypeOK
<1>4. IsFiniteSet(reservations) /\ Cardinality(reservations) \in Nat
  BY ReservationFacts
<1>5. t \in reservations => Cardinality(reservations') = Cardinality(reservations) - 1
  BY <1>4, FS_RemoveElement DEF DropHold
<1>6. IsFiniteSet(reservations') /\ Cardinality(reservations') \in Nat
  BY <1>4, SubsetFacts DEF DropHold
<1>7. ReservationsAreLeased' /\ reservations' \subseteq Task
  BY <1>1 DEF DropHold, ReservationsAreLeased, TypeOK
<1>8. t \notin reservations => reservations' = reservations
  BY DEF DropHold
<1>9. Cardinality(reservations') <= Cardinality(reservations)
  BY <1>4, <1>5, <1>8
<1> QED BY <1>1, <1>2, <1>3, <1>4, <1>5, <1>6, <1>7, <1>8, <1>9

(* A release, by whoever holds or held the task, frees and never adds.     *)
LEMMA ReleaseInv == ASSUME GovInv, NEW t \in Task, ReleaseTask(t) PROVE GovInv'
<1> USE DEF GovInv
<1>1. DropHold(t) /\ UNCHANGED <<now, daily_spend, monthly_spend, periodVars,
                        recent_task_keys, observation_state, healthVars, overdraft>>
  BY DEF ReleaseTask
<1>2. TypeOK'
  BY <1>1, DropFacts DEF TypeOK, periodVars, healthVars
<1>3. DailyLedger' /\ MonthlyLedger'
  <2>1. /\ Cardinality(reservations') \in Nat /\ Cardinality(reservations) \in Nat
        /\ Cardinality(reservations') <= Cardinality(reservations)
    BY <1>1, DropFacts
  <2>2. overdraft.day \in Nat /\ overdraft.month \in Nat
    BY DEF TypeOK
  <2> QED BY <1>1, <2>1, <2>2, BudgetAssumption DEF DailyLedger, MonthlyLedger, TypeOK
<1>4. PeriodsAgree'
  BY <1>1 DEF PeriodsAgree, periodVars
<1>5. CompletedHoldNothing'
  BY <1>1, DropFacts DEF CompletedHoldNothing, DropHold
<1> QED BY <1>1, <1>2, <1>3, <1>4, <1>5, DropFacts

(* Remembering a commit adds that task and no other to the table of        *)
(* completed tasks, whatever the pruning drops.                            *)
LEMMA RememberFacts ==
    ASSUME TypeOK, NEW t \in Task, RememberKey(t)
    PROVE  /\ DOMAIN recent_task_keys' \subseteq DOMAIN recent_task_keys \cup {t}
           /\ recent_task_keys' \in [DOMAIN recent_task_keys' -> Nat]
<1>1. Completed(t) \in [DOMAIN recent_task_keys \cup {t} -> Nat]
      /\ DOMAIN Completed(t) = DOMAIN recent_task_keys \cup {t}
  BY DEF Completed, TypeOK
<1>2. CASE recent_task_keys' = Completed(t)
  BY <1>1, <1>2
<1>3. CASE \E old \in DOMAIN recent_task_keys :
              recent_task_keys' = Restrict(Completed(t), DOMAIN Completed(t) \ {old})
  <2>1. PICK old : recent_task_keys' = Restrict(Completed(t), DOMAIN Completed(t) \ {old})
    BY <1>3
  <2>2. DOMAIN Completed(t) \ {old} \in SUBSET DOMAIN Completed(t) OBVIOUS
  <2> QED BY <1>1, <2>1, <2>2, RestrictFacts
<1> QED BY <1>2, <1>3 DEF RememberKey

(* A commit spends its reservation, or shows up as overdraft where there   *)
(* is none any more.                                                       *)
LEMMA CommitInv ==
    ASSUME GovInv, NEW t \in Task, NEW cost \in {0, 1}, CommitTask(t, cost)
    PROVE  GovInv'
<1> USE DEF GovInv
<1>1. /\ DropHold(t) /\ RememberKey(t)
      /\ UNCHANGED <<now, periodVars, observation_state, healthVars>>
  BY DEF CommitTask
<1>2. TypeOK'
  <2>1. daily_spend' \in Nat /\ monthly_spend' \in Nat
    BY DEF CommitTask, TypeOK
  <2>2. overdraft' \in [day : Nat, month : Nat]
    BY DEF CommitTask, TypeOK
  <2>3. DOMAIN recent_task_keys' \subseteq Task
        /\ recent_task_keys' \in [DOMAIN recent_task_keys' -> Nat]
    BY <1>1, RememberFacts DEF TypeOK
  <2> QED BY <1>1, <2>1, <2>2, <2>3, DropFacts DEF TypeOK, periodVars, healthVars
<1>3. DailyLedger' /\ MonthlyLedger'
  <2>1. CASE t \in reservations
    <3>1. Cardinality(reservations') = Cardinality(reservations) - 1
          /\ Cardinality(reservations) \in Nat
      BY <1>1, <2>1, DropFacts
    <3> QED BY <2>1, <3>1, BudgetAssumption
        DEF CommitTask, DailyLedger, MonthlyLedger, TypeOK
  <2>2. CASE t \notin reservations
    <3>1. reservations' = reservations /\ Cardinality(reservations) \in Nat
      BY <1>1, <2>2, DropFacts
    <3>2. /\ overdraft'.day = overdraft.day + cost
          /\ overdraft'.month = overdraft.month + cost
      BY <2>2 DEF CommitTask
    <3>3. daily_spend' = daily_spend + cost /\ monthly_spend' = monthly_spend + cost
      BY DEF CommitTask
    <3>4. overdraft.day \in Nat /\ overdraft.month \in Nat
      BY DEF TypeOK
    <3> QED BY <3>1, <3>2, <3>3, <3>4, BudgetAssumption
        DEF DailyLedger, MonthlyLedger, TypeOK
  <2> QED BY <2>1, <2>2
<1>4. PeriodsAgree'
  BY <1>1 DEF PeriodsAgree, periodVars
<1>5. CompletedHoldNothing'
  <2>1. DOMAIN recent_task_keys' \subseteq DOMAIN recent_task_keys \cup {t}
    BY <1>1, RememberFacts
  <2>2. /\ reservations' = reservations \ {t}
        /\ DOMAIN active_leases' = DOMAIN active_leases \ {t}
    BY <1>1, DropFacts DEF DropHold
  <2> QED BY <2>1, <2>2 DEF CompletedHoldNothing
<1> QED BY <1>1, <1>2, <1>3, <1>4, <1>5, DropFacts

(* A restart of the object forgets the spend of a day only together with   *)
(* its reservations, and a month never turns without its day.              *)
LEMMA RestartInv == ASSUME GovInv, Restart PROVE GovInv'
<1> USE DEF GovInv
<1>1. Day(now) \in Nat /\ Month(now) \in Nat /\ Month(now) = Day(now) \div MonthDays
  BY PeriodType DEF TypeOK
<1>2. /\ reservations' \subseteq LiveReservations
      /\ Cardinality(reservations') \in Nat
      /\ Cardinality(reservations') <= Cardinality(reservations)
      /\ Cardinality(reservations) \in Nat
      /\ current_day # Day(now) => Cardinality(reservations') = 0
  <2>1. Cardinality({}) = 0 BY FS_EmptySet
  <2> QED BY <2>1, ReservationFacts DEF Restart, Stored
<1>3. TypeOK'
  <2>1. daily_spend' \in Nat /\ monthly_spend' \in Nat /\ reserved_spend' \in Nat
    BY UnreserveType DEF Restart, Stored, TypeOK
  <2>2. rate_counts' \in [Provider -> [minute : Nat, day : Nat]]
    BY DEF Restart, Stored, TypeOK
  <2>3. overdraft' \in [day : Nat, month : Nat]
    BY DEF Restart, Stored, TypeOK
  <2> QED BY <1>1, <1>2, <2>1, <2>2, <2>3, LiveFacts DEF Restart, Stored, TypeOK
<1>4. PeriodsAgree'
  BY <1>1 DEF Restart, Stored, PeriodsAgree
<1>5. current_month # Month(now) => current_day # Day(now)
  BY <1>1 DEF PeriodsAgree
<1>6. DailyLedger' /\ MonthlyLedger'
  <2>1. overdraft.day \in Nat /\ overdraft.month \in Nat
    BY DEF TypeOK
  <2>2. DailyLedger'
    BY <1>2, <2>1, BudgetAssumption DEF Restart, Stored, DailyLedger, TypeOK
  <2>3. MonthlyLedger'
    BY <1>2, <1>5, <2>1, BudgetAssumption DEF Restart, Stored, MonthlyLedger, TypeOK
  <2> QED BY <2>2, <2>3
<1>7. CompletedHoldNothing' /\ ReservationsAreLeased' /\ LeasesWithinLimit'
      /\ IsFiniteSet(DOMAIN active_leases')
  BY <1>2, LiveFacts DEF Restart, Stored, CompletedHoldNothing, ReservationsAreLeased, LeasesWithinLimit
<1> QED BY <1>3, <1>4, <1>6, <1>7

-----------------------------------------------------------------------------
(* The invariant is inductive. *)
LEMMA StepInv == GovInv /\ [Next]_vars => GovInv'
<1> SUFFICES ASSUME GovInv, [Next]_vars PROVE GovInv'
  OBVIOUS
<1>1. CASE Call
  BY <1>1, ReserveInv, CommitInv, ReleaseInv, RecordInv DEF Call
<1>2. CASE ResetState
  BY <1>2, ResetInv
<1>3. CASE Restart
  BY <1>3, RestartInv
<1>4. CASE Tick
  BY <1>4, TickInv
<1>5. CASE UNCHANGED vars
  <2>1. TypeOK'
    BY <1>5 DEF GovInv, TypeOK, vars, govVars, ledgerVars, spendVars, periodVars,
                leaseVars, healthVars
  <2> QED BY <1>5, <2>1, LedgerUnchanged DEF vars, govVars
<1> QED BY <1>1, <1>2, <1>3, <1>4, <1>5 DEF Next

(* The inductive invariant holds of every behaviour. *)
THEOREM GovernorInv == Spec => []GovInv
BY InitInv, StepInv, PTL DEF Spec

(* Type correctness, for every instance. *)
THEOREM TypeCorrect == Spec => []TypeOK
<1>1. GovInv => TypeOK BY DEF GovInv
<1> QED BY <1>1, GovernorInv, PTL

(* At most MaxConcurrent leases, every reservation backed by one, and none *)
(* for a completed task, whoever calls what in whatever order.             *)
THEOREM LeasesCorrect == Spec => [](ReservationsAreLeased /\ LeasesWithinLimit /\ CompletedHoldNothing)
<1>1. GovInv => ReservationsAreLeased /\ LeasesWithinLimit /\ CompletedHoldNothing
  BY DEF GovInv
<1> QED BY <1>1, GovernorInv, PTL

(* Recorded spend and reservations exceed a budget by no more than what    *)
(* was committed without a reservation, in every day and every month.      *)
THEOREM LedgersBalance == Spec => [](DailyLedger /\ MonthlyLedger)
<1>1. GovInv => DailyLedger /\ MonthlyLedger
  BY DEF GovInv
<1> QED BY <1>1, GovernorInv, PTL

(* A breaker that is open is closed by a reported success or a reset only. *)
THEOREM BreakersStayOpen == Spec => BreakerStaysOpen
<1>1. ASSUME GovInv, [Next]_vars
      PROVE  \A p \in Provider :
                circuit_breakers[p].open /\ ~circuit_breakers'[p].open
                => RecordSuccess(p) \/ ResetState
  <2> SUFFICES ASSUME NEW p \in Provider, circuit_breakers[p].open,
                      ~circuit_breakers'[p].open, ~ResetState
               PROVE  RecordSuccess(p)
    OBVIOUS
  <2>1. circuit_breakers' # circuit_breakers
    OBVIOUS
  <2>2. PICK q \in Provider : RecordFailure(q) \/ RecordSuccess(q)
    BY <1>1, <2>1 DEF Next, Call, ReserveTask, CommitTask, ReleaseTask, RecordObservation,
       RecordRateLimit, Restart, Stored, Tick, vars, govVars, healthVars
  <2>0. /\ p \in DOMAIN circuit_breakers /\ q \in DOMAIN circuit_breakers
        /\ circuit_breakers[q] \in [open : BOOLEAN, failures : Nat]
    BY <1>1 DEF GovInv, TypeOK
  <2>3. ~RecordFailure(q)
    <3>1. SUFFICES ASSUME RecordFailure(q) PROVE FALSE
      OBVIOUS
    <3>2. CASE p = q
      <4>1. circuit_breakers'[p].open =
              (circuit_breakers[p].open \/ circuit_breakers[p].failures + 1 >= FailureThreshold)
        BY <2>0, <3>1, <3>2 DEF RecordFailure
      <4> QED BY <4>1
    <3>3. CASE p # q
      <4>1. circuit_breakers'[p] = circuit_breakers[p]
        BY <2>0, <3>1, <3>3 DEF RecordFailure
      <4> QED BY <4>1
    <3> QED BY <3>2, <3>3
  <2>4. q = p
    <3>1. ASSUME q # p PROVE circuit_breakers'[p] = circuit_breakers[p]
      BY <2>0, <2>2, <2>3, <3>1 DEF RecordSuccess
    <3> QED BY <3>1
  <2> QED BY <2>2, <2>3, <2>4
<1> QED BY <1>1, GovernorInv, PTL DEF Spec, BreakerStaysOpen

-----------------------------------------------------------------------------
(* The Governor implements the abstract budget ledger, twice.  Every step  *)
(* is one of five kinds as far as spend, reservations and overdraft go.    *)
held_ == Cardinality(reservations)

Drops == held_' \in 0 .. held_ /\ UNCHANGED <<daily_spend, monthly_spend, overdraft>>

Grants == \E kept \in 0 .. held_ :
    /\ held_' = kept + 1
    /\ daily_spend + kept + 1 <= DailyBudget
    /\ monthly_spend + kept + 1 <= MonthlyBudget
    /\ UNCHANGED <<daily_spend, monthly_spend, overdraft>>

Settles == \E cost \in {0, 1} :
    /\ held_ > 0 /\ held_' = held_ - 1
    /\ daily_spend' = daily_spend + cost /\ monthly_spend' = monthly_spend + cost
    /\ UNCHANGED overdraft

Overdraws == \E cost \in {0, 1} :
    /\ held_' = held_
    /\ daily_spend' = daily_spend + cost /\ monthly_spend' = monthly_spend + cost
    /\ overdraft'.day = overdraft.day + cost /\ overdraft'.month = overdraft.month + cost

Turns ==
    /\ held_' \in 0 .. held_
    /\ \/ daily_spend' = 0 /\ overdraft'.day = 0
       \/ daily_spend' = daily_spend /\ overdraft'.day = overdraft.day
    /\ \/ monthly_spend' = 0 /\ overdraft'.month = 0
       \/ monthly_spend' = monthly_spend /\ overdraft'.month = overdraft.month

(* Every step of the Governor moves spend and reservations in one of five  *)
(* ways: the facts both refinements rest on.                               *)
LEMMA StepKinds ==
    ASSUME GovInv, [Next]_vars
    PROVE  Drops \/ Grants \/ Settles \/ Overdraws \/ Turns
<1> USE DEF GovInv
<1>1. /\ IsFiniteSet(reservations) /\ held_ \in Nat
      /\ IsFiniteSet(LiveReservations) /\ totalReserved \in Nat
      /\ totalReserved <= held_
  BY ReservationFacts DEF held_, totalReserved
<1>2. ASSUME NEW t \in Task, NEW p \in Provider, ReserveTask(t, p) PROVE Drops \/ Grants
  <2>1. UNCHANGED <<daily_spend, monthly_spend, overdraft>>
    BY <1>2 DEF ReserveTask
  <2>2. CASE reservations' = reservations
    BY <1>1, <2>1, <2>2 DEF Drops, held_
  <2>3. CASE reservations' = LiveReservations
    BY <1>1, <2>1, <2>3 DEF Drops, held_, totalReserved
  <2>4. CASE ReserveReason(t, p) = "ALLOWED" /\ reservations' = LiveReservations \cup {t}
    <3>1. t \notin LiveReservations
          /\ daily_spend + totalReserved + 1 <= DailyBudget
          /\ monthly_spend + totalReserved + 1 <= MonthlyBudget
      BY <1>1, <2>4, BudgetAssumption, LiveFacts DEF ReserveReason, OverDay, OverMonth, NoLeaseLeft, TypeOK
    <3>2. held_' = totalReserved + 1
      BY <1>1, <2>4, <3>1, FS_AddElement DEF held_, totalReserved
    <3> QED BY <1>1, <2>1, <3>1, <3>2 DEF Grants
  <2> QED BY <1>2, <2>2, <2>3, <2>4 DEF ReserveTask, leaseVars
<1>3. ASSUME NEW t \in Task, NEW cost \in {0, 1}, CommitTask(t, cost)
      PROVE  Settles \/ Overdraws
  <2>1. /\ DropHold(t)
        /\ daily_spend' = daily_spend + cost /\ monthly_spend' = monthly_spend + cost
    BY <1>3 DEF CommitTask
  <2>2. CASE t \in reservations
    <3>1. held_' = held_ - 1 /\ held_ \in Nat /\ held_' \in Nat
      BY <2>1, <2>2, DropFacts DEF held_
    <3> QED BY <1>3, <2>1, <2>2, <3>1 DEF CommitTask, Settles
  <2>3. CASE t \notin reservations
    <3>1. held_' = held_
      BY <2>1, <2>3, DropFacts DEF held_
    <3>2. /\ overdraft'.day = overdraft.day + cost
          /\ overdraft'.month = overdraft.month + cost
      BY <1>3, <2>3 DEF CommitTask
    <3> QED BY <2>1, <3>1, <3>2 DEF Overdraws
  <2> QED BY <2>2, <2>3
<1>4. ASSUME NEW t \in Task, ReleaseTask(t) PROVE Drops
  <2>1. DropHold(t) /\ UNCHANGED <<daily_spend, monthly_spend, overdraft>>
    BY <1>4 DEF ReleaseTask
  <2>2. held_' \in Nat /\ held_ \in Nat /\ held_' <= held_
    BY <2>1, DropFacts DEF held_
  <2> QED BY <2>1, <2>2 DEF Drops
<1>5. ASSUME UNCHANGED <<ledgerVars, overdraft>> PROVE Drops
  <2>1. UNCHANGED <<reservations, daily_spend, monthly_spend, overdraft>>
    BY <1>5 DEF ledgerVars, leaseVars, spendVars
  <2> QED BY <1>1, <2>1 DEF Drops, held_
<1>6. CASE ResetState
  <2>1. held_' = 0
    BY <1>6, FS_EmptySet DEF ResetState, held_
  <2> QED BY <1>1, <1>6, <2>1 DEF ResetState, Turns
<1>7. CASE Restart
  <2>1. held_' \in Nat /\ held_' <= held_
    BY <1>1, <1>7, FS_EmptySet DEF Restart, Stored, held_, totalReserved
  <2>2. \/ daily_spend' = 0 /\ overdraft'.day = 0
        \/ daily_spend' = daily_spend /\ overdraft'.day = overdraft.day
    BY <1>7 DEF Restart, Stored
  <2>3. \/ monthly_spend' = 0 /\ overdraft'.month = 0
        \/ monthly_spend' = monthly_spend /\ overdraft'.month = overdraft.month
    BY <1>7 DEF Restart, Stored
  <2> QED BY <1>1, <2>1, <2>2, <2>3 DEF Turns
<1>8. CASE Tick \/ UNCHANGED vars
  BY <1>5, <1>8 DEF Tick, vars, govVars
<1>9. CASE Call
  BY <1>2, <1>3, <1>4, <1>5, <1>9
     DEF Call, RecordObservation, RecordFailure, RecordSuccess, RecordRateLimit
<1> QED BY <1>6, <1>7, <1>8, <1>9 DEF Next

(* Both ledgers start empty.                                               *)
LEMMA InitLedgers == Init => DayLedger!LedgerInit /\ MonthLedger!LedgerInit
BY FS_EmptySet DEF Init, DayLedger!LedgerInit, MonthLedger!LedgerInit

(* Every step of the Governor is one of the ledger of the day, or none.    *)
LEMMA StepDayLedger ==
    GovInv /\ [Next]_vars => [DayLedger!LedgerNext]_(DayLedger!ledger)
<1> SUFFICES ASSUME GovInv, [Next]_vars
             PROVE  DayLedger!LedgerNext \/ UNCHANGED DayLedger!ledger
  OBVIOUS
<1> USE DEF DayLedger!LedgerNext, DayLedger!ledger, held_
<1>1. held_ \in Nat
  BY ReservationFacts DEF GovInv
<1>2. CASE Drops BY <1>2 DEF Drops, DayLedger!Drop
<1>3. CASE Grants BY <1>3 DEF Grants, DayLedger!Hold
<1>4. CASE Settles BY <1>4 DEF Settles, DayLedger!Settle
<1>5. CASE Overdraws BY <1>5 DEF Overdraws, DayLedger!Overdraw
<1>6. CASE Turns BY <1>1, <1>6 DEF Turns, DayLedger!NewPeriod, DayLedger!Drop
<1> QED BY <1>2, <1>3, <1>4, <1>5, <1>6, StepKinds

(* Every step of the Governor is one of the ledger of the month, or none.  *)
LEMMA StepMonthLedger ==
    GovInv /\ [Next]_vars => [MonthLedger!LedgerNext]_(MonthLedger!ledger)
<1> SUFFICES ASSUME GovInv, [Next]_vars
             PROVE  MonthLedger!LedgerNext \/ UNCHANGED MonthLedger!ledger
  OBVIOUS
<1> USE DEF MonthLedger!LedgerNext, MonthLedger!ledger, held_
<1>1. held_ \in Nat
  BY ReservationFacts DEF GovInv
<1>2. CASE Drops BY <1>2 DEF Drops, MonthLedger!Drop
<1>3. CASE Grants BY <1>3 DEF Grants, MonthLedger!Hold
<1>4. CASE Settles BY <1>4 DEF Settles, MonthLedger!Settle
<1>5. CASE Overdraws BY <1>5 DEF Overdraws, MonthLedger!Overdraw
<1>6. CASE Turns BY <1>1, <1>6 DEF Turns, MonthLedger!NewPeriod, MonthLedger!Drop
<1> QED BY <1>2, <1>3, <1>4, <1>5, <1>6, StepKinds

(* The Governor implements the ledger of the day. *)
THEOREM ImplementsDayLedger == Spec => DayLedgerSpec
BY InitLedgers, StepDayLedger, GovernorInv, PTL DEF Spec, DayLedgerSpec, DayLedger!LedgerSpec

(* The Governor implements the ledger of the month. *)
THEOREM ImplementsMonthLedger == Spec => MonthLedgerSpec
BY InitLedgers, StepMonthLedger, GovernorInv, PTL
   DEF Spec, MonthLedgerSpec, MonthLedger!LedgerSpec
=============================================================================
