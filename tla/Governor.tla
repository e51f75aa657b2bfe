------------------------------- MODULE Governor -------------------------------
(***************************************************************************)
(* The AcquisitionGovernor Durable Object (cloud-runtime/src/governor-do.ts *)
(* and governor.ts): the strongly consistent ledger every paid acquisition *)
(* passes through.  The object is single-threaded, so each RPC is one      *)
(* action; its callers may be anyone, in any order, at any time, and Next  *)
(* below lets them.  FastQueue composes it with the consumers that call it.*)
(*                                                                         *)
(* Money is counted in units of one paid page, the expected_max_cost_usd   *)
(* of every task the FAST consumer reserves (0.0009 USD), so the sum of    *)
(* the reserved amounts is the number of reservations.  Time is a tick     *)
(* counter; a day is DayTicks of them and a month MonthDays days.          *)
(*                                                                         *)
(* The object saves its whole state at the end of each RPC that changed    *)
(* it.  The one change it does not save, the expiry of stale leases on a   *)
(* refused reservation, is done again by the constructor, so the state in  *)
(* memory and the state a restart finds need not be told apart.            *)
(***************************************************************************)
EXTENDS Integers, FiniteSets, Functions

CONSTANTS
    Task,               \* task keys
    Provider,           \* acquisition providers
    Event,              \* observation keys: event x marketplace x rail
    DailyBudget,        \* authorized_daily_budget_usd, in paid pages
    MonthlyBudget,      \* authorized_monthly_budget_usd, in paid pages
    MaxConcurrent,      \* max_concurrent_containers
    LeaseTicks,         \* max_lease_seconds
    CooldownTicks,      \* cooldown_seconds
    FailureThreshold,   \* failures that open a circuit breaker
    PerMinute, PerDay,  \* requests_per_minute, requests_per_day
    KeepKeys,           \* idempotency keys kept by the pruning
    DayTicks, MonthDays,
    MaxTime             \* bound of the model: the clock stops here

ASSUME BudgetAssumption == DailyBudget \in Nat /\ MonthlyBudget \in Nat
ASSUME LimitAssumption ==
    /\ MaxConcurrent \in Nat /\ FailureThreshold \in Nat \ {0}
    /\ PerMinute \in Nat \ {0} /\ PerDay \in Nat \ {0} /\ KeepKeys \in Nat \ {0}
ASSUME TimeAssumption ==
    /\ LeaseTicks \in Nat /\ CooldownTicks \in Nat /\ MaxTime \in Nat
    /\ DayTicks \in Nat \ {0} /\ MonthDays \in Nat \ {0}

VARIABLES
    now,                \* the wall clock
    daily_spend, monthly_spend, reserved_spend,
    current_day, current_month,
    reservations,       \* tasks with a reservation (each of one unit)
    active_leases,      \* leased task -> expires_at
    recent_task_keys,   \* completed task -> time of its commit
    observation_state,  \* per key: has it succeeded, consecutive failures
    circuit_breakers,   \* per provider: open or closed, failures counted
    provider_cooldowns, \* provider -> end of its cooldown, 0 for none
    rate_counts,        \* provider -> requests counted this minute, this day
    overdraft           \* history: spend of this day and of this month that was
                        \* committed for a task without a reservation

spendVars   == <<daily_spend, monthly_spend, reserved_spend>>
periodVars  == <<current_day, current_month>>
leaseVars   == <<reservations, active_leases>>
healthVars  == <<circuit_breakers, provider_cooldowns, rate_counts>>
ledgerVars  == <<spendVars, periodVars, leaseVars, recent_task_keys>>
govVars     == <<ledgerVars, observation_state, healthVars, overdraft>>
vars        == <<now, govVars>>

Day(t)   == t \div DayTicks
Month(t) == Day(t) \div MonthDays
MonusUnclamped(a, b) == a - b    \* mutant: no Math.max(0, ...)

Monus(a, b) == IF a >= b THEN a - b ELSE 0

-----------------------------------------------------------------------------
EmptyMap      == [k \in {} |-> 0]
NoObservation == [seen |-> FALSE, failures |-> 0]
ClosedBreaker == [open |-> FALSE, failures |-> 0]
NoRequests    == [minute |-> 0, day |-> 0]

(* createInitialGovernorState *)
Init ==
    /\ now = 0
    /\ daily_spend = 0 /\ monthly_spend = 0 /\ reserved_spend = 0
    /\ current_day = Day(0) /\ current_month = Month(0)
    /\ reservations = {} /\ active_leases = EmptyMap
    /\ recent_task_keys = EmptyMap
    /\ observation_state = [e \in Event |-> NoObservation]
    /\ circuit_breakers = [p \in Provider |-> ClosedBreaker]
    /\ provider_cooldowns = [p \in Provider |-> 0]
    /\ rate_counts = [p \in Provider |-> NoRequests]
    /\ overdraft = [day |-> 0, month |-> 0]

-----------------------------------------------------------------------------
(* expireStaleLeases: what is left once the leases past their expiry, and  *)
(* the reservations they back, are gone                                    *)
Stale            == {t \in DOMAIN active_leases : active_leases[t] < now}
LiveLeases       == Restrict(active_leases, DOMAIN active_leases \ Stale)

LiveReservations == reservations \ Stale
UnreserveStale   == Monus(reserved_spend, Cardinality(reservations \cap Stale))

totalReserved == Cardinality(LiveReservations)

OverDayByOne == daily_spend + totalReserved > DailyBudget    \* mutant: without the next cost
OneMoreLease == Cardinality(DOMAIN LiveLeases) > MaxConcurrent    \* mutant: off by one

OverDay   == daily_spend + totalReserved + 1 > DailyBudget
OverMonth == monthly_spend + totalReserved + 1 > MonthlyBudget
NoLeaseLeft == Cardinality(DOMAIN LiveLeases) >= MaxConcurrent

(* The reason reserveTask gives, in the order of its tests.  The first     *)
(* three come before the expiry of the stale leases.                       *)
KnownTask(t) == t \in DOMAIN recent_task_keys \cup reservations \cup DOMAIN active_leases

ReserveReason(t, p) ==
    IF t \in DOMAIN recent_task_keys THEN "DUPLICATE_TASK"
    ELSE IF t \in reservations THEN "ALREADY_RESERVED"
    ELSE IF t \in DOMAIN active_leases THEN "TASK_LEASED"
    ELSE IF OverDay THEN "DAILY_BUDGET_EXCEEDED"
    ELSE IF OverMonth THEN "MONTHLY_BUDGET_EXCEEDED"
    ELSE IF circuit_breakers[p].open THEN "CIRCUIT_BREAKER_OPEN"
    ELSE IF provider_cooldowns[p] > now THEN "PROVIDER_COOLDOWN"
    ELSE IF rate_counts[p].minute >= PerMinute THEN "RATE_LIMIT_MINUTE"
    ELSE IF rate_counts[p].day >= PerDay THEN "RATE_LIMIT_DAY"
    ELSE IF NoLeaseLeft THEN "MAX_CONCURRENT_REACHED"
    ELSE "ALLOWED"

(* the leases once t holds one *)
Leased(t) == [k \in DOMAIN LiveLeases \cup {t} |->
                 IF k = t THEN now + LeaseTicks ELSE LiveLeases[k]]

ReserveTask(t, p) ==
    /\ \/ /\ KnownTask(t)
          /\ UNCHANGED <<leaseVars, reserved_spend>>
       \/ /\ ~KnownTask(t) /\ ReserveReason(t, p) # "ALLOWED"
          /\ reservations' = LiveReservations
          /\ active_leases' = LiveLeases
          /\ reserved_spend' = UnreserveStale
       \/ /\ ReserveReason(t, p) = "ALLOWED"
          /\ reservations' = LiveReservations \cup {t}
          /\ active_leases' = Leased(t)
          /\ reserved_spend' = UnreserveStale
    /\ UNCHANGED <<now, daily_spend, monthly_spend, periodVars, recent_task_keys,
                   observation_state, healthVars, overdraft>>

(* mutant: the reservation stays *)
DropLease(t) ==
    /\ active_leases' = Restrict(active_leases, DOMAIN active_leases \ {t})
    /\ UNCHANGED <<reservations, reserved_spend>>

(* deleting the reservation and the lease of t, whoever holds them *)
DropHold(t) ==
    /\ reservations' = reservations \ {t}
    /\ active_leases' = Restrict(active_leases, DOMAIN active_leases \ {t})
    /\ reserved_spend' = IF t \in reservations THEN Monus(reserved_spend, 1) ELSE reserved_spend

(* recent_task_keys with t completed now, pruned to the KeepKeys newest *)
Completed(t) == [k \in DOMAIN recent_task_keys \cup {t} |->
                    IF k = t THEN now ELSE recent_task_keys[k]]

RememberNothing(t) == UNCHANGED recent_task_keys    \* mutant: no idempotency key

RememberKey(t) ==
    \/ /\ Cardinality(DOMAIN Completed(t)) <= KeepKeys
       /\ recent_task_keys' = Completed(t)
    \/ /\ Cardinality(DOMAIN Completed(t)) > KeepKeys
       /\ \E old \in DOMAIN recent_task_keys :
            /\ \A k \in DOMAIN recent_task_keys : recent_task_keys[old] <= recent_task_keys[k]
            /\ recent_task_keys' = Restrict(Completed(t), DOMAIN Completed(t) \ {old})

CommitTask(t, actual_cost) ==
    /\ DropHold(t)
    /\ daily_spend' = daily_spend + actual_cost
    /\ monthly_spend' = monthly_spend + actual_cost
    /\ RememberKey(t)
    /\ overdraft' = IF t \in reservations THEN overdraft
                    ELSE [day |-> overdraft.day + actual_cost,
                          month |-> overdraft.month + actual_cost]
    /\ UNCHANGED <<now, periodVars, observation_state, healthVars>>

ReleaseTask(t) ==
    /\ DropHold(t)
    /\ UNCHANGED <<now, daily_spend, monthly_spend, periodVars, recent_task_keys,
                   observation_state, healthVars, overdraft>>

-----------------------------------------------------------------------------
RecordObservation(e, success) ==
    LET before == observation_state[e] IN
    /\ observation_state' = [observation_state EXCEPT ![e] =
          IF success THEN [seen |-> TRUE, failures |-> 0]
                     ELSE [seen |-> before.seen, failures |-> before.failures + 1]]
    /\ UNCHANGED <<now, ledgerVars, healthVars, overdraft>>

RecordFailure(p) ==
    LET failures == circuit_breakers[p].failures + 1 IN
    /\ circuit_breakers' = [circuit_breakers EXCEPT ![p] =
          [open |-> @.open \/ failures >= FailureThreshold, failures |-> failures]]
    /\ provider_cooldowns' = [provider_cooldowns EXCEPT ![p] =
          IF failures >= FailureThreshold THEN now + CooldownTicks ELSE @]
    /\ UNCHANGED <<now, ledgerVars, observation_state, rate_counts, overdraft>>

RecordSuccess(p) ==
    /\ circuit_breakers' = [circuit_breakers EXCEPT ![p] = ClosedBreaker]
    /\ UNCHANGED <<now, ledgerVars, observation_state, provider_cooldowns, rate_counts, overdraft>>

RecordRateLimit(p) ==
    /\ rate_counts' = [rate_counts EXCEPT ![p] = [minute |-> @.minute + 1, day |-> @.day + 1]]
    /\ UNCHANGED <<now, ledgerVars, observation_state, circuit_breakers, provider_cooldowns, overdraft>>

(* POST /reset-governor *)
ResetState ==
    /\ daily_spend' = 0 /\ monthly_spend' = 0 /\ reserved_spend' = 0
    /\ current_day' = Day(now) /\ current_month' = Month(now)
    /\ reservations' = {} /\ active_leases' = EmptyMap /\ recent_task_keys' = EmptyMap
    /\ observation_state' = [e \in Event |-> NoObservation]
    /\ circuit_breakers' = [p \in Provider |-> ClosedBreaker]
    /\ provider_cooldowns' = [p \in Provider |-> 0]
    /\ rate_counts' = [p \in Provider |-> NoRequests]
    /\ overdraft' = [day |-> 0, month |-> 0]
    /\ UNCHANGED now

(* what the constructor takes from the stored state as it is *)
Stored == UNCHANGED <<observation_state, circuit_breakers, provider_cooldowns, recent_task_keys>>

(* The constructor, on the stored state: the only place where a new day or *)
(* month is noticed.  A new day forgets the reservations, not the leases.  *)
Restart ==
    LET newDay == current_day # Day(now)
        newMonth == current_month # Month(now) IN
    /\ daily_spend' = IF newDay THEN 0 ELSE daily_spend
    /\ reserved_spend' = IF newDay THEN 0 ELSE UnreserveStale
    /\ monthly_spend' = IF newMonth THEN 0 ELSE monthly_spend
    /\ current_day' = Day(now) /\ current_month' = Month(now)
    /\ reservations' = IF newDay THEN {} ELSE LiveReservations
    /\ active_leases' = LiveLeases
    /\ rate_counts' = [p \in Provider |->
                         IF newDay THEN [rate_counts[p] EXCEPT !.day = 0] ELSE rate_counts[p]]
    /\ overdraft' = [day   |-> IF newDay THEN 0 ELSE overdraft.day,
                     month |-> IF newMonth THEN 0 ELSE overdraft.month]
    /\ Stored /\ UNCHANGED now

Tick ==
    /\ now < MaxTime
    /\ now' = now + 1
    /\ UNCHANGED govVars

-----------------------------------------------------------------------------
Call ==
    \/ \E t \in Task, p \in Provider : ReserveTask(t, p)
    \/ \E t \in Task, cost \in {0, 1} : CommitTask(t, cost)
    \/ \E t \in Task : ReleaseTask(t)
    \/ \E e \in Event, success \in BOOLEAN : RecordObservation(e, success)
    \/ \E p \in Provider : RecordFailure(p)
    \/ \E p \in Provider : RecordSuccess(p)
    \/ \E p \in Provider : RecordRateLimit(p)

Next == Call \/ ResetState \/ Restart \/ Tick

Spec == Init /\ [][Next]_vars

-----------------------------------------------------------------------------
(* Type correctness of the governor's state. *)
TypeOK ==
    /\ now \in Nat
    /\ daily_spend \in Nat /\ monthly_spend \in Nat /\ reserved_spend \in Nat
    /\ current_day \in Nat /\ current_month \in Nat
    /\ reservations \subseteq Task
    /\ DOMAIN active_leases \subseteq Task
    /\ active_leases \in [DOMAIN active_leases -> Nat]
    /\ DOMAIN recent_task_keys \subseteq Task
    /\ recent_task_keys \in [DOMAIN recent_task_keys -> Nat]
    /\ observation_state \in [Event -> [seen : BOOLEAN, failures : Nat]]
    /\ circuit_breakers \in [Provider -> [open : BOOLEAN, failures : Nat]]
    /\ provider_cooldowns \in [Provider -> Nat]
    /\ rate_counts \in [Provider -> [minute : Nat, day : Nat]]
    /\ overdraft \in [day : Nat, month : Nat]

(* Every reservation is backed by the lease of the same task, so that when *)
(* expireStaleLeases (which walks the leases only) drops the leases of     *)
(* workers that died, no reserved budget is left behind for ever.          *)
ReservationsAreLeased == reservations \subseteq DOMAIN active_leases

(* The leases never exceed max_concurrent_containers, whatever sequence of *)
(* reservations, late commits, releases, restarts and resets led here.     *)
LeasesWithinLimit == Cardinality(DOMAIN active_leases) <= MaxConcurrent

(* A task that the idempotency table remembers as completed holds neither  *)
(* a reservation nor a lease: a commit by a worker that lost its lease     *)
(* also frees what a second worker reserved for the same task.             *)
CompletedHoldNothing ==
    DOMAIN recent_task_keys \cap (reservations \cup DOMAIN active_leases) = {}

(* The hard invariant of the header, in the form the code keeps: recorded  *)
(* spend and reservations together exceed the day's budget by no more than *)
(* was committed for tasks whose reservation was gone by then.             *)
DailyLedger == daily_spend + Cardinality(reservations) <= DailyBudget + overdraft.day

(* The same for the month, whose spend outlives the days the reservations  *)
(* are cleared on.                                                         *)
MonthlyLedger == monthly_spend + Cardinality(reservations) <= MonthlyBudget + overdraft.month

(* A circuit breaker that opened stays open for every caller until a       *)
(* success is reported for the provider or the state is reset: restarts,   *)
(* days and the end of the cooldown do not close it.                       *)
BreakerStaysOpen ==
    [][\A p \in Provider :
          circuit_breakers[p].open /\ ~circuit_breakers'[p].open
          => RecordSuccess(p) \/ ResetState]_vars

(* The budget ledgers the Governor implements. *)
DayLedger == INSTANCE BudgetLedger WITH
    Budget <- DailyBudget, spent <- daily_spend,
    held <- Cardinality(reservations), overdrawn <- overdraft.day

MonthLedger == INSTANCE BudgetLedger WITH
    Budget <- MonthlyBudget, spent <- monthly_spend,
    held <- Cardinality(reservations), overdrawn <- overdraft.month

(* No call, restart or reset changes spend and reservations except by      *)
(* granting a hold that fits the day's budget, dropping holds, spending a  *)
(* hold, spending without one (and showing it), or beginning a period.     *)
DayLedgerSpec == DayLedger!LedgerSpec

(* The same for the month: a day that turns only drops holds. *)
MonthLedgerSpec == MonthLedger!LedgerSpec
=============================================================================
