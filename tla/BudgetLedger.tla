---------------------------- MODULE BudgetLedger ----------------------------
(***************************************************************************)
(* What the Governor promises about one budget, with no task in sight:     *)
(* money is held before it is spent, a hold is granted only if it fits     *)
(* beside everything spent and held, spending uses up a hold or shows up   *)
(* as overdraft, and the spend is forgotten only when a period begins.     *)
(* Governor implements it for the day and for the month.                   *)
(***************************************************************************)
EXTENDS Integers

CONSTANT Budget

VARIABLES spent, held, overdrawn

ledger == <<spent, held, overdrawn>>

LedgerInit == spent = 0 /\ held = 0 /\ overdrawn = 0

(* holds that expired are dropped, then one is granted if it fits *)
Hold == \E kept \in 0 .. held :
    /\ spent + kept + 1 <= Budget
    /\ held' = kept + 1
    /\ UNCHANGED <<spent, overdrawn>>

Drop == \E kept \in 0 .. held : held' = kept /\ UNCHANGED <<spent, overdrawn>>

Settle(cost) ==
    /\ held > 0 /\ held' = held - 1
    /\ spent' = spent + cost
    /\ UNCHANGED overdrawn

Overdraw(cost) ==
    /\ spent' = spent + cost /\ overdrawn' = overdrawn + cost
    /\ UNCHANGED held

NewPeriod == spent' = 0 /\ overdrawn' = 0 /\ held' \in 0 .. held

LedgerNext ==
    \/ Hold \/ Drop \/ NewPeriod
    \/ \E cost \in {0, 1} : Settle(cost) \/ Overdraw(cost)

LedgerSpec == LedgerInit /\ [][LedgerNext]_ledger
=============================================================================
