----------------------------- MODULE MCGovernor -----------------------------
(***************************************************************************)
(* Governor with arbitrary callers on a small instance.  The counters the  *)
(* callers can push without end are capped by the guard Bounded.           *)
(***************************************************************************)
EXTENDS Governor, TLC

CONSTANTS
    MaxSpend,      \* cap of the recorded spend of a month
    MaxFailures,   \* cap of the consecutive failures of an observation key
    MaxRequests    \* cap of the requests counted for a provider

Bounded ==
    /\ monthly_spend <= MaxSpend /\ daily_spend <= MaxSpend
    /\ \A e \in Event : observation_state[e].failures <= MaxFailures
    /\ \A p \in Provider : circuit_breakers[p].failures <= FailureThreshold
    /\ \A p \in Provider : rate_counts[p].day <= MaxRequests /\ rate_counts[p].minute <= MaxRequests

MCNext == Next /\ Bounded'
MCSpec == Init /\ [][MCNext]_vars

TaskSymmetry == Permutations(Task)
=============================================================================
