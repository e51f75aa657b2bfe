-------------------------- MODULE MCGoldPublication ----------------------------
\* Every publishing job in turn, two containers that may run the same job id,
\* two observations.
EXTENDS GoldPublication, TLC

AllFamilies == {"factor"} \cup Rebuilt \cup {"wikimedia", "social", "spotify"}

\* Two faults for the jobs that promise most and resume, one for the others.
FaultsOf == [f \in AllFamilies |-> IF f \in Conditional THEN 2 ELSE 1]

Interchangeable == Permutations(Runners) \cup Permutations(JobIds) \cup Permutations(Rows)
===============================================================================
