----------------------------- MODULE MCFastQueue -----------------------------
(***************************************************************************)
(* FastQueue on small instances: two messages of one task, and three tasks *)
(* of which one has no URL.                                                *)
(***************************************************************************)
EXTENDS FastQueue, TLC

CONSTANTS t1, t2, t3, m1, m2, m3, monid, e1

OneTask      == [m \in Message |-> t1]
ThreeTasks   == [m \in Message |-> CASE m = m1 -> t1 [] m = m2 -> t2 [] m = m3 -> t3]
MCEventOf    == [t \in Task |-> e1]
MCProviderOf == [t \in Task |-> monid]

(* handlers are alike, and so are the two tasks with a URL, each with its  *)
(* message                                                                 *)
TwinTasks == [x \in {t1, t2, m1, m2} |->
                 CASE x = t1 -> t2 [] x = t2 -> t1 [] x = m1 -> m2 [] x = m2 -> m1]
HandlerSymmetry == Permutations(Worker)
TaskSymmetry    == HandlerSymmetry \cup {TwinTasks}
=============================================================================
