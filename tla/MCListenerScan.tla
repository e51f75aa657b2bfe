---------------------------- MODULE MCListenerScan ----------------------------
(* Three batches in two slices, two partitions: each is empty in one batch. *)
EXTENDS ListenerScan

MCPresent == 0 :> {0} @@ 1 :> {1} @@ 2 :> {0, 1}
MCSlice == "w0" :> <<0, 1>> @@ "w1" :> <<2>>
MCPartSlice == "s0" :> [offset |-> 0, max |-> 1]
MCPhases == "seal" :> <<"affinity_seal">>
            @@ "all" :> <<"artist_day", "affinity", "pairs", "gold">>
===============================================================================
