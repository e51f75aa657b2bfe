-------------------------- MODULE MCSourceScheduler --------------------------
(***************************************************************************)
(* SourceScheduler on small instances.  The universe is not a multiple of  *)
(* the cohort, so slices wrap; the interval of Wikimedia is its day.       *)
(***************************************************************************)
EXTENDS SourceScheduler, TLC

BothFamilies == <<"wikimedia", "spotify">>
OnlySpotify  == <<"spotify">>

MCInterval == [f \in Family |-> IF f = "wikimedia" THEN DayTicks ELSE InFlightTicks]

(* invocations of the handler are alike *)
TickerSymmetry == Permutations(Ticker)
=============================================================================
