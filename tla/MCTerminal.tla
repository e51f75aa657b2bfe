------------------------------ MODULE MCTerminal -------------------------------
\* One event, whose reports differ in status, presales and promoter; two runs of
\* two markets; one publisher at a time with two ids.
EXTENDS ServingSnapshot, TLC

Report(status, onsale, presales, price, promoter) ==
  [status |-> status, onsale |-> onsale, presales |-> presales, price |-> price,
   promoter |-> promoter]

Quiet == Report("onsale", None, {}, None, None)
Gone == Report("cancelled", "june", {[opens |-> "april", closes |-> "may"]}, None, "promoter")

TwoReports == {Quiet, Gone}
\* A market with the event, and one that may only end the sweep.
OneMarket == <<{"e1"}, {}>>
NoLegacy == << >>

Interchangeable == Permutations(Ids)
===============================================================================
