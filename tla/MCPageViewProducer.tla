------------------------- MODULE MCPageViewProducer -------------------------
(* Instances of PageViewProducer for TLC.                                  *)
EXTENDS PageViewProducer

Control(mode, size, ms) ==
    [sendMode |-> mode, batchSize |-> size, flushMs |-> ms, strategy |-> FALSE]

\* Each mode, a smaller and a larger batch, an interval NewTicker refuses, and a
\* request that only changes the strategy, but carries a negative batch size.
MCControls ==
    {Control("sync", 0, 0), Control("async", 1, 0), Control("batch", 1, 5),
     Control("batch", 3, -1), [Control("", -1, 0) EXCEPT !.strategy = TRUE]}
=============================================================================
