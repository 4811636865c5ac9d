---------------------------- MODULE MCRateCache -----------------------------
(* An instance of RateCache for TLC.                                       *)
EXTENDS RateCache

CONSTANTS c1, c2
=============================================================================
