---------------------- MODULE MCLargeTransactionPipeline ----------------------
(* Instances of LargeTransactionPipeline for TLC.                          *)
EXTENDS LargeTransactionPipeline

CONSTANTS t1, t2
===============================================================================
