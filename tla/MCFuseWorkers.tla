----------------------------- MODULE MCFuseWorkers -----------------------------
(* Two worker threads on two descriptors and two files.                         *)
EXTENDS FuseWorkers, TLC

CONSTANTS t1, t2, a1, a2, f1, f2
==============================================================================
