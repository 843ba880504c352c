-------------------------- MODULE MCRequestLogger --------------------------
(***************************************************************************)
(* Bounds for RequestLogger.  Three calls fill a queue of two and leave    *)
(* one call waiting; two workers share the drain; batches of two are both  *)
(* filled and flushed half full; one retry separates a first failure from  *)
(* the last.                                                               *)
(***************************************************************************)
EXTENDS RequestLogger, TLC

CONSTANTS r1, r2, r3, w1, w2

\* Workers are interchangeable, and so are the rows the table accepts.
Interchangeable == Permutations({r2, r3}) \cup Permutations({w1, w2})

============================================================================
