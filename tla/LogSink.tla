------------------------------ MODULE LogSink ------------------------------
(***************************************************************************)
(* What the request logger promises its callers, with no queue and no      *)
(* worker in sight: a row is taken or dropped once; rows taken are written *)
(* in batches of bounded size, a batch succeeding or failing as a whole;   *)
(* a row that was taken is never forgotten while the process runs; and     *)
(* what became of a row never changes afterwards.                          *)
(***************************************************************************)
EXTENDS Integers, FiniteSets

CONSTANTS Rows, BatchSize

VARIABLES
    fate,   \* what became of each row
    up      \* is the process running?

vars == <<fate, up>>

Held == {r \in Rows : fate[r] = "held"}

Init ==
    /\ fate = [r \in Rows |-> "new"]
    /\ up = TRUE

\* The rows of S meet the same fate in one step.
Meet(S, f) == fate' = [r \in Rows |-> IF r \in S THEN f ELSE fate[r]]

Take(r) == fate[r] = "new" /\ Meet({r}, "held")

Drop(r) == fate[r] = "new" /\ Meet({r}, "dropped")

Settle(S) ==
    /\ S # {}
    /\ Cardinality(S) <= BatchSize
    /\ Meet(S, "stored") \/ Meet(S, "failed")

\* The process ends; what it still held goes with it.
Stop ==
    /\ up' = FALSE
    /\ Meet(Held, "gone")

Next ==
    /\ up
    /\ \/ \E r \in Rows : (Take(r) \/ Drop(r)) /\ UNCHANGED up
       \/ \E S \in SUBSET Held : Settle(S) /\ UNCHANGED up
       \/ Stop

Spec == Init /\ [][Next]_vars

============================================================================
