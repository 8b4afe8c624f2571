----------------------------- MODULE RowLookup -----------------------------
(***************************************************************************)
(* What row_store_lookup promises the stream that waits for it: the output *)
(* buffers of a lookup are filled row by row, in any order and each row    *)
(* once, the callback returns when every row is there, and nothing writes  *)
(* to the buffers of a lookup that has returned.                           *)
(***************************************************************************)
EXTENDS Naturals

CONSTANTS Callers,      \* threads that run the callback (one per stream)
          Counts        \* values of Work::count

RowIndex == UNION {0 .. n - 1 : n \in Counts \cup {0}}

VARIABLES busy,         \* busy[c]: a lookup of c is in progress
          size,         \* size[c]: its number of rows
          filled        \* filled[c]: the rows of its buffers already written

vars == <<busy, size, filled>>

Init == /\ busy = [c \in Callers |-> FALSE]
        /\ size = [c \in Callers |-> 0]
        /\ filled = [c \in Callers |-> {}]

Call(c) == \E n \in Counts :
  /\ ~busy[c]
  /\ busy' = [busy EXCEPT ![c] = TRUE]
  /\ size' = [size EXCEPT ![c] = n]
  /\ filled' = [filled EXCEPT ![c] = {}]

Fill(c) == \E i \in (0 .. size[c] - 1) \ filled[c] :
  /\ busy[c]
  /\ filled' = [filled EXCEPT ![c] = @ \cup {i}]
  /\ UNCHANGED <<busy, size>>

Return(c) ==
  /\ busy[c]
  /\ filled[c] = 0 .. size[c] - 1
  /\ busy' = [busy EXCEPT ![c] = FALSE]
  /\ UNCHANGED <<size, filled>>

Next == \E c \in Callers : Call(c) \/ Fill(c) \/ Return(c)

Spec == Init /\ [][Next]_vars
=============================================================================
