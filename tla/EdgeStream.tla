---------------------------- MODULE EdgeStream -----------------------------
(***************************************************************************)
(* What a graph reader promises to its caller, whatever the memory does:   *)
(* calls of NextFeature return the edges of the engine's CSR in order, bf  *)
(* times over, each with the number of the pass and a mark on the last     *)
(* edge of a row; in between they may return an empty edge; pass_over is   *)
(* raised after the last edge of the last pass and not before.             *)
(***************************************************************************)
EXTENDS Integers, Sequences

CONSTANTS Engine, bf, row_ptr, col_idx

VARIABLES
    id,      \* the engine
    pass,    \* the pass of the last edge returned
    next,    \* how many edges of that pass have been returned
    over,    \* the stream has ended
    ei       \* what the last call returned

vars == <<id, pass, next, over, ei>>

NoEdge == [id |-> id, is_last |-> FALSE, dst |-> -1, v_fold |-> -1]

\* Edge k is the last one of some row of engine i.
EndsRow(i, k) ==
    \E r \in 1 .. Len(row_ptr[i]) - 1 :
        row_ptr[i][r] <= k /\ row_ptr[i][r + 1] = k + 1

Init ==
    /\ id \in Engine
    /\ pass = 0
    /\ next = 0
    /\ over = FALSE
    /\ ei = NoEdge

\* Edge k of pass p is the next one of the stream.
Follows(p, k) ==
    \/ next < Len(col_idx[id]) /\ p = pass /\ k = next
    \/ next = Len(col_idx[id]) /\ p = pass + 1 /\ k = 0

Edge(p, k) ==
    /\ ~over
    /\ p < bf
    /\ Follows(p, k)
    /\ pass' = p
    /\ next' = k + 1
    /\ ei' = [id |-> id, is_last |-> EndsRow(id, k),
              dst |-> col_idx[id][k + 1], v_fold |-> p]
    /\ UNCHANGED <<id, over>>

Nothing ==
    /\ ei' = NoEdge
    /\ UNCHANGED <<id, pass, next, over>>

End ==
    /\ pass = bf - 1
    /\ next = Len(col_idx[id])
    /\ over' = TRUE
    /\ ei' = NoEdge
    /\ UNCHANGED <<id, pass, next>>

Next == (\E p \in {pass, pass + 1}, k \in {next, 0} : Edge(p, k)) \/ Nothing \/ End

Spec == Init /\ [][Next]_vars

=============================================================================
