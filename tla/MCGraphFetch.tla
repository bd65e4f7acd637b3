---------------------------- MODULE MCGraphFetch ---------------------------
(***************************************************************************)
(* Small graphs for GraphFetch, given by their row pointers; the engine    *)
(* under study is picked by the initial state.  Column k of a graph is k,  *)
(* so that a wrong edge shows.                                             *)
(***************************************************************************)
EXTENDS GraphFetch

\* Rows without edges at the start, in the middle, at the end, in pairs;
\* row ends on and off the boundaries of lines of two; one to six edges.
MCRowPtr == <<
    <<0, 1>>,          <<0, 2>>,          <<0, 0, 1>>,       <<0, 1, 1>>,
    <<0, 0, 2>>,       <<0, 2, 3>>,       <<0, 0, 0, 1>>,    <<0, 0, 1, 1>>,
    <<0, 1, 1, 1>>,    <<0, 1, 1, 3>>,    <<0, 2, 2, 3>>,    <<0, 0, 2, 4>>,
    <<0, 1, 2, 3>>,    <<0, 2, 4, 4>>,    <<0, 3, 3, 5>>,    <<0, 0, 0, 0, 2>>,
    <<0, 1, 1, 1, 2>>, <<0, 2, 2, 2, 2>> >>

MCEngine == DOMAIN MCRowPtr

MCColIdx == [i \in MCEngine |-> [k \in 1 .. MCRowPtr[i][Len(MCRowPtr[i])] |-> k - 1]]

\* The regions of an engine that has the address space to itself.
MCDataIndex ==
    [i \in MCEngine |->
        LET c == Frag(MCRowPtr[i][Len(MCRowPtr[i])])
            r == Frag(Len(MCRowPtr[i]))
        IN  [value_addr_start |-> 0, value_addr_end |-> c,
             row_addr_start |-> c, row_addr_end |-> c + r,
             col_addr_start |-> c + r, col_addr_end |-> c + r + c]]

\* Five vertices in lac_width = 2 rows over four engines leave the fourth one
\* without rows; the third one's only vertex may have no edges.
EmptyEngine == {1, 2}
EmptyRowPtr == << <<0>>, <<0, 0>> >>
EmptyColIdx == << <<>>, <<>> >>
EmptyDataIndex ==
    [i \in EmptyEngine |->
        [value_addr_start |-> 0, value_addr_end |-> 0,
         row_addr_start |-> 0, row_addr_end |-> 1,
         col_addr_start |-> 1, col_addr_end |-> 1]]

=============================================================================
