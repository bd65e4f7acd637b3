----------------------------- MODULE AddressMap ----------------------------
(***************************************************************************)
(* The address space as Preprocessor::AddressMapping lays it out: values,  *)
(* row pointers and column indices of all engines, then the features xw,   *)
(* then the results axw.                                                   *)
(***************************************************************************)
EXTENDS Common, FiniteSets

CONSTANTS
    a_row_addr_start, a_col_addr_start,     \* arch_info: the regions' starts
    xw_ele_addr_start, axw_addr_start,
    mode,         \* arch_info.mode: "X_CMP", "MAT", "CSR" or "X_FULL_CMP"
    urb,          \* arch_info.urb: lines of a feature per pass
    total_urb,    \* data_info.total_urb: lines of a feature
    x_to_addr     \* x_to_addr[v]: the feature lines of vertex v, 0 for none

n_of_engine == Cardinality(Engine)

\* The regions of the engines are disjoint and lie in the part of the
\* address space that ReadCompleteCallback takes them to be in.
ASSUME LayoutAssumption ==
    /\ n_of_engine \in Nat \ {0} /\ Engine = 0 .. n_of_engine - 1
    /\ {a_row_addr_start, a_col_addr_start, xw_ele_addr_start, axw_addr_start} \subseteq Nat
    /\ a_row_addr_start <= a_col_addr_start
    /\ a_col_addr_start <= xw_ele_addr_start
    /\ xw_ele_addr_start <= axw_addr_start
    /\ \A i \in Engine :
        /\ data_index[i].value_addr_end <= a_row_addr_start
        /\ data_index[i].row_addr_start >= a_row_addr_start
        /\ data_index[i].row_addr_end <= a_col_addr_start
        /\ data_index[i].col_addr_start >= a_col_addr_start
        /\ data_index[i].col_addr_end <= xw_ele_addr_start
    /\ \A i, j \in Engine : i < j =>
        /\ data_index[i].value_addr_end <= data_index[j].value_addr_start
        /\ data_index[i].row_addr_end <= data_index[j].row_addr_start
        /\ data_index[i].col_addr_end <= data_index[j].col_addr_start

\* The addresses of feature lines.  In CSR the last of them may be the first
\* line of the results.
Lines == xw_ele_addr_start .. axw_addr_start

\* Vertices appear in the columns; every line of theirs is taken for a feature
\* line, and line 0, which marks an absent one, is not.
ASSUME FeatureAssumption ==
    /\ xw_ele_addr_start > 0
    /\ \A i \in Engine : \A k \in DOMAIN col_idx[i] :
        x_to_addr[col_idx[i][k]] \in Seq({0} \cup Lines)

\* The last pass has lines left for it, and a single pass has them all.
ASSUME PassAssumption ==
    /\ urb \in Nat \ {0} /\ total_urb \in Nat
    /\ urb * (bf - 1) < total_urb /\ total_urb <= urb * bf
    /\ bf = 1 => urb = total_urb

\* In X_CMP the first line of every pass is there and none after an absent one
\* of the same pass, in MAT every line is there, and in the other modes there
\* is a line after the first one (in CSR only if the vertex has a feature that
\* is not zero).
ASSUME LineCountAssumption ==
    /\ mode \in {"X_CMP", "MAT", "CSR", "X_FULL_CMP"}
    /\ \A i \in Engine : \A k \in DOMAIN col_idx[i] :
        LET x == x_to_addr[col_idx[i][k]]
            allThere == \A n \in DOMAIN x : x[n] # 0
        IN  CASE mode = "X_CMP" -> /\ Len(x) = total_urb
                                   /\ \A p \in 0 .. bf - 1 : x[p * urb + 1] # 0
                                   /\ \A n \in 1 .. total_urb - 1 :
                                        x[n] = 0 /\ n % urb # 0 => x[n + 1] = 0
              [] mode = "MAT"   -> Len(x) = total_urb /\ allThere
              [] OTHER          -> Len(x) >= 2 /\ allThere

=============================================================================
