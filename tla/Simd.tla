-------------------------------- MODULE Simd -------------------------------
(***************************************************************************)
(* The class SIMD (src/src/simd.cc): at the end of a row it produces the   *)
(* row's result lines and writes them one per cycle.                       *)
(***************************************************************************)
EXTENDS FeatureReader

CONSTANT a_h    \* data_info.a_h: rows of the graph

ASSUME RowAssumption == a_h \in Nat

VARIABLES
    ss,    \* ss[i]: SIMD_STAT of engine i
    wq     \* wq[i]: results of engine i still to be written

simdVars == <<ss, wq>>

\* data_index[i].row - data_index[i].zero_row, as LAC counts them.
nonzero_row(i) ==
    Cardinality({r \in 1 .. Len(row_ptr[i]) - 1 : RowPtr(i, r) # RowPtr(i, r - 1)})

\* Mutant of InitialWrites: the lines of one pass only.
InitialWritesOnePass == SumFunction([i \in Engine |-> nonzero_row(i) * urb])

\* data_index[i].total_write, summed over the engines by the Preprocessor.
InitialWrites == SumFunction([i \in Engine |-> nonzero_row(i) * total_urb])

\* total_write starts below the modulus it is counted in.
ASSUME WordAssumption == InitialWrites < WORD

AxwStart(i) ==
    axw_addr_start + ((a_h + n_of_engine - 1) \div n_of_engine) * i * bf * urb

SimdInit ==
    /\ ss = [i \in Engine |-> [cur_row_idx |-> 0, cur_bf |-> 1,
                               write_urb |-> urb, cnt |-> 0]]
    /\ wq = [i \in Engine |-> <<>>]

\* Mutant of GetFeature: the last pass is looked for before the pass is
\* counted.
GetFeatureLate(i, f) ==
    LET s    == ss[i]
        n    == Max({s.write_urb, 0})
        wrap == s.cur_row_idx + 1 = nonzero_row(i)
    IN  IF f # 0
        THEN UNCHANGED simdVars
        ELSE /\ wq' = [wq EXCEPT ![i] =
                        @ \o [k \in 1 .. n |-> AxwStart(i) + s.cnt + k - 1]]
             /\ ss' = [ss EXCEPT ![i] =
                        [cur_row_idx |-> IF wrap THEN 0 ELSE s.cur_row_idx + 1,
                         cur_bf      |-> IF wrap THEN s.cur_bf + 1 ELSE s.cur_bf,
                         write_urb   |-> IF wrap /\ s.cur_bf = bf
                                         THEN total_urb - urb * (bf - 1)
                                         ELSE s.write_urb,
                         cnt         |-> s.cnt + n]]

GetFeature(i, f) ==
    LET s    == ss[i]
        n    == Max({s.write_urb, 0})
        wrap == s.cur_row_idx + 1 = nonzero_row(i)
    IN  IF f # 0
        THEN UNCHANGED simdVars
        ELSE /\ wq' = [wq EXCEPT ![i] =
                        @ \o [k \in 1 .. n |-> AxwStart(i) + s.cnt + k - 1]]
             /\ ss' = [ss EXCEPT ![i] =
                        [cur_row_idx |-> IF wrap THEN 0 ELSE s.cur_row_idx + 1,
                         cur_bf      |-> IF wrap THEN s.cur_bf + 1 ELSE s.cur_bf,
                         write_urb   |-> IF wrap /\ s.cur_bf + 1 = bf
                                         THEN total_urb - urb * (bf - 1)
                                         ELSE s.write_urb,
                         cnt         |-> s.cnt + n]]

Write(i) ==
    IF wq[i] # <<>> /\ WillAcceptTransaction
    THEN /\ tq' = Append(tq, WRITE(Head(wq[i])))
         /\ wq' = [wq EXCEPT ![i] = Tail(@)]
         /\ UNCHANGED ss
    ELSE UNCHANGED <<tq, ss, wq>>

=============================================================================
