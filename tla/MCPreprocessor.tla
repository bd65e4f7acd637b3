--------------------------- MODULE MCPreprocessor --------------------------
(***************************************************************************)
(* Small inputs of the preprocessor.                                       *)
(***************************************************************************)
EXTENDS Preprocessor

\* The CSR of a sequence of rows.
Csr(rows) == FoldLeft(AddRow, EmptyCsr, rows)

Options == [n_of_engine : 1 .. 3, n_tiles : 1 .. 3, lac_width : -1 .. 3]

Input(g, xw, o, mode, bf, x_unit) ==
    [a |-> g, xw |-> xw, n_of_engine |-> o.n_of_engine, n_tiles |-> o.n_tiles,
     lac_width |-> o.lac_width, mode |-> mode, bf |-> bf, x_unit |-> x_unit]

\* Five vertices, whose rows are empty, short or not in order; a feature of
\* three elements.
Graphs == {Csr(rows) : rows \in [1 .. 5 -> {<<>>, <<3>>, <<4, 0, 2>>}]}

Threes == [v \in 1 .. 5 |-> <<1, 0, 1>>]

GraphInputs ==
    {Input(g, Threes, o, "X_CMP", 1, 2) : g \in Graphs, o \in Options}

\* One engine whose graph has every vertex in a column, and every feature
\* matrix of two vertices with up to four elements or of three with two, and
\* some with five elements.
Complete(h) == Csr([v \in 1 .. h |-> [k \in 1 .. h |-> k - 1]])

One == [n_of_engine |-> 1, n_tiles |-> 1, lac_width |-> -1]

Matrices ==
    UNION {[1 .. 2 -> [1 .. w -> {0, 1}]] : w \in 1 .. 4}
        \cup [1 .. 3 -> [1 .. 2 -> {0, 1}]]
        \cup {<<x, <<1, 0, 1, 1, 0>>>> : x \in [1 .. 5 -> {0, 1}]}

FeatureInput(xw, mode, bf, x_unit) ==
    Input(Complete(Len(xw)), xw, One, mode, bf, x_unit)

\* The passes of urb lines that ReadData plans each have a line.
PassesFit(xw, passes) ==
    LET w == Len(xw[1])
    IN  (passes - 1) * Ceil(w, passes * CACHE_LINE_COUNT)
            < Ceil(w, CACHE_LINE_COUNT)

Featured(xw) == \A v \in DOMAIN xw : 1 \in Range(xw[v])

FeatureInputs ==
    {FeatureInput(xw, "X_CMP", 1, u) : xw \in Matrices, u \in 1 .. 4}
        \cup {FeatureInput(xw, "X_FULL_CMP", 1, 1) : xw \in Matrices}
        \cup UNION {{FeatureInput(xw, mode, bf, 1) :
                        mode \in IF Featured(xw) THEN {"MAT", "CSR"} ELSE {"MAT"},
                        bf \in {n \in 1 .. 3 : PassesFit(xw, n)}} :
                    xw \in Matrices}

\* Dense features of four elements, that is two lines, in four passes: two of them
\* lie beyond the feature.
PassInputs ==
    {FeatureInput([v \in 1 .. 2 |-> <<1, 1, 1, 1>>], "MAT", 4, 1)}

SmallInputs == GraphInputs \cup FeatureInputs \cup PassInputs

\* CSR features of three vertices, one of them without any.
SparseInputs ==
    {FeatureInput(<<<<1, 0>>, <<0, 0>>, <<1, 1>>>>, "CSR", 1, 1)}

=============================================================================
