--------------------------- MODULE FeatureReader ---------------------------
(***************************************************************************)
(* The class FeatureReader (src/src/f_reader.cc): it turns the edges of    *)
(* the graph readers into requests for feature lines, keeps one request    *)
(* per line outstanding, and passes the lines on in order once they are    *)
(* in the cache.                                                           *)
(***************************************************************************)
EXTENDS Cache, Memory

CONSTANT FQ_LIMIT      \* 256 in ReadNext

ASSUME LimitAssumption == FQ_LIMIT \in Nat \ {0}

VARIABLES
    frs,          \* frs[i]: the edge engine i is reading lines for
    pq,           \* pq[i]: edges of engine i still to be read
    fq,           \* fq[i]: lines of engine i still to be passed
    requested,    \* lines requested and not yet received
    sa_cache

frVars == <<frs, pq, fq, requested, sa_cache>>

\* What fq holds besides lines: the end of a row (0 in the source), and lines
\* that were in the cache when they were read (1 in the source whatever the
\* line; the model remembers which).
ROW_END == 0
InCache(line) == -line
LineOf(entry) == IF entry < 0 THEN -entry ELSE entry

FeatureReaderInit ==
    /\ frs = [i \in Engine |-> [is_last |-> FALSE, dst |-> -1, v_fold |-> 0,
                                cur_col_idx |-> 0, pq_read_need |-> TRUE]]
    /\ pq = [i \in Engine |-> <<>>]
    /\ fq = [i \in Engine |-> <<>>]
    /\ requested = {}
    /\ sa_cache = NewCache

EnterFtoList(ei) == pq' = [pq EXCEPT ![ei.id] = Append(@, ei)]

\* Mutant of ConsumePendingQ: the column index is not reset.
ConsumePendingQNoReset(i) ==
    LET ei == Head(pq[i])
    IN  [is_last |-> ei.is_last, dst |-> ei.dst, v_fold |-> ei.v_fold,
         cur_col_idx |-> frs[i].cur_col_idx, pq_read_need |-> FALSE]

\* The edge ReadNext works on; ConsumePendingQ takes it from pq.
ConsumePendingQ(i) ==
    LET ei == Head(pq[i])
    IN  [is_last |-> ei.is_last, dst |-> ei.dst, v_fold |-> ei.v_fold,
         cur_col_idx |-> 0, pq_read_need |-> FALSE]

CurrentEdge(i) == IF frs[i].pq_read_need THEN ConsumePendingQ(i) ELSE frs[i]

\* Mutant of ReturnAddress: the pass is ignored.
ReturnAddressNoFold(row, col, fold) == x_to_addr[row][col + 1]

ReturnAddress(row, col, fold) == x_to_addr[row][fold * urb + col + 1]

\* Mutant of Fetch: lines already requested are requested again.
FetchAgain(c, address) ==
    LET miss == ~Hit(c, address)
    IN  /\ sa_cache' = Accessed(c, address)
        /\ requested' = IF miss THEN requested \cup {address} ELSE requested
        /\ tq' = IF miss THEN Append(tq, READ(address)) ELSE tq

\* Access to a line, and a request for it unless it is in the cache or
\* already requested.
Fetch(c, address) ==
    LET miss == ~Hit(c, address) /\ address \notin requested
    IN  /\ sa_cache' = Accessed(c, address)
        /\ requested' = IF miss THEN requested \cup {address} ELSE requested
        /\ tq' = IF miss THEN Append(tq, READ(address)) ELSE tq

\* Mutant of RowEnd: every edge ends its row.
RowEndAlways(cur, done) == IF done THEN <<ROW_END>> ELSE <<>>

\* The end of fq[i] when the last line of edge `cur' has been put there.
RowEnd(cur, done) == IF done /\ cur.is_last THEN <<ROW_END>> ELSE <<>>

\* X_CMP and MAT: a line per call, until the end of the pass's share of the
\* feature or, in X_CMP, until the first absent line.
ReadDense(i) ==
    LET cur   == CurrentEdge(i)
        line  == ReturnAddress(cur.dst, cur.cur_col_idx, cur.v_fold)
        entry == IF mode = "X_CMP" /\ Hit(sa_cache, line) THEN InCache(line) ELSE line
        atEnd == \/ cur.v_fold * urb + cur.cur_col_idx = total_urb - 1
                 \/ cur.cur_col_idx = urb - 1
        short == /\ mode = "X_CMP" /\ ~atEnd
                 /\ ReturnAddress(cur.dst, cur.cur_col_idx + 1, cur.v_fold) = 0
    IN  /\ Fetch(sa_cache, line)
        /\ fq' = [fq EXCEPT ![i] = @ \o <<entry>> \o RowEnd(cur, atEnd \/ short)]
        /\ frs' = [frs EXCEPT ![i] =
                    [cur EXCEPT !.pq_read_need = atEnd \/ short,
                                !.cur_col_idx  = IF atEnd THEN @
                                                 ELSE IF short THEN urb - 1
                                                 ELSE @ + 1]]

\* CSR and X_FULL_CMP: the first line of a vertex must be in the cache before
\* the others are read.
ReadSparse(i) ==
    LET cur   == CurrentEdge(i)
        lines == x_to_addr[cur.dst]
        col   == IF cur.cur_col_idx = 0 THEN 1 ELSE cur.cur_col_idx
        c     == IF cur.cur_col_idx = 0 THEN Accessed(sa_cache, lines[1]) ELSE sa_cache
        done  == col = Len(lines) - 1
    IN  IF cur.cur_col_idx = 0 /\ ~Hit(sa_cache, lines[1])
        THEN /\ Fetch(sa_cache, lines[1])
             /\ frs' = [frs EXCEPT ![i] = cur]
             /\ UNCHANGED fq
        ELSE /\ Fetch(c, lines[col + 1])
             /\ fq' = [fq EXCEPT ![i] = @ \o <<lines[col + 1]>> \o RowEnd(cur, done)]
             /\ frs' = [frs EXCEPT ![i] =
                         [cur EXCEPT !.pq_read_need = done,
                                     !.cur_col_idx  = IF done THEN col ELSE col + 1]]

\* Mutant of CanRead: the length of fq is not checked.
CanReadUnlimited(i) ==
    /\ WillAcceptTransaction
    /\ frs[i].pq_read_need => pq[i] # <<>>

CanRead(i) ==
    /\ Len(fq[i]) < FQ_LIMIT
    /\ WillAcceptTransaction
    /\ frs[i].pq_read_need => pq[i] # <<>>

ReadNext(i) ==
    IF CanRead(i)
    THEN /\ pq' = [pq EXCEPT ![i] = IF frs[i].pq_read_need THEN Tail(@) ELSE @]
         /\ IF mode \in {"X_CMP", "MAT"} THEN ReadDense(i) ELSE ReadSparse(i)
    ELSE UNCHANGED <<frVars, tq>>

\* Mutant of FeatureReceive: the line stays requested.
FeatureReceiveKeeps ==
    /\ sa_cache' = InsertedAll(sa_cache, mem_fq)
    /\ mem_fq' = <<>>
    /\ UNCHANGED <<frs, pq, fq, requested>>

\* FeatureReceive empties the memory's queue into the cache.
FeatureReceive ==
    /\ sa_cache' = InsertedAll(sa_cache, mem_fq)
    /\ requested' = requested \ Range(mem_fq)
    /\ mem_fq' = <<>>
    /\ UNCHANGED <<frs, pq, fq>>

-----------------------------------------------------------------------------
(* PassFtoSIMD. *)

CanPass(i) ==
    /\ fq[i] # <<>>
    /\ Head(fq[i]) < 0 \/ Hit(sa_cache, Head(fq[i]))

\* Mutant of PassEndsRow: the end of the row is not looked for.
PassEndsRowNever(i) == FALSE

PassEndsRow(i) == Len(fq[i]) > 1 /\ fq[i][2] = ROW_END

\* What PassFtoSIMD returns.
Passed(i) == IF ~CanPass(i) THEN -1 ELSE IF PassEndsRow(i) THEN 0 ELSE 1

\* Mutant of PassFtoSIMD: a line that is gone is not requested again.
PassFtoSIMDNoRequest(i) ==
    \/ /\ CanPass(i)
       /\ sa_cache' = IF Head(fq[i]) < 0 THEN sa_cache
                      ELSE Accessed(sa_cache, Head(fq[i]))
       /\ fq' = [fq EXCEPT ![i] = IF PassEndsRow(i) THEN Tail(Tail(@)) ELSE Tail(@)]
       /\ UNCHANGED <<frs, pq, requested, tq>>
    \/ /\ ~CanPass(i)
       /\ UNCHANGED <<frVars, tq>>

PassFtoSIMD(i) ==
    \/ /\ CanPass(i)
       /\ sa_cache' = IF Head(fq[i]) < 0 THEN sa_cache
                      ELSE Accessed(sa_cache, Head(fq[i]))
       /\ fq' = [fq EXCEPT ![i] = IF PassEndsRow(i) THEN Tail(Tail(@)) ELSE Tail(@)]
       /\ UNCHANGED <<frs, pq, requested, tq>>
    \/ /\ ~CanPass(i)
       /\ fq[i] # <<>>
       /\ Fetch(sa_cache, Head(fq[i]))
       /\ UNCHANGED <<frs, pq, fq>>
    \/ /\ fq[i] = <<>>
       /\ UNCHANGED <<frVars, tq>>

-----------------------------------------------------------------------------
\* The engine waits for the line: to pass it, or to read the rest of a vertex.
Waits(i, line) ==
    \/ line \in Range(fq[i])
    \/ ~frs[i].pq_read_need /\ frs[i].cur_col_idx = 0 /\ x_to_addr[frs[i].dst][1] = line

=============================================================================
