------------------------------- MODULE Memory ------------------------------
(***************************************************************************)
(* The class Memory (src/src/memory.cc) in front of the DRAM simulator.    *)
(* The DRAM is that of Dram: it takes transactions from the front of tq    *)
(* until it refuses one, and reports each of them complete exactly once,   *)
(* in any order and after any delay, from within its clock tick.           *)
(***************************************************************************)
EXTENDS AddressMap, Dram, FiniteSetsExt, Queues

CONSTANTS
    REQUEST_LIMIT,   \* 10240 in common.h
    MaxInFlight,     \* bound: transactions in the DRAM at a time
    WORD             \* 2^64, the modulus of total_write

ASSUME MemoryAssumption ==
    /\ REQUEST_LIMIT \in Nat \ {0}
    /\ MaxInFlight \in Nat \ {0}
    /\ WORD \in Nat \ {0}

VARIABLES
    tq,            \* Memory::tq, transactions not yet given to the DRAM
    rq,            \* Memory::rq, kinds of graph lines received, per engine
    mem_fq,        \* Memory::fq, feature lines received
    total_write    \* results still to be written

memVars == <<tq, rq, mem_fq, dram, total_write>>

READ(address)  == [address |-> address, is_write |-> FALSE]
WRITE(address) == [address |-> address, is_write |-> TRUE]

MemoryInit ==
    /\ tq = <<>>
    /\ rq = [i \in Engine |-> <<>>]
    /\ mem_fq = <<>>
    /\ DramInit

WillAcceptTransaction == Len(tq) < REQUEST_LIMIT

\* tq after AddTransaction of reads of the given addresses.
WithReads(addresses) == tq \o [k \in DOMAIN addresses |-> READ(addresses[k])]

\* How often each transaction is in a queue.
Counts(q) == [t \in Range(q) |-> Occurrences(q, t)]

\* From q, what tq holds, the DRAM accepts the first k transactions and
\* refuses the next.  It may refuse at any time: reads and writes have
\* buffers of their own, and a buffer of writes is full also when all of them
\* have been reported.
ConsumeTransaction(q) ==
    \E k \in 0 .. Len(q) :
        /\ SumFunction(dram) + k <= MaxInFlight
        /\ tq' = SubSeq(q, k + 1, Len(q))
        /\ Accept(Counts(SubSeq(q, 1, k)))
        /\ UNCHANGED <<rq, mem_fq, total_write>>

-----------------------------------------------------------------------------
(* Callbacks of the DRAM. *)

R_TYPE(address) ==
    CASE address < a_row_addr_start -> "Value"
      [] a_row_addr_start <= address /\ address < a_col_addr_start -> "Row"
      [] OTHER -> "Column"

InRegion(i, type, address) ==
    LET d == data_index[i]
    IN  CASE type = "Value"  -> address \in d.value_addr_start .. d.value_addr_end - 1
          [] type = "Row"    -> address \in d.row_addr_start .. d.row_addr_end - 1
          [] type = "Column" -> address \in d.col_addr_start .. d.col_addr_end - 1

\* The engine whose queue a graph line goes to: the first one whose region
\* holds the address.  Without one, `id' is read uninitialized.
Receiver(address) ==
    LET owners == {i \in Engine : InRegion(i, R_TYPE(address), address)}
    IN  IF owners = {} THEN Engine ELSE {Min(owners)}

ReadComplete(t) ==
    /\ ~t.is_write
    /\ IF t.address < xw_ele_addr_start
       THEN /\ \E i \in Receiver(t.address) :
                  rq' = [rq EXCEPT ![i] = Append(@, R_TYPE(t.address))]
            /\ UNCHANGED mem_fq
       ELSE /\ mem_fq' = Append(mem_fq, t.address)
            /\ UNCHANGED rq
    /\ UNCHANGED total_write

WriteComplete(t) ==
    /\ t.is_write
    /\ total_write' = (total_write - 1) % WORD
    /\ UNCHANGED <<rq, mem_fq>>

\* One completion within ClockTick.
Complete ==
    \E t \in DOMAIN dram :
        /\ Report(t)
        /\ ReadComplete(t) \/ WriteComplete(t)
        /\ UNCHANGED tq

=============================================================================
