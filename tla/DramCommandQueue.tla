-------------------------- MODULE DramCommandQueue -------------------------
(***************************************************************************)
(* The command queues of a channel (src/DRAMsim3/src/command_queue.cc),    *)
(* one per bank or one per rank, served round robin.  cq is the record of  *)
(* the queues, ch the channel they look at.                                *)
(***************************************************************************)
EXTENDS DramChannel

CONSTANT ROW_HIT_LIMIT    \* 4 in ArbitratePrecharge

num_queues == IF config.queue_structure = "PER_BANK" THEN banks * config.ranks ELSE config.ranks

NewCommandQueue ==
    [queues        |-> [q \in 0 .. num_queues - 1 |-> <<>>],
     queue_idx     |-> 0,
     is_in_ref     |-> FALSE,
     ref_q_indices |-> {},
     rank_q_empty  |-> [r \in Rank |-> TRUE]]

GetQueueIndex(b) ==
    IF config.queue_structure = "PER_RANK" THEN b[1]
    ELSE b[1] * banks + b[2] * config.banks_per_group + b[3]

WillAcceptCommand(cq, b) == Len(cq.queues[GetQueueIndex(b)]) < config.cmd_queue_size

QueueEmpty(cq) == \A q \in DOMAIN cq.queues : cq.queues[q] = <<>>

\* rank_q_empty is set again nowhere.
AddCommand(cq, cmd) ==
    [cq EXCEPT !.queues[GetQueueIndex(cmd.bank)] = Append(@, cmd),
               !.rank_q_empty[cmd.bank[1]] = FALSE]

-----------------------------------------------------------------------------
(* Choice of a command. *)

\* A bank is closed for command k only if no earlier command waits for the
\* bank, and no later one for its open row unless it has had its hits.
ArbitratePrecharge(ch, queue, k) ==
    LET b == queue[k].bank
        bank == ch.bank_states[b]
    IN  /\ \A i \in 1 .. k - 1 : queue[i].bank # b
        /\ \/ \A i \in k .. Len(queue) : queue[i].bank = b => queue[i].row # bank.open_row
           \/ bank.row_hit_count >= ROW_HIT_LIMIT

\* Mutant of HasRWDependency: no command depends on another.
HasRWDependencyNever(queue, k) == FALSE

HasRWDependency(queue, k) ==
    \E i \in 1 .. k - 1 :
        /\ queue[i].cmd_type \in ReadType
        /\ queue[i].row = queue[k].row
        /\ queue[i].column = queue[k].column
        /\ Tail(queue[i].bank) = Tail(queue[k].bank)

\* The command that is ready for the k-th of a queue may be issued.
MayIssue(ch, queue, k, ready) ==
    /\ IsValid(ready)
    /\ ready.cmd_type = "PRECHARGE" => ArbitratePrecharge(ch, queue, k)
    /\ ready.cmd_type \in WriteType => ~HasRWDependency(queue, k)

GetFirstReadyInQueue(ch, queue) ==
    LET ready == [k \in DOMAIN queue |-> GetReadyCommand(ch, queue[k])]
        free  == {k \in DOMAIN queue : MayIssue(ch, queue, k, ready[k])}
    IN  IF free = {} THEN NoCommand ELSE ready[Min(free)]

EraseRWCommand(cq, cmd) ==
    [cq EXCEPT !.queues[GetQueueIndex(cmd.bank)] =
        Erase(@, Min({k \in DOMAIN @ : /\ @[k].hex_addr = cmd.hex_addr
                                          /\ @[k].cmd_type = cmd.cmd_type}))]

\* The command and the queues afterwards: reads and writes are erased when
\* they are chosen, whether or not they are issued.
Serve(cq, q, cmd) ==
    LET served == [cq EXCEPT !.queue_idx = q]
    IN  [cmd |-> cmd, cq |-> IF IsReadWrite(cmd) THEN EraseRWCommand(served, cmd) ELSE served]

GetCommandToIssue(cq, ch) ==
    LET at(i) == (cq.queue_idx + i) % num_queues
        ready == [q \in 0 .. num_queues - 1 |->
                    IF cq.is_in_ref /\ q \in cq.ref_q_indices THEN NoCommand
                    ELSE GetFirstReadyInQueue(ch, cq.queues[q])]
        turns == {i \in 1 .. num_queues : IsValid(ready[at(i)])}
    IN  IF turns = {} THEN [cmd |-> NoCommand, cq |-> cq]
        ELSE Serve(cq, at(Min(turns)), ready[at(Min(turns))])

\* The queues a refresh stops.
RefQIndices(ref) ==
    IF ref.cmd_type = "REFRESH"
    THEN {q \in 0 .. num_queues - 1 :
            ref.bank[1] = IF config.queue_structure = "PER_BANK" THEN q \div banks ELSE q}
    ELSE {GetQueueIndex(ref.bank)}

\* Mutant of FinishRefresh: the queues stay stopped.
FinishRefreshStuck(cq, ch) ==
    [cmd |-> GetReadyCommand(ch, Head(ch.refresh_q)),
     cq  |-> [cq EXCEPT !.is_in_ref = TRUE,
                        !.ref_q_indices = @ \cup RefQIndices(Head(ch.refresh_q))]]

\* The next command of the refresh at the front, and the queues afterwards.
FinishRefresh(cq, ch) ==
    LET ref == Head(ch.refresh_q)
        cmd == GetReadyCommand(ch, ref)
        stopped == [cq EXCEPT !.is_in_ref = TRUE,
                              !.ref_q_indices = IF cq.is_in_ref THEN @ ELSE @ \cup RefQIndices(ref)]
    IN  [cmd |-> cmd,
         cq  |-> IF cmd.cmd_type \in RefreshType
                 THEN [stopped EXCEPT !.is_in_ref = FALSE, !.ref_q_indices = {}]
                 ELSE stopped]

=============================================================================
