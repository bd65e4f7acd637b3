--------------------------- MODULE DramController --------------------------
(***************************************************************************)
(* The memory controller of a channel (src/DRAMsim3/src/controller.cc):    *)
(* it merges transactions, buffers writes, turns transactions into         *)
(* commands, and reports reads when their data will have arrived.  A       *)
(* controller is a record k; a method is an operator on it.                *)
(***************************************************************************)
EXTENDS DramCommandQueue

CONSTANT WRITE_LOW    \* 8 in ScheduleTransaction: writes worth draining when idle

\* `bus' is not in the source: the cycles, from now, in which the data of the
\* commands issued so far occupy the data bus.
NewController ==
    [ch             |-> NewChannel,
     cq             |-> NewCommandQueue,
     read_queue     |-> <<>>,
     write_buffer   |-> <<>>,
     unified_queue  |-> <<>>,
     pending_rd_q   |-> [a \in AddressesOf(config) |-> 0],
     pending_wr_q   |-> {},
     return_queue   |-> <<>>,
     write_draining |-> 0,
     bus            |-> <<>>]

ControllerWillAccept(k, t) ==
    Len(IF config.unified_queue THEN k.unified_queue
        ELSE IF t.is_write THEN k.write_buffer ELSE k.read_queue) < config.trans_queue_size

Returned(k, t, left) ==
    [k EXCEPT !.return_queue = Append(@, [addr |-> t.addr, is_write |-> t.is_write, left |-> left])]

Enqueued(k, name, t) == [k EXCEPT ![IF config.unified_queue THEN "unified_queue" ELSE name] =
                                        Append(@, t)]

\* Mutant of ControllerAdd: a second read of an address gets a place of its own.
ControllerAddTwice(k, t) ==
    CASE t.is_write ->
             LET merged == t.addr \in k.pending_wr_q
                 new    == [k EXCEPT !.pending_wr_q = @ \cup {t.addr}]
             IN  Returned(IF merged THEN k ELSE Enqueued(new, "write_buffer", t), t, 1)
      [] ~t.is_write /\ t.addr \in k.pending_wr_q -> Returned(k, t, 1)
      [] OTHER -> Enqueued([k EXCEPT !.pending_rd_q[t.addr] = @ + 1], "read_queue", t)

\* A write is reported in the next cycle, and merged with an earlier one that
\* is still pending.  A read is served from a pending write, or waits with
\* the reads of the same address, of which only the first takes a place.
ControllerAdd(k, t) ==
    CASE t.is_write ->
             LET merged == t.addr \in k.pending_wr_q
                 new    == [k EXCEPT !.pending_wr_q = @ \cup {t.addr}]
             IN  Returned(IF merged THEN k ELSE Enqueued(new, "write_buffer", t), t, 1)
      [] ~t.is_write /\ t.addr \in k.pending_wr_q -> Returned(k, t, 1)
      [] OTHER ->
             LET new == [k EXCEPT !.pending_rd_q[t.addr] = @ + 1]
             IN  IF new.pending_rd_q[t.addr] = 1 THEN Enqueued(new, "read_queue", t) ELSE new

\* How often t is in flight: accepted and not yet reported.
InFlightIn(k, t) ==
    Cardinality({i \in DOMAIN k.return_queue : /\ k.return_queue[i].addr = t.addr
                                               /\ k.return_queue[i].is_write = t.is_write})
        + IF t.is_write THEN 0 ELSE k.pending_rd_q[t.addr]

\* The first transaction that is done, or 0.
DoneTrans(k) ==
    LET done == {i \in DOMAIN k.return_queue : k.return_queue[i].left = 0}
    IN  IF done = {} THEN 0 ELSE Min(done)

-----------------------------------------------------------------------------
(* Commands. *)

\* Mutant of IssueCommand: only one of the reads of an address is returned.
IssueCommandOne(k, cmd) ==
    LET a == cmd.hex_addr
    IN  [k EXCEPT
            !.pending_rd_q = IF cmd.cmd_type \in ReadType THEN [@ EXCEPT ![a] = 0] ELSE @,
            !.return_queue = IF cmd.cmd_type \in ReadType
                             THEN Append(@, [addr |-> a, is_write |-> FALSE, left |-> read_delay(config)])
                             ELSE @,
            !.pending_wr_q = IF cmd.cmd_type \in WriteType THEN @ \ {a} ELSE @,
            !.bus = IF IsReadWrite(cmd)
                    THEN Append(@, IF cmd.cmd_type \in ReadType THEN RL(config) ELSE WL(config)) ELSE @,
            !.ch = UpdateTimingAndStates(@, cmd)]

\* Reads of the address are all returned.  A read or write that is not
\* pending ends the program.
IssueCommand(k, cmd) ==
    LET a       == cmd.hex_addr
        reads   == IF cmd.cmd_type \in ReadType THEN k.pending_rd_q[a] ELSE 0
        unknown == \/ cmd.cmd_type \in ReadType /\ reads = 0
                   \/ cmd.cmd_type \in WriteType /\ a \notin k.pending_wr_q
        answer  == [addr |-> a, is_write |-> FALSE, left |-> read_delay(config)]
    IN  IF unknown THEN [k EXCEPT !.ch.abort = TRUE]
        ELSE [k EXCEPT
                !.pending_rd_q = IF reads > 0 THEN [@ EXCEPT ![a] = 0] ELSE @,
                !.return_queue = @ \o [i \in 1 .. reads |-> answer],
                !.pending_wr_q = IF cmd.cmd_type \in WriteType THEN @ \ {a} ELSE @,
                !.bus = IF IsReadWrite(cmd)
                        THEN Append(@, IF cmd.cmd_type \in ReadType THEN RL(config) ELSE WL(config)) ELSE @,
                !.ch = UpdateTimingAndStates(@, cmd)]

\* HBM: a second command in the same cycle, if one of the two is a read or
\* write and the other is not.  It has left its queue in any case.
SecondCommand(k, cmd, get) ==
    LET second == [k EXCEPT !.cq = get.cq]
    IN  IF IsValid(get.cmd) /\ (IsReadWrite(get.cmd) # IsReadWrite(cmd))
        THEN IssueCommand(second, get.cmd) ELSE second

WithSecond(k, cmd) ==
    IF config.enable_hbm_dual_cmd
    THEN SecondCommand(k, cmd, GetCommandToIssue(k.cq, k.ch)) ELSE k

TransToCommand(t) ==
    LET m    == AddressMapping(t.addr)
        type == IF t.is_write THEN "WRITE" ELSE "READ"
    IN  Command(IF config.row_buf_policy = "OPEN_PAGE" THEN type
                ELSE IF t.is_write THEN "WRITE_PRECHARGE" ELSE "READ_PRECHARGE",
                m.bank, m.row, m.column, t.addr)

-----------------------------------------------------------------------------
(* Transactions become commands. *)

\* Writes that are drained before the next read: set anew when the buffer is
\* full, or when it is worth it and no command waits.
WriteDraining(k) ==
    IF /\ k.write_draining = 0 /\ ~config.unified_queue
       /\ \/ Len(k.write_buffer) >= config.trans_queue_size
          \/ Len(k.write_buffer) > WRITE_LOW /\ QueueEmpty(k.cq)
    THEN Len(k.write_buffer)
    ELSE k.write_draining

\* The first transaction whose command queue has room is taken, unless it is
\* a write to an address with a pending read.
ScheduleTransaction(k) ==
    LET draining == WriteDraining(k)
        name == IF config.unified_queue THEN "unified_queue"
                ELSE IF draining > 0 THEN "write_buffer" ELSE "read_queue"
        open == {i \in DOMAIN k[name] :
                    WillAcceptCommand(k.cq, AddressMapping(k[name][i].addr).bank)}
        t    == k[name][Min(open)]
        separate == ~config.unified_queue /\ t.is_write
    IN  CASE open = {} -> [k EXCEPT !.write_draining = draining]
          [] open # {} /\ separate /\ k.pending_rd_q[t.addr] > 0 ->
                 [k EXCEPT !.write_draining = 0]
          [] OTHER ->
                 [k EXCEPT !.write_draining = IF separate THEN draining - 1 ELSE draining,
                           !.cq = AddCommand(@, TransToCommand(t)),
                           ![name] = Erase(@, Min(open))]

-----------------------------------------------------------------------------
(* A cycle. *)

\* Idle ranks go to self-refresh, ranks with commands are woken up; the first
\* rank for which a command is ready.
SelfRefresh(k) ==
    LET wake(r)  == k.ch.is_sref[r] /\ ~k.cq.rank_q_empty[r]
        enter(r) == /\ ~k.ch.is_sref[r] /\ k.cq.rank_q_empty[r]
                    /\ k.ch.idle_cycles[r] >= config.sref_threshold
        cmd(r)   == CASE wake(r)  -> GetReadyCommand(k.ch, RankCommand("SREF_EXIT", r))
                      [] enter(r) -> GetReadyCommand(k.ch, RankCommand("SREF_ENTER", r))
                      [] OTHER    -> NoCommand
        ready    == {r \in Rank : IsValid(cmd(r))}
    IN  IF ready = {} THEN k ELSE IssueCommand(k, cmd(Min(ready)))

\* idle_cycles is compared with sref_threshold only, and stays there.
IdleCounted(ch) ==
    [ch EXCEPT !.idle_cycles = [r \in Rank |->
        CASE ch.is_sref[r] -> @[r]
          [] ~ch.is_sref[r] /\ IsAllBankIdleInRank(ch, r) -> Min({@[r] + 1, config.sref_threshold})
          [] OTHER -> 0]]

Nearing(answers) == [i \in DOMAIN answers |-> [answers[i] EXCEPT !.left = Nearer(@)]]

\* The clock advances; data that has passed leaves the bus.
Elapsed(k) ==
    LET ahead == SelectSeq(k.bus, LAMBDA start : start + config.burst_cycle > 1)
    IN  [k EXCEPT !.ch = ChannelElapsed(@),
                  !.return_queue = Nearing(k.return_queue),
                  !.bus = [i \in DOMAIN ahead |-> ahead[i] - 1]]

\* A command of a waiting refresh comes first, then those of the queues.
RefreshOrNone(k) ==
    IF k.ch.refresh_q = <<>> THEN [cmd |-> NoCommand, cq |-> k.cq] ELSE FinishRefresh(k.cq, k.ch)

RefreshOrQueued(k, refresh) ==
    IF IsValid(refresh.cmd) THEN refresh ELSE GetCommandToIssue(refresh.cq, k.ch)

Issued(k, cmd) ==
    IF IsValid(cmd) THEN WithSecond(IssueCommand(k, cmd), cmd) ELSE k

Slept(k, cmd_issued) ==
    IF config.enable_self_refresh /\ ~cmd_issued THEN SelfRefresh(k) ELSE k

\* What follows the choice of the cycle's command.
AfterChoice(k, get) ==
    LET issued == Issued([k EXCEPT !.cq = get.cq], get.cmd)
    IN  Elapsed(ScheduleTransaction(Slept([issued EXCEPT !.ch = IdleCounted(@)], IsValid(get.cmd))))

ControllerTick(k) ==
    LET timed == [k EXCEPT !.ch = RefreshClockTick(@)]
    IN  AfterChoice(timed, RefreshOrQueued(timed, RefreshOrNone(timed)))

=============================================================================
