------------------------------ MODULE JedecDram ----------------------------
(***************************************************************************)
(* JedecDRAMSystem (src/DRAMsim3/src/dram_system.cc): the channels, each   *)
(* with its controller.  The client adds transactions whenever they are    *)
(* accepted and lets the clock tick; callbacks happen within a tick,       *)
(* before the controllers get their turn.                                  *)
(***************************************************************************)
EXTENDS DramController, TLC

VARIABLES
    ctrls,       \* ctrls[c]: the controller of channel c
    ticking,     \* ClockTick is running
    budget       \* bound: transactions the client will still add

vars == <<cfg, ctrls, ticking, budget>>

Transactions == [addr : config.reads, is_write : {FALSE}] \cup [addr : config.writes, is_write : {TRUE}]

Init ==
    /\ cfg \in DOMAIN Configs
    /\ ctrls = [c \in Channel |-> NewController]
    /\ ticking = FALSE
    /\ budget = config.budget

WillAcceptTransaction(t) == ControllerWillAccept(ctrls[GetChannel(t.addr)], t)

Running == \A c \in Channel : ~ctrls[c].ch.abort

AddTransaction(t) ==
    /\ Running /\ ~ticking /\ budget > 0
    /\ WillAcceptTransaction(t)
    /\ budget' = budget - 1
    /\ ctrls' = [ctrls EXCEPT ![GetChannel(t.addr)] = ControllerAdd(@, t)]
    /\ UNCHANGED <<cfg, ticking>>

DoneChannels == {c \in Channel : DoneTrans(ctrls[c]) # 0}

\* The client calls ClockTick.
CallClockTick ==
    /\ Running /\ ~ticking
    /\ ticking' = TRUE
    /\ UNCHANGED <<cfg, ctrls, budget>>

\* ReturnDoneTrans and the callback, for the next transaction that is done.
ReturnDoneTrans ==
    /\ Running /\ ticking
    /\ DoneChannels # {}
    /\ LET c == Min(DoneChannels)
       IN  ctrls' = [ctrls EXCEPT ![c].return_queue = Erase(@, DoneTrans(ctrls[c]))]
    /\ UNCHANGED <<cfg, ticking, budget>>

\* The rest of ClockTick.
ClockTick ==
    /\ Running /\ ticking
    /\ DoneChannels = {}
    /\ ticking' = FALSE
    /\ UNCHANGED <<cfg, budget>>
    /\ ctrls' = [c \in Channel |-> ControllerTick(ctrls[c])]

Next ==
    \/ \E t \in Transactions : AddTransaction(t)
    \/ CallClockTick
    \/ ReturnDoneTrans
    \/ ClockTick

Spec == Init /\ [][Next]_vars

\* The client calls ClockTick in every cycle, and every call returns.
FairSpec == Spec /\ WF_ticking(ticking' = ~ticking)

-----------------------------------------------------------------------------
(* Properties. *)

Count(s, Test(_)) == Cardinality({i \in DOMAIN s : Test(s[i])})

InFlight(t) == InFlightIn(ctrls[GetChannel(t.addr)], t)

AbstractDram == INSTANCE Dram WITH
    dram <- [t \in {u \in Transactions : InFlight(u) > 0} |-> InFlight(t)]

\* The client is told of every transaction it added once, and of no other
\* (merged writes, reads that share one command, reads served from the write
\* buffer: Controller::AddTransaction and IssueCommand).
ImplementsDram == AbstractDram!DramSpec

\* No bank is asked for, or given, a command its state has no case for, and no
\* command is issued for an address that is not pending: none of AbruptExit
\* and exit(1) in bankstate.cc and controller.cc is reached.
NeverAborts == Running

\* The transactions and commands for t that wait in the queues of k.
Waiting(k, t) ==
    LET type == IF t.is_write THEN WriteType ELSE ReadType
    IN  Count(k.read_queue \o k.write_buffer \o k.unified_queue, LAMBDA u : u = t)
            + MapThenSumSet(LAMBDA q : Count(k.cq.queues[q], LAMBDA cmd :
                                cmd.hex_addr = t.addr /\ cmd.cmd_type \in type),
                            DOMAIN k.cq.queues)

\* What is pending waits in exactly one queue, as a transaction or as a
\* command ("there should be only 1 write to the same location at a time" in
\* IssueCommand): commands are neither lost nor doubled on the way from
\* AddTransaction to IssueCommand, not by the second command of a cycle either.
QueuedOnce ==
    \A t \in Transactions :
        LET k == ctrls[GetChannel(t.addr)]
            pending == IF t.is_write THEN t.addr \in k.pending_wr_q ELSE k.pending_rd_q[t.addr] > 0
        IN  Waiting(k, t) = IF pending THEN 1 ELSE 0

\* A write is performed only when no earlier read of its address waits ("Enforce
\* R->W dependency" in ScheduleTransaction, HasRWDependency in the queues).
WriteAfterRead ==
    [][\A c \in Channel : \A a \in ctrls[c].pending_wr_q \ ctrls'[c].pending_wr_q :
            ctrls[c].pending_rd_q[a] = 0]_vars

\* The bursts of two commands never overlap on the data bus of a channel,
\* whatever the banks and ranks of the commands (the tables of Timing).
DataBusFree ==
    \A c \in Channel : \A i, j \in DOMAIN ctrls[c].bus :
        i < j => ctrls[c].bus[i] + config.burst_cycle <= ctrls[c].bus[j]

\* A rank is never given more than FAW_LIMIT activations in a window of tFAW
\* (IsFAWReady, UpdateActivationTimes).
FourActivates ==
    \A c \in Channel, r \in Rank :
        Count(ctrls[c].ch.four_aw[r], LAMBDA left : left > 0) <= FAW_LIMIT

\* A rank, or a bank, whose refresh is due gets it before it is due again,
\* whatever the client adds (FinishRefresh stops its queues).  This is all
\* there is for ranks that become due: "Simultaneous all rank refresh"
\* (refresh.cc:31) leaves its loop after the first rank that is awake, so that
\* with this policy, and without self-refresh, no other rank ever is.
RefreshInTime ==
    \A c \in Channel : LET q == ctrls[c].ch.refresh_q IN
        /\ \A j, k \in DOMAIN q : j # k => q[j].bank # q[k].bank
        /\ config.refresh_policy = "RANK_LEVEL_SIMULTANEOUS" /\ ~config.enable_self_refresh =>
               \A k \in DOMAIN q : q[k].bank[1] = 0

ReadInFlight == \E t \in Transactions : ~t.is_write /\ InFlight(t) > 0

\* Reads and writes that can meet in the two queues of ScheduleTransaction.
Meeting == ~config.unified_queue /\ config.reads \cap config.writes # {}

\* Every read is reported, unless its address is also written and the two
\* wait in different queues.
ReadsReported == (ReadInFlight /\ ~Meeting) ~> ~ReadInFlight

\* "let the front end driver know that the request is finished" (README.md of
\* DRAMsim3): every read is reported.
EveryReadReported == ReadInFlight ~> ~ReadInFlight

\* A client that waits until its transaction is accepted does not wait for
\* ever, with the same exception: full queues and full write buffers empty.
Accepts ==
    []<>(Meeting \/ \A t \in Transactions : WillAcceptTransaction(t))

=============================================================================
