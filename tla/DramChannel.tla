---------------------------- MODULE DramChannel ----------------------------
(***************************************************************************)
(* The banks of a channel (src/DRAMsim3/src/bankstate.cc), the channel's   *)
(* view of them (channel_state.cc) and the refresh timer (refresh.cc).     *)
(*                                                                         *)
(* A channel is a record ch.  Clock values are kept as the time that       *)
(* remains: a timing of 0 is in the past, and Elapsed lets a cycle pass.   *)
(***************************************************************************)
EXTENDS DramConfig

CONSTANTS
    FAW_LIMIT,         \* activations in a window tFAW: 4 in IsFAWReady
    MaxHits            \* bound: row_hit_count_ is compared with limits below it

ASSUME LimitAssumption == FAW_LIMIT \in Nat \ {0}

\* No command, CommandType::SIZE in the source.
NoCommand == [cmd_type |-> "SIZE"]

IsValid(cmd) == cmd # NoCommand

Command(type, bank, row, column, hex_addr) ==
    [cmd_type |-> type, bank |-> bank, row |-> row, column |-> column, hex_addr |-> hex_addr]

RankCommand(type, rank) == Command(type, <<rank, 0, 0>>, -1, -1, -1)

refresh_interval ==
    CASE config.refresh_policy = "RANK_LEVEL_SIMULTANEOUS" -> config.tREFI
      [] config.refresh_policy = "BANK_LEVEL_STAGGERED"    -> config.tREFIb
      [] config.refresh_policy = "RANK_LEVEL_STAGGERED"    -> config.tREFI \div config.ranks

NewBank == [state |-> "CLOSED", open_row |-> -1, row_hit_count |-> 0,
            cmd_timing |-> [t \in CommandType |-> 0]]

NewChannel ==
    [bank_states   |-> [b \in Bank |-> NewBank],
     refresh_q     |-> <<>>,
     is_sref       |-> [r \in Rank |-> FALSE],
     idle_cycles   |-> [r \in Rank |-> 0],
     four_aw       |-> [r \in Rank |-> <<>>],
     until_refresh |-> refresh_interval,
     next          |-> <<0, 0, 0>>,    \* next_rank_, next_bg_, next_bank_
     abort         |-> FALSE]          \* AbruptExit or exit(1) was called

-----------------------------------------------------------------------------
(* What a bank needs next to execute a command. *)

\* "ABORT" where the source calls AbruptExit.
RequiredType(b, cmd) ==
    CASE b.state = "CLOSED" /\ IsReadWrite(cmd) -> "ACTIVATE"
      [] b.state = "CLOSED" /\ cmd.cmd_type \in RefreshType \cup {"SREF_ENTER"} -> cmd.cmd_type
      [] b.state = "OPEN" /\ IsReadWrite(cmd) ->
             IF cmd.row = b.open_row THEN cmd.cmd_type ELSE "PRECHARGE"
      [] b.state = "OPEN" /\ cmd.cmd_type \in RefreshType \cup {"SREF_ENTER"} -> "PRECHARGE"
      [] b.state = "SREF" /\ IsReadWrite(cmd) -> "SREF_EXIT"
      [] OTHER -> "ABORT"

ReadyAs(b, cmd, type) ==
    IF type = "ABORT" \/ b.cmd_timing[type] = 0
    THEN [cmd EXCEPT !.cmd_type = type]
    ELSE NoCommand

BankReady(b, cmd) == ReadyAs(b, cmd, RequiredType(b, cmd))

\* Mutant of ActivationWindowOk: one activation too many.
ActivationWindowOkMore(ch, rank) ==
    Len(ch.four_aw[rank]) <= FAW_LIMIT \/ Head(ch.four_aw[rank]) = 0

ActivationWindowOk(ch, rank) ==
    Len(ch.four_aw[rank]) < FAW_LIMIT \/ Head(ch.four_aw[rank]) = 0

\* The banks of a rank in the order of the loops over j and k.
BanksOf(rank) ==
    [i \in 1 .. banks |-> <<rank, (i - 1) \div config.banks_per_group,
                                  (i - 1) % config.banks_per_group>>]

\* The command for a rank, when the i-th of its banks is ready for ready[i]:
\* the first that is not the command itself, or the command if all are ready.
RankReady(cmd, order, ready) ==
    LET missing == {i \in DOMAIN order : IsValid(ready[i]) /\ ready[i].cmd_type # cmd.cmd_type}
    IN  CASE missing # {} -> [ready[Min(missing)] EXCEPT !.bank = order[Min(missing)]]
          [] missing = {} /\ (\A i \in DOMAIN order : IsValid(ready[i])) -> cmd
          [] OTHER -> NoCommand

InWindow(ch, ready) ==
    IF /\ IsValid(ready) /\ ready.cmd_type = "ACTIVATE"
       /\ ~ActivationWindowOk(ch, ready.bank[1])
    THEN NoCommand
    ELSE ready

GetReadyCommand(ch, cmd) ==
    IF IsRankCMD(cmd)
    THEN LET order == BanksOf(cmd.bank[1])
         IN  RankReady(cmd, order,
                       [i \in DOMAIN order |-> BankReady(ch.bank_states[order[i]], cmd)])
    ELSE InWindow(ch, BankReady(ch.bank_states[cmd.bank], cmd))

-----------------------------------------------------------------------------
(* Execution of a command. *)

\* Where a command may go; elsewhere UpdateState calls AbruptExit.
Legal(b, type) ==
    CASE b.state = "OPEN"   -> type \in ReadType \cup WriteType \cup {"PRECHARGE"}
      [] b.state = "CLOSED" -> type \in RefreshType \cup {"ACTIVATE", "SREF_ENTER"}
      [] b.state = "SREF"   -> type = "SREF_EXIT"

BankUpdated(b, cmd) ==
    CASE cmd.cmd_type \in {"READ", "WRITE"} ->
             [b EXCEPT !.row_hit_count = Min({@ + 1, MaxHits})]
      [] cmd.cmd_type \in {"READ_PRECHARGE", "WRITE_PRECHARGE", "PRECHARGE"} ->
             [b EXCEPT !.state = "CLOSED", !.open_row = -1, !.row_hit_count = 0]
      [] cmd.cmd_type = "ACTIVATE"   -> [b EXCEPT !.state = "OPEN", !.open_row = cmd.row]
      [] cmd.cmd_type = "SREF_ENTER" -> [b EXCEPT !.state = "SREF"]
      [] cmd.cmd_type = "SREF_EXIT"  -> [b EXCEPT !.state = "CLOSED"]
      [] OTHER -> b

\* The delays a command imposes on the commands of bank b.
Delays(cmd, b) ==
    LET table == CASE IsRankCMD(cmd) -> timing.same_rank
                   [] ~IsRankCMD(cmd) /\ b = cmd.bank -> timing.same_bank
                   [] ~IsRankCMD(cmd) /\ b[1] # cmd.bank[1] -> timing.other_ranks
                   [] OTHER -> IF b[2] = cmd.bank[2] THEN timing.other_banks_same_bankgroup
                                                     ELSE timing.other_bankgroups_same_rank
    IN  table[cmd.cmd_type]

\* Mutant of RefreshDone: the refresh stays in the queue.
RefreshDoneNever(ch, cmd) == ch.refresh_q

\* The first refresh for the rank, or for the bank, is no longer needed.
RefreshDone(ch, cmd) ==
    LET mine == {k \in DOMAIN ch.refresh_q :
                    IF IsRankCMD(cmd) THEN ch.refresh_q[k].bank[1] = cmd.bank[1]
                                      ELSE ch.refresh_q[k].bank = cmd.bank}
    IN  IF mine = {} THEN ch.refresh_q ELSE Erase(ch.refresh_q, Min(mine))

Later(times, delays) ==
    [t \in CommandType |-> IF delays[t] > times[t] THEN delays[t] ELSE times[t]]

UpdateTimingAndStates(ch, cmd) ==
    LET rank == cmd.bank[1]
        type == cmd.cmd_type
        hit(b) == IF IsRankCMD(cmd) THEN b[1] = rank ELSE b = cmd.bank
        state(b) == IF hit(b) THEN BankUpdated(ch.bank_states[b], cmd) ELSE ch.bank_states[b]
    IN  IF type = "ABORT" \/ (\E b \in Bank : hit(b) /\ ~Legal(ch.bank_states[b], type))
        THEN [ch EXCEPT !.abort = TRUE]
        ELSE [ch EXCEPT
                !.bank_states = [b \in Bank |->
                    IF IsRankCMD(cmd) /\ b[1] # rank THEN @[b]
                    ELSE [state(b) EXCEPT !.cmd_timing = Later(@, Delays(cmd, b))]],
                !.refresh_q = IF type \in RefreshType THEN RefreshDone(ch, cmd) ELSE @,
                !.is_sref[rank] = (@ \/ type = "SREF_ENTER") /\ type # "SREF_EXIT",
                !.four_aw[rank] =
                    IF type # "ACTIVATE" THEN @
                    ELSE Append(IF @ # <<>> /\ Head(@) = 0 THEN Tail(@) ELSE @, config.tFAW)]

-----------------------------------------------------------------------------
(* Refresh. *)

\* RANK_LEVEL_SIMULTANEOUS leaves its loop after the first rank.
InsertRefresh(ch) ==
    LET awake  == {r \in Rank : ~ch.is_sref[r]}
        rank   == ch.next[1]
        nextBg == (ch.next[2] + 1) % config.bankgroups
        nextBa == IF nextBg = 0 THEN (ch.next[3] + 1) % config.banks_per_group ELSE ch.next[3]
        wrap   == config.refresh_policy = "RANK_LEVEL_STAGGERED" \/ (nextBg = 0 /\ nextBa = 0)
        nextRa == IF wrap THEN (rank + 1) % config.ranks ELSE rank
    IN  CASE config.refresh_policy = "RANK_LEVEL_SIMULTANEOUS" ->
                 [ch EXCEPT !.refresh_q =
                    IF awake = {} THEN @ ELSE Append(@, RankCommand("REFRESH", Min(awake)))]
          [] config.refresh_policy = "RANK_LEVEL_STAGGERED" ->
                 [ch EXCEPT !.refresh_q =
                    IF rank \in awake THEN Append(@, RankCommand("REFRESH", rank)) ELSE @,
                            !.next = <<nextRa, 0, 0>>]
          [] config.refresh_policy = "BANK_LEVEL_STAGGERED" ->
                 [ch EXCEPT !.refresh_q =
                    IF rank \in awake
                    THEN Append(@, Command("REFRESH_BANK", ch.next, -1, -1, -1)) ELSE @,
                            !.next = <<nextRa, nextBg, nextBa>>]

RefreshClockTick(ch) ==
    IF ch.until_refresh = 0
    THEN [InsertRefresh(ch) EXCEPT !.until_refresh = refresh_interval]
    ELSE ch

IsAllBankIdleInRank(ch, rank) == \A b \in Bank : b[1] = rank => ch.bank_states[b].state # "OPEN"

\* The end of a cycle: everything that is waited for comes nearer.
Nearer(t) == IF t = 0 THEN 0 ELSE t - 1

ChannelElapsed(ch) ==
    [ch EXCEPT
        !.bank_states = [b \in Bank |->
            [ch.bank_states[b] EXCEPT !.cmd_timing = [t \in CommandType |-> Nearer(@[t])]]],
        !.four_aw = [r \in Rank |-> [k \in DOMAIN ch.four_aw[r] |-> Nearer(ch.four_aw[r][k])]],
        !.until_refresh = Nearer(@)]

=============================================================================
