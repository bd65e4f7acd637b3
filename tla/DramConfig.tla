----------------------------- MODULE DramConfig ----------------------------
(***************************************************************************)
(* The configuration of DRAMsim3 (src/DRAMsim3/src/configuration.cc): the  *)
(* fields of an address, and the delays that one command imposes on        *)
(* another (timing.cc).  Addresses count requests: the bits below the      *)
(* request size are gone, as after the shift in AddressMapping.            *)
(***************************************************************************)
EXTENDS Queues, FiniteSetsExt

CONSTANT Configs    \* a sequence of configurations the system may be started with

VARIABLE cfg        \* the place of the one it was started with

config == Configs[cfg]

Rank == 0 .. config.ranks - 1
Bankgroup == 0 .. config.bankgroups - 1
Bank == Rank \X Bankgroup \X (0 .. config.banks_per_group - 1)
Channel == 0 .. config.channels - 1

banks == config.bankgroups * config.banks_per_group

-----------------------------------------------------------------------------
(* Address mapping. *)

LogBase2(n) == CHOOSE i \in 0 .. n : 2^i <= n /\ n < 2^(i + 1)

\* Widths in bits; `columns' counts requests, the bits of a burst removed.
field_widths(c, f) ==
    LogBase2(CASE f = "ch" -> c.channels
               [] f = "ra" -> c.ranks
               [] f = "bg" -> c.bankgroups
               [] f = "ba" -> c.banks_per_group
               [] f = "ro" -> c.rows
               [] f = "co" -> c.columns)

\* The first field is the most significant one.
field_pos(c, f) ==
    LET order == c.address_mapping
        k     == CHOOSE i \in DOMAIN order : order[i] = f
    IN  MapThenSumSet(LAMBDA i : field_widths(c, order[i]), k + 1 .. Len(order))

Field(c, hex_addr, f) == (hex_addr \div 2^field_pos(c, f)) % 2^field_widths(c, f)

Mapped(c, hex_addr) ==
    [channel |-> Field(c, hex_addr, "ch"),
     bank    |-> <<Field(c, hex_addr, "ra"), Field(c, hex_addr, "bg"), Field(c, hex_addr, "ba")>>,
     row     |-> Field(c, hex_addr, "ro"),
     column  |-> Field(c, hex_addr, "co")]

\* The addresses the client uses.
AddressesOf(c) == c.reads \cup c.writes

\* The mapping of every configuration, computed once.
Mappings ==
    [i \in DOMAIN Configs |-> [a \in AddressesOf(Configs[i]) |-> Mapped(Configs[i], a)]]

AddressMapping(hex_addr) == Mappings[cfg][hex_addr]

\* Dimensions are positive, times and addresses are natural numbers, and the
\* refresh policy is one that is known: InitSystemParams ends the program otherwise.
ASSUME ConfigAssumption ==
    \A i \in DOMAIN Configs :
        LET c == Configs[i]
        IN  /\ {c.channels, c.ranks, c.bankgroups, c.banks_per_group} \subseteq Nat \ {0}
            /\ {c.AL, c.CL, c.burst_cycle, c.tFAW} \subseteq Nat
            /\ AddressesOf(c) \subseteq Nat
            /\ c.refresh_policy \in
                   {"RANK_LEVEL_SIMULTANEOUS", "RANK_LEVEL_STAGGERED", "BANK_LEVEL_STAGGERED"}

\* The fields of an address are within the dimensions: the dimensions are powers
\* of 2, as in the files under src/DRAMsim3/configs.
ASSUME MappingAssumption ==
    \A i \in DOMAIN Configs : \A a \in AddressesOf(Configs[i]) :
        LET c == Configs[i]
        IN  Mappings[i][a] \in
                [channel : 0 .. c.channels - 1,
                 bank    : (0 .. c.ranks - 1) \X (0 .. c.bankgroups - 1)
                                \X (0 .. c.banks_per_group - 1),
                 row     : Nat,
                 column  : Nat]

GetChannel(hex_addr) == AddressMapping(hex_addr).channel

-----------------------------------------------------------------------------
(* Timing. *)

ReadType    == {"READ", "READ_PRECHARGE"}
WriteType   == {"WRITE", "WRITE_PRECHARGE"}
RefreshType == {"REFRESH", "REFRESH_BANK"}
CommandType == ReadType \cup WriteType \cup RefreshType
                    \cup {"ACTIVATE", "PRECHARGE", "SREF_ENTER", "SREF_EXIT"}

IsReadWrite(cmd) == cmd.cmd_type \in ReadType \cup WriteType
IsRankCMD(cmd)   == cmd.cmd_type \in {"REFRESH", "SREF_ENTER", "SREF_EXIT"}

RL(c) == c.AL + c.CL
WL(c) == c.AL + c.CWL
read_delay(c)  == RL(c) + c.burst_cycle
write_delay(c) == WL(c) + c.burst_cycle

\* Without bankgroups the short delays replace the long ones.
Long(c, s, l) == IF c.bankgroups = 1 THEN s ELSE l

\* Mutant of BurstGap: a burst need not end before the next one.
BurstGapNone(c, where) == 0

\* Delays after a read and after a write, by where the next command goes:
\* to the same bankgroup, to another one, or to another rank.
BurstGap(c, where) ==
    CASE where = "bankgroup" -> Max({c.burst_cycle, Long(c, c.tCCD_S, c.tCCD_L)})
      [] where = "rank"      -> Max({c.burst_cycle, c.tCCD_S})

read_to_read(c, where) ==
    IF where = "other" THEN c.burst_cycle + c.tRTRS ELSE BurstGap(c, where)

\* Mutant of read_to_write: the write's data need not wait for the read's.
read_to_writeEarly(c, where) == c.burst_cycle

read_to_write(c, where) ==
    IF where = "other"
    THEN read_delay(c) + c.burst_cycle + c.tRTRS - write_delay(c)
    ELSE RL(c) + c.burst_cycle - WL(c) + c.tRTRS

write_to_read(c, where) ==
    CASE where = "bankgroup" -> write_delay(c) + Long(c, c.tWTR_S, c.tWTR_L)
      [] where = "rank"      -> write_delay(c) + c.tWTR_S
      [] where = "other"     -> write_delay(c) + c.burst_cycle + c.tRTRS - read_delay(c)

write_to_write(c, where) ==
    IF where = "other" THEN c.burst_cycle ELSE BurstGap(c, where)

read_to_precharge(c)  == c.AL + c.tRTP
readp_to_act(c)       == c.AL + c.burst_cycle + c.tRTP + c.tRP
write_to_precharge(c) == WL(c) + c.burst_cycle + c.tWR
read_to_activate(c)   == read_to_precharge(c) + c.tRP
write_to_activate(c)  == write_to_precharge(c) + c.tRP

activate_to_read(c)  == IF c.IsHBM THEN c.tRCDRD ELSE c.tRCD - c.AL
activate_to_write(c) == IF c.IsHBM THEN c.tRCDWR ELSE c.tRCD - c.AL

\* The delay of `next' after a read or write of another bank.
AfterReadWrite(c, where, type, next) ==
    CASE type \in ReadType  /\ next \in ReadType  -> read_to_read(c, where)
      [] type \in ReadType  /\ next \in WriteType -> read_to_write(c, where)
      [] type \in WriteType /\ next \in ReadType  -> write_to_read(c, where)
      [] type \in WriteType /\ next \in WriteType -> write_to_write(c, where)
      [] OTHER -> 0

\* The delay a command imposes on `next' in its own bank; 0 where the table
\* has no entry.  It has none at all for REFRESH_BANK.
same_bank(c, type, next) ==
    LET closes == {"ACTIVATE", "SREF_ENTER"} \cup RefreshType
    IN  CASE type = "READ" /\ next = "PRECHARGE"  -> read_to_precharge(c)
          [] type = "WRITE" /\ next = "PRECHARGE" -> write_to_precharge(c)
          [] type \in {"READ", "WRITE"} /\ next # "PRECHARGE" ->
                 AfterReadWrite(c, "bankgroup", type, next)
          [] type = "READ_PRECHARGE" /\ next \in closes ->
                 IF next = "ACTIVATE" THEN readp_to_act(c) ELSE read_to_activate(c)
          [] type = "WRITE_PRECHARGE" /\ next \in closes -> write_to_activate(c)
          [] type = "ACTIVATE" /\ next = "ACTIVATE"  -> c.tRAS + c.tRP
          [] type = "ACTIVATE" /\ next = "PRECHARGE" -> c.tRAS
          [] type = "ACTIVATE" /\ next \in ReadType  -> activate_to_read(c)
          [] type = "ACTIVATE" /\ next \in WriteType -> activate_to_write(c)
          [] type = "PRECHARGE" /\ next \in closes   -> c.tRP
          [] OTHER -> 0

\* The same for the other banks of the bankgroup and of the rank.
other_banks(c, where, type, next) ==
    CASE type \in ReadType \cup WriteType -> AfterReadWrite(c, where, type, next)
      [] type = "ACTIVATE" /\ next = "ACTIVATE" ->
             IF where = "bankgroup" THEN Long(c, c.tRRD_S, c.tRRD_L)
                                    ELSE c.tRRD_S
      [] type = "ACTIVATE" /\ next = "REFRESH_BANK"     -> c.tRAS + c.tRP
      [] type = "REFRESH_BANK" /\ next = "ACTIVATE"     -> c.tRFC
      [] type = "REFRESH_BANK" /\ next = "REFRESH_BANK" -> c.tREFI
      [] OTHER -> 0

other_ranks(c, type, next) == AfterReadWrite(c, "other", type, next)

\* The same for commands to a whole rank; the entries for REFRESH_BANK are
\* never used.
same_rank(c, type, next) ==
    CASE type = "REFRESH" /\ next \in {"ACTIVATE", "REFRESH", "SREF_ENTER"} -> c.tRFC
      [] type = "SREF_ENTER" /\ next = "SREF_EXIT" -> c.tCKESR
      [] type = "SREF_EXIT" /\ next \in {"ACTIVATE", "SREF_ENTER"} \cup RefreshType -> c.tXS
      [] OTHER -> 0

Table(Row(_, _)) == [type \in CommandType |-> [next \in CommandType |-> Row(type, next)]]

\* The tables of every configuration, computed once, as by class Timing.
Timings ==
    [i \in DOMAIN Configs |->
        LET c == Configs[i]
        IN  [same_bank |-> Table(LAMBDA t, n : same_bank(c, t, n)),
             other_banks_same_bankgroup |-> Table(LAMBDA t, n : other_banks(c, "bankgroup", t, n)),
             other_bankgroups_same_rank |-> Table(LAMBDA t, n : other_banks(c, "rank", t, n)),
             other_ranks |-> Table(LAMBDA t, n : other_ranks(c, t, n)),
             same_rank |-> Table(LAMBDA t, n : same_rank(c, t, n))]]

timing == Timings[cfg]

=============================================================================
