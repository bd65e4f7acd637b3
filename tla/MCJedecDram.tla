---------------------------- MODULE MCJedecDram ----------------------------
(***************************************************************************)
(* Small configurations of DRAMsim3.  Times are shorter than in            *)
(* HBM2_8Gb_x128.ini and keep their order: CL > CWL, tCCD_L > tCCD_S,      *)
(* tRAS > tRCD, tRFC > tRP, tREFI longer than all of them.                 *)
(***************************************************************************)
EXTENDS JedecDram

\* As in HBM2_8Gb_x128.ini, with two banks: one rank, open page, a queue per
\* bank, two commands a cycle, reads apart from writes.
HBM ==
    [channels |-> 1, ranks |-> 1, bankgroups |-> 2, banks_per_group |-> 1, rows |-> 2,
     columns |-> 2, address_mapping |-> <<"ro", "ra", "bg", "ba", "ch", "co">>,
     queue_structure |-> "PER_BANK", row_buf_policy |-> "OPEN_PAGE", unified_queue |-> FALSE,
     cmd_queue_size |-> 2, trans_queue_size |-> 2,
     IsHBM |-> TRUE, enable_hbm_dual_cmd |-> TRUE,
     refresh_policy |-> "RANK_LEVEL_STAGGERED",
     enable_self_refresh |-> FALSE, sref_threshold |-> 0,
     AL |-> 0, CL |-> 2, CWL |-> 1, burst_cycle |-> 1,
     tCCD_S |-> 1, tCCD_L |-> 2, tRTRS |-> 1, tRTP |-> 1, tWTR_S |-> 1, tWTR_L |-> 2,
     tWR |-> 1, tRP |-> 1, tRRD_S |-> 1, tRRD_L |-> 2, tRAS |-> 2, tRCD |-> 1,
     tRCDRD |-> 1, tRCDWR |-> 1, tFAW |-> 5,
     tRFC |-> 3, tREFI |-> 12, tREFIb |-> 4, tCKESR |-> 2, tXS |-> 4,
     reads |-> {0, 4}, writes |-> {1, 3}, budget |-> 4]

\* Reads and writes of one address, that meet in different queues.
HBMMeeting == [HBM EXCEPT !.trans_queue_size = 3, !.writes = {0, 2}, !.budget = 3]

\* Two ranks, each with its queue, and one queue of transactions.
DDR ==
    [HBM EXCEPT !.ranks = 2, !.bankgroups = 1, !.queue_structure = "PER_RANK",
                !.unified_queue = TRUE, !.trans_queue_size = 1,
                !.IsHBM = FALSE, !.enable_hbm_dual_cmd = FALSE,
                !.address_mapping = <<"ro", "bg", "ba", "ch", "ra", "co">>,
                !.refresh_policy = "RANK_LEVEL_SIMULTANEOUS",
                !.reads = {0, 2}, !.writes = {0, 1}, !.budget = 3]

\* Two channels, close page, banks refreshed one by one.
TwoChannels ==
    [HBM EXCEPT !.channels = 2, !.address_mapping = <<"ro", "ra", "bg", "ba", "co", "ch">>,
                !.row_buf_policy = "CLOSE_PAGE",
                !.refresh_policy = "BANK_LEVEL_STAGGERED", !.tREFI = 6, !.tREFIb = 6,
                !.reads = {0, 1}, !.writes = {2}, !.budget = 2]

\* Idle ranks sleep; the next command wakes them at once.
Sleeping ==
    [HBM EXCEPT !.enable_self_refresh = TRUE, !.sref_threshold = 3, !.tCKESR = 1,
                !.reads = {0, 2}, !.writes = {1}, !.budget = 2]

MCConfigs == <<HBM, HBMMeeting, DDR, TwoChannels, Sleeping>>

MeetingConfigs == <<HBMMeeting>>

=============================================================================
