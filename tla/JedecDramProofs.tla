--------------------------- MODULE JedecDramProofs -------------------------
(***************************************************************************)
(* What every method of a controller of DRAMsim3 keeps, in every           *)
(* configuration, and what follows for the whole memory: the client is told *)
(* of every transaction it added once, and no rank is activated more often *)
(* than its window allows.                                                 *)
(***************************************************************************)
EXTENDS JedecDram, QueueLemmas

-----------------------------------------------------------------------------
(* How often a transaction is on its way back to the client. *)

Matches(rq, a, w) == {i \in DOMAIN rq : rq[i].addr = a /\ rq[i].is_write = w}

\* A queue holds finitely many entries for an address and kind.
LEMMA MatchesFinite ==
    ASSUME NEW S, NEW rq \in Seq(S), NEW a, NEW w
    PROVE  IsFiniteSet(Matches(rq, a, w)) /\ Cardinality(Matches(rq, a, w)) \in Nat
<1>1. Len(rq) \in Nat /\ DOMAIN rq = 1 .. Len(rq)
  OBVIOUS
<1>2. IsFiniteSet(1 .. Len(rq))
  BY <1>1, FS_Interval
<1>3. Matches(rq, a, w) \in SUBSET (1 .. Len(rq))
  BY <1>1 DEF Matches
<1>4. IsFiniteSet(Matches(rq, a, w))
  BY <1>2, <1>3, FS_Subset
<1> QED
  BY <1>4, FS_CardinalityType

\* Answers put at the end: IssueCommand returns all reads of an address, and
\* AddTransaction a single transaction.
LEMMA MatchesCopies ==
    ASSUME NEW S, NEW rq \in Seq(S), NEW u \in Seq(S), NEW y,
           \A i \in 1 .. Len(u) : u[i] = y,
           NEW a, NEW w
    PROVE  Cardinality(Matches(rq \o u, a, w)) =
                Cardinality(Matches(rq, a, w))
                    + IF y.addr = a /\ y.is_write = w THEN Len(u) ELSE 0
<1> DEFINE n == Len(u)
           new == rq \o u
           M == Matches(rq, a, w)
           E == Len(rq) + 1 .. Len(rq) + n
<1>1. Len(rq) \in Nat /\ DOMAIN rq = 1 .. Len(rq)
  OBVIOUS
<1>2. n \in Nat /\ Len(u) = n /\ \A i \in 1 .. n : u[i] = y
  OBVIOUS
<1> HIDE DEF n
<1>3. /\ new \in Seq(S) /\ Len(new) = Len(rq) + n
      /\ \A i \in 1 .. Len(rq) + n : new[i] = IF i <= Len(rq) THEN rq[i] ELSE u[i - Len(rq)]
  BY <1>2, ConcatProperties, Zenon
<1>4. DOMAIN new = 1 .. Len(rq) + n
  BY <1>3
<1> HIDE DEF new
<1>5. /\ \A i \in 1 .. Len(rq) : new[i] = rq[i]
      /\ \A i \in E : new[i] = y
  BY <1>1, <1>2, <1>3
<1>6. IsFiniteSet(M) /\ Cardinality(M) \in Nat
  BY MatchesFinite
<1>7. IsFiniteSet(E) /\ Cardinality(E) = n
  <2> DEFINE from == Len(rq) + 1
             to == Len(rq) + n
  <2>1. from \in Int /\ to \in Int /\ (IF from > to THEN 0 ELSE to - from + 1) = n
    BY <1>1, <1>2
  <2> HIDE DEF from, to
  <2>2. IsFiniteSet(from .. to) /\ Cardinality(from .. to) = IF from > to THEN 0 ELSE to - from + 1
    BY <2>1, FS_Interval
  <2> QED
    BY <2>1, <2>2 DEF from, to
<1>8. M \subseteq 1 .. Len(rq)
  BY <1>1 DEF Matches
<1>9. CASE y.addr = a /\ y.is_write = w
  <2>1. Matches(new, a, w) = M \cup E
    <3>1. \A i \in 1 .. Len(rq) + n : i \in 1 .. Len(rq) \/ i \in E
      BY <1>1, <1>2
    <3>2. 1 .. Len(rq) \subseteq 1 .. Len(rq) + n /\ E \subseteq 1 .. Len(rq) + n
      BY <1>1, <1>2
    <3> HIDE DEF E
    <3> QED
      BY <1>1, <1>4, <1>5, <1>9, <3>1, <3>2, Zenon DEF Matches
  <2>2. M \cap E = {}
    BY <1>1, <1>2, <1>8
  <2>3. Cardinality(M \cup E) = Cardinality(M) + Cardinality(E) - Cardinality({})
    <3> HIDE DEF M, E
    <3> QED
      BY <1>6, <1>7, <2>2, FS_Union
  <2> HIDE DEF M, E
  <2>4. Cardinality(M \cup E) = Cardinality(M) + n
    BY <1>2, <1>6, <1>7, <2>3, FS_EmptySet
  <2> QED
    BY <1>9, <2>1, <2>4 DEF new, n, M
<1>10. CASE ~ (y.addr = a /\ y.is_write = w)
  <2>1. Matches(new, a, w) = M
    <3>1. \A i \in 1 .. Len(rq) + n : i \in 1 .. Len(rq) \/ i \in E
      BY <1>1, <1>2
    <3>2. 1 .. Len(rq) \subseteq 1 .. Len(rq) + n
      BY <1>1, <1>2
    <3> HIDE DEF E
    <3> QED
      BY <1>1, <1>4, <1>5, <1>10, <3>1, <3>2, Zenon DEF Matches
  <2> QED
    BY <1>6, <1>10, <2>1 DEF new
<1> QED
  BY <1>9, <1>10

\* n copies of an entry form a sequence of length n.
LEMMA CopiesProperties ==
    ASSUME NEW S, NEW n \in Nat, NEW y, n > 0 => y \in S, NEW u, u = [i \in 1 .. n |-> y]
    PROVE  u \in Seq(S) /\ Len(u) = n /\ \A i \in 1 .. Len(u) : u[i] = y
<1>1. u \in [1 .. n -> S] /\ \A i \in 1 .. n : u[i] = y
  OBVIOUS
<1>2. u \in Seq(S) /\ Len(u) = n
  BY <1>1
<1> QED
  BY <1>1, <1>2

\* An entry added at the end is counted once.
LEMMA MatchesAppend ==
    ASSUME NEW S, NEW rq \in Seq(S), NEW y \in S, NEW a, NEW w
    PROVE  /\ Append(rq, y) \in Seq(S)
           /\ Cardinality(Matches(Append(rq, y), a, w)) =
                Cardinality(Matches(rq, a, w))
                    + IF y.addr = a /\ y.is_write = w THEN 1 ELSE 0
<1> DEFINE u == <<y>>
<1>1. u \in Seq(S) /\ Len(u) = 1 /\ \A i \in 1 .. Len(u) : u[i] = y
  OBVIOUS
<1>2. Append(rq, y) = rq \o u
  BY AppendIsConcat
<1> HIDE DEF u
<1>3. Append(rq, y) \in Seq(S)
  BY AppendProperties
<1> QED
  BY <1>1, <1>2, <1>3, MatchesCopies

\* An answer is taken out: it was counted once.
LEMMA MatchesRemove ==
    ASSUME NEW S, NEW rq \in Seq(S), NEW i \in 1 .. Len(rq), NEW a, NEW w
    PROVE  Cardinality(Matches(Erase(rq, i), a, w)) =
                Cardinality(Matches(rq, a, w))
                    - IF rq[i].addr = a /\ rq[i].is_write = w THEN 1 ELSE 0
<1> DEFINE new == Erase(rq, i)
           M == Matches(rq, a, w)
           N == Matches(new, a, w)
           f == [j \in N |-> IF j < i THEN j ELSE j + 1]
<1>1. Len(rq) \in Nat /\ i \in Nat /\ DOMAIN rq = 1 .. Len(rq)
  OBVIOUS
<1>2. /\ new \in Seq(S) /\ Len(new) = Len(rq) - 1
      /\ \A j \in 1 .. Len(rq) - 1 : new[j] = IF j < i THEN rq[j] ELSE rq[j + 1]
  BY EraseProperties, Zenon
<1>3. DOMAIN new = 1 .. Len(rq) - 1
  BY <1>2
<1> HIDE DEF new
<1>4. IsFiniteSet(M) /\ Cardinality(M) \in Nat
  BY MatchesFinite
<1>5. IsFiniteSet(N) /\ Cardinality(N) \in Nat
  BY <1>2, MatchesFinite
<1>6. \A j \in N : j \in 1 .. Len(rq) - 1
  BY <1>3 DEF Matches
<1>7. \A j \in N : f[j] \in M \ {i}
  <2> SUFFICES ASSUME NEW j \in N PROVE f[j] \in M \ {i}
    OBVIOUS
  <2>1. f[j] \in 1 .. Len(rq) /\ f[j] # i /\ new[j] = rq[f[j]]
    BY <1>1, <1>2, <1>6
  <2>2. new[j].addr = a /\ new[j].is_write = w
    BY DEF Matches
  <2> HIDE DEF f, N
  <2> QED
    BY <1>1, <2>1, <2>2 DEF Matches
<1>8. \A j1, j2 \in N : f[j1] = f[j2] => j1 = j2
  BY <1>1, <1>6
<1>9. \A x \in M \ {i} : \E j \in N : f[j] = x
  <2> SUFFICES ASSUME NEW x \in M \ {i} PROVE \E j \in N : f[j] = x
    OBVIOUS
  <2> DEFINE j == IF x < i THEN x ELSE x - 1
  <2>1. x \in 1 .. Len(rq) /\ x # i /\ rq[x].addr = a /\ rq[x].is_write = w
    BY <1>1 DEF Matches
  <2>2. j \in 1 .. Len(rq) - 1 /\ (IF j < i THEN j ELSE j + 1) = x
    BY <1>1, <2>1
  <2>3. new[j] = rq[x]
    BY <1>1, <1>2, <2>1, <2>2
  <2>4. j \in N
    <3> HIDE DEF j
    <3> QED
      BY <1>3, <2>1, <2>2, <2>3 DEF Matches
  <2>5. f[j] = x
    <3> HIDE DEF j, N
    <3> QED
      BY <2>2, <2>4
  <2> QED
    BY <2>4, <2>5
<1>10. f \in Bijection(N, M \ {i})
  <2>1. f \in [N -> M \ {i}]
    <3> HIDE DEF N, M
    <3> QED
      BY <1>7
  <2> HIDE DEF f, N, M
  <2> QED
    BY <1>8, <1>9, <2>1 DEF Bijection, Injection, IsInjective, Surjection
<1>11. Cardinality(M \ {i}) = Cardinality(N)
  <2> HIDE DEF f, N, M
  <2> QED
    BY <1>5, <1>10, FS_Bijection DEF ExistsBijection
<1>12. i \in M <=> rq[i].addr = a /\ rq[i].is_write = w
  BY <1>1 DEF Matches
<1>13. Cardinality(M \ {i}) = IF i \in M THEN Cardinality(M) - 1 ELSE Cardinality(M)
  <2> HIDE DEF M, N, f
  <2> QED
    BY <1>4, FS_RemoveElement, Zenon
<1> QED
  BY <1>4, <1>11, <1>12, <1>13 DEF new

-----------------------------------------------------------------------------

Address == AddressesOf(config)

\* What is queued, and what a refresh waits for.
QueuedCommand(q) ==
    {cmd \in [cmd_type : ReadType \cup WriteType, bank : Bank, row : Nat, column : Nat,
              hex_addr : Address] : GetQueueIndex(cmd.bank) = q}

RefreshCommand ==
    [cmd_type : RefreshType, bank : Bank, row : {-1}, column : {-1}, hex_addr : {-1}]

\* Records that have the fields of a channel, of a command queue.
IsChannel(ch) ==
    ch = [bank_states |-> ch.bank_states, refresh_q |-> ch.refresh_q, is_sref |-> ch.is_sref,
          idle_cycles |-> ch.idle_cycles, four_aw |-> ch.four_aw,
          until_refresh |-> ch.until_refresh, next |-> ch.next, abort |-> ch.abort]

IsCommandQueue(cq) ==
    cq = [queues |-> cq.queues, queue_idx |-> cq.queue_idx, is_in_ref |-> cq.is_in_ref,
          ref_q_indices |-> cq.ref_q_indices, rank_q_empty |-> cq.rank_q_empty]

\* At most FAW_LIMIT activations are remembered for a rank.
WindowSound(aw) ==
    /\ aw \in [Rank -> Seq(Nat)]
    /\ \A r \in Rank : Len(aw[r]) <= FAW_LIMIT

ChannelSound(ch) ==
    /\ IsChannel(ch)
    /\ ch.refresh_q \in Seq(RefreshCommand)
    /\ ch.next \in Bank
    /\ WindowSound(ch.four_aw)

QueuesSound(cq) ==
    /\ IsCommandQueue(cq)
    /\ cq.queue_idx \in Nat
    /\ DOMAIN cq.queues = 0 .. num_queues - 1
    /\ \A q \in 0 .. num_queues - 1 : cq.queues[q] \in Seq(QueuedCommand(q))

-----------------------------------------------------------------------------
(* The configuration. *)

\* What the assumptions say of the configuration in use.
LEMMA ConfigFacts ==
    ASSUME cfg \in DOMAIN Configs
    PROVE  /\ config.channels \in Nat \ {0} /\ config.ranks \in Nat \ {0}
           /\ config.bankgroups \in Nat \ {0} /\ config.banks_per_group \in Nat \ {0}
           /\ banks \in Nat /\ num_queues \in Nat
           /\ config.tFAW \in Nat /\ read_delay(config) \in Nat
           /\ Address \subseteq Nat
           /\ config.refresh_policy \in
                {"RANK_LEVEL_SIMULTANEOUS", "RANK_LEVEL_STAGGERED", "BANK_LEVEL_STAGGERED"}
<1>1. /\ config.channels \in Nat \ {0} /\ config.ranks \in Nat \ {0}
      /\ config.bankgroups \in Nat \ {0} /\ config.banks_per_group \in Nat \ {0}
      /\ config.AL \in Nat /\ config.CL \in Nat /\ config.burst_cycle \in Nat
      /\ config.tFAW \in Nat
      /\ AddressesOf(config) \subseteq Nat
      /\ config.refresh_policy \in
            {"RANK_LEVEL_SIMULTANEOUS", "RANK_LEVEL_STAGGERED", "BANK_LEVEL_STAGGERED"}
  BY ConfigAssumption DEF config
<1>2. banks \in Nat
  BY <1>1 DEF banks
<1>3. num_queues \in Nat
  BY <1>1, <1>2 DEF num_queues
<1> QED
  BY <1>1, <1>2, <1>3 DEF read_delay, RL, Address

\* AddressMapping yields a channel, a bank, a row and a column that exist.
LEMMA MappingFacts ==
    ASSUME cfg \in DOMAIN Configs, NEW a \in Address
    PROVE  /\ GetChannel(a) \in Channel
           /\ AddressMapping(a).bank \in Bank
           /\ AddressMapping(a).row \in Nat
           /\ AddressMapping(a).column \in Nat
<1>1. AddressMapping(a) \in
        [channel : 0 .. config.channels - 1,
         bank    : (0 .. config.ranks - 1) \X (0 .. config.bankgroups - 1)
                        \X (0 .. config.banks_per_group - 1),
         row     : Nat,
         column  : Nat]
  BY MappingAssumption DEF AddressMapping, Address, config
<1> QED
  BY <1>1 DEF GetChannel, Channel, Bank, Rank, Bankgroup

-----------------------------------------------------------------------------
(* The commands that are ready. *)

\* What IssueCommand may be given: a read or write of an address, an activation
\* for which there is room in the window.
Issuable(ch, cmd) ==
    /\ cmd.cmd_type \in ReadType \cup WriteType => cmd.hex_addr \in Address
    /\ cmd.cmd_type = "ACTIVATE" => cmd.bank \in Bank /\ ActivationWindowOk(ch, cmd.bank[1])

\* Before a queued command a bank asks for the command itself, or for one that
\* moves no data.
LEMMA BankReadyOfQueued ==
    ASSUME NEW b, NEW q, NEW cmd \in QueuedCommand(q), BankReady(b, cmd) # NoCommand
    PROVE  /\ BankReady(b, cmd).bank = cmd.bank
           /\ BankReady(b, cmd).cmd_type \in ReadType \cup WriteType => BankReady(b, cmd) = cmd
<1>1. cmd \in [cmd_type : ReadType \cup WriteType, bank : Bank, row : Nat, column : Nat,
               hex_addr : Address]
  BY DEF QueuedCommand
<1>2. RequiredType(b, cmd) \in {"ACTIVATE", cmd.cmd_type, "PRECHARGE", "SREF_EXIT", "ABORT"}
  BY <1>1 DEF RequiredType, IsReadWrite
<1>3. BankReady(b, cmd) = [cmd EXCEPT !.cmd_type = RequiredType(b, cmd)]
  BY DEF BankReady, ReadyAs
<1>4. BankReady(b, cmd).bank = cmd.bank /\ BankReady(b, cmd).cmd_type = RequiredType(b, cmd)
  BY <1>1, <1>3
<1>5. ASSUME BankReady(b, cmd).cmd_type \in ReadType \cup WriteType
      PROVE  BankReady(b, cmd) = cmd
  <2>1. RequiredType(b, cmd) = cmd.cmd_type
    BY <1>2, <1>4, <1>5 DEF ReadType, WriteType
  <2> QED
    BY <1>1, <1>3, <2>1
<1> QED
  BY <1>4, <1>5

\* A read or write is ready only as the command that is queued, and an
\* activation only within the window.
LEMMA ReadyOfQueued ==
    ASSUME NEW ch, NEW q, NEW cmd \in QueuedCommand(q), GetReadyCommand(ch, cmd) # NoCommand
    PROVE  /\ Issuable(ch, GetReadyCommand(ch, cmd))
           /\ GetReadyCommand(ch, cmd).cmd_type \in ReadType \cup WriteType =>
                    GetReadyCommand(ch, cmd) = cmd
<1> DEFINE ready == BankReady(ch.bank_states[cmd.bank], cmd)
<1>1. cmd.cmd_type \in ReadType \cup WriteType /\ cmd.bank \in Bank /\ cmd.hex_addr \in Address
  BY DEF QueuedCommand
<1>2. ~IsRankCMD(cmd)
  BY <1>1 DEF IsRankCMD, ReadType, WriteType
<1>3. GetReadyCommand(ch, cmd) = InWindow(ch, ready)
  BY <1>2, Zenon DEF GetReadyCommand
<1>4. /\ GetReadyCommand(ch, cmd) = ready /\ ready # NoCommand
      /\ ready.cmd_type = "ACTIVATE" => ActivationWindowOk(ch, ready.bank[1])
  BY <1>3 DEF InWindow, IsValid
<1>5. /\ ready.bank = cmd.bank
      /\ ready.cmd_type \in ReadType \cup WriteType => ready = cmd
  BY <1>4, BankReadyOfQueued
<1> HIDE DEF ready
<1> QED
  BY <1>1, <1>4, <1>5 DEF Issuable

\* What a refresh, or the entry to or exit from self-refresh, needs first is
\* neither a read or write nor an activation.
LEMMA ReadyOfOther ==
    ASSUME cfg \in DOMAIN Configs, NEW ch, NEW cmd,
           cmd = Command(cmd.cmd_type, cmd.bank, cmd.row, cmd.column, cmd.hex_addr),
           cmd.cmd_type \in RefreshType \cup {"SREF_ENTER", "SREF_EXIT"}
    PROVE  GetReadyCommand(ch, cmd).cmd_type \notin ReadType \cup WriteType \cup {"ACTIVATE"}
<1> DEFINE Other(c) == c.cmd_type \notin ReadType \cup WriteType \cup {"ACTIVATE"}
<1>1. Other(NoCommand)
  BY DEF NoCommand, ReadType, WriteType
<1>2. Other(cmd)
  BY DEF ReadType, WriteType, RefreshType
<1>3. ASSUME NEW b
      PROVE  /\ Other(BankReady(b, cmd))
             /\ BankReady(b, cmd) # NoCommand =>
                    BankReady(b, cmd) = [cmd EXCEPT !.cmd_type = BankReady(b, cmd).cmd_type]
  <2>1. RequiredType(b, cmd) \in {cmd.cmd_type, "PRECHARGE", "ABORT"}
    BY <1>2 DEF RequiredType, IsReadWrite
  <2>2. RequiredType(b, cmd) \notin ReadType \cup WriteType \cup {"ACTIVATE"}
    BY <1>2, <2>1 DEF ReadType, WriteType
  <2>3. \/ BankReady(b, cmd) = NoCommand
        \/ BankReady(b, cmd) = [cmd EXCEPT !.cmd_type = RequiredType(b, cmd)]
    BY DEF BankReady, ReadyAs
  <2>4. [cmd EXCEPT !.cmd_type = RequiredType(b, cmd)].cmd_type = RequiredType(b, cmd)
    BY DEF Command
  <2> QED
    BY <1>1, <2>2, <2>3, <2>4, Zenon
<1>4. CASE ~IsRankCMD(cmd)
  <2> DEFINE ready == BankReady(ch.bank_states[cmd.bank], cmd)
  <2>1. Other(ready)
    BY <1>3
  <2>2. GetReadyCommand(ch, cmd) \in {ready, NoCommand}
    BY <1>4 DEF GetReadyCommand, InWindow
  <2> QED
    BY <1>1, <2>1, <2>2
<1>5. CASE IsRankCMD(cmd)
  <2> DEFINE order == BanksOf(cmd.bank[1])
             ready == [i \in DOMAIN order |-> BankReady(ch.bank_states[order[i]], cmd)]
             missing == {i \in DOMAIN order : IsValid(ready[i]) /\ ready[i].cmd_type # cmd.cmd_type}
             first == ready[Min(missing)]
  <2>1. GetReadyCommand(ch, cmd) = RankReady(cmd, order, ready)
    BY <1>5 DEF GetReadyCommand
  <2>2. DOMAIN order \subseteq Nat
    BY ConfigFacts DEF BanksOf
  <2>3. ASSUME missing # {}
        PROVE  Other([first EXCEPT !.bank = order[Min(missing)]])
    <3>1. missing \in SUBSET Nat
      BY <2>2
    <3>2. Min(missing) \in missing
      <4> HIDE DEF missing
      <4> QED
        BY <2>3, <3>1, MinProperties
    <3>3. Min(missing) \in DOMAIN order /\ first # NoCommand
      BY <3>2, Zenon DEF IsValid
    <3>4. first = BankReady(ch.bank_states[order[Min(missing)]], cmd)
      BY <3>3, Zenon
    <3> HIDE DEF first, missing, order
    <3>5. Other(first) /\ first = [cmd EXCEPT !.cmd_type = first.cmd_type]
      BY <1>3, <3>3, <3>4
    <3>6. [first EXCEPT !.bank = order[Min(missing)]].cmd_type = first.cmd_type
      BY <3>5 DEF Command
    <3> QED
      BY <3>5, <3>6, Zenon
  <2>4. RankReady(cmd, order, ready) \in {[first EXCEPT !.bank = order[Min(missing)]], cmd, NoCommand}
        /\ (missing = {} => RankReady(cmd, order, ready) \in {cmd, NoCommand})
    <3> HIDE DEF order, ready
    <3> QED
      BY DEF RankReady
  <2> QED
    BY <1>1, <1>2, <2>1, <2>3, <2>4, Zenon
<1> QED
  BY <1>4, <1>5

-----------------------------------------------------------------------------
(* The channel. *)

\* A bank is a rank, a bankgroup and a place within it.
LEMMA BankFacts ==
    ASSUME cfg \in DOMAIN Configs, NEW b \in Bank
    PROVE  /\ b = <<b[1], b[2], b[3]>>
           /\ b[1] \in Rank /\ b[2] \in Bankgroup /\ b[3] \in 0 .. config.banks_per_group - 1
  BY DEF Bank

\* The activations of a rank after another one (UpdateActivationTimes).
LEMMA WindowKept ==
    ASSUME NEW aw \in Seq(Nat), Len(aw) <= FAW_LIMIT, NEW t \in Nat,
           Len(aw) < FAW_LIMIT \/ Head(aw) = 0
    PROVE  LET new == Append(IF aw # <<>> /\ Head(aw) = 0 THEN Tail(aw) ELSE aw, t)
           IN  new \in Seq(Nat) /\ Len(new) <= FAW_LIMIT
<1>1. FAW_LIMIT \in Nat \ {0}
  BY LimitAssumption
<1>2. CASE aw # <<>> /\ Head(aw) = 0
  <2>1. Tail(aw) \in Seq(Nat) /\ Len(Tail(aw)) = Len(aw) - 1
    BY <1>2
  <2>2. Append(Tail(aw), t) \in Seq(Nat) /\ Len(Append(Tail(aw), t)) = Len(Tail(aw)) + 1
    BY <2>1
  <2> QED
    BY <1>1, <1>2, <2>1, <2>2
<1>3. CASE ~ (aw # <<>> /\ Head(aw) = 0)
  <2>1. Append(aw, t) \in Seq(Nat) /\ Len(Append(aw, t)) = Len(aw) + 1
    OBVIOUS
  <2>2. Len(aw) < FAW_LIMIT
    BY <1>1, <1>3
  <2> QED
    BY <1>1, <1>3, <2>1, <2>2
<1> QED
  BY <1>2, <1>3

\* Taking a refresh out of the refresh queue leaves a refresh queue.
LEMMA RefreshDoneSound ==
    ASSUME NEW ch, NEW cmd, ch.refresh_q \in Seq(RefreshCommand)
    PROVE  RefreshDone(ch, cmd) \in Seq(RefreshCommand)
<1> DEFINE mine == {k \in DOMAIN ch.refresh_q :
                        IF IsRankCMD(cmd) THEN ch.refresh_q[k].bank[1] = cmd.bank[1]
                                          ELSE ch.refresh_q[k].bank = cmd.bank}
<1>1. DOMAIN ch.refresh_q = 1 .. Len(ch.refresh_q) /\ Len(ch.refresh_q) \in Nat
  OBVIOUS
<1>2. mine \subseteq 1 .. Len(ch.refresh_q)
  BY <1>1
<1>3. RefreshDone(ch, cmd) = IF mine = {} THEN ch.refresh_q ELSE Erase(ch.refresh_q, Min(mine))
  BY DEF RefreshDone
<1> HIDE DEF mine
<1>4. CASE mine # {}
  <2>1. Min(mine) \in 1 .. Len(ch.refresh_q)
    <3>1. mine \in SUBSET Nat
      BY <1>1, <1>2
    <3> QED
      BY <1>2, <1>4, <3>1, MinProperties, Zenon
  <2> QED
    BY <1>3, <1>4, <2>1, EraseProperties
<1> QED
  BY <1>3, <1>4

\* UpdateTimingAndStates keeps a channel sound, whatever command is issued.
LEMMA UpdateSound ==
    ASSUME cfg \in DOMAIN Configs, NEW ch, ChannelSound(ch), NEW cmd, Issuable(ch, cmd)
    PROVE  ChannelSound(UpdateTimingAndStates(ch, cmd))
<1> DEFINE new == UpdateTimingAndStates(ch, cmd)
           rank == cmd.bank[1]
           type == cmd.cmd_type
           q == IF type \in RefreshType THEN RefreshDone(ch, cmd) ELSE ch.refresh_q
           aw == [ch.four_aw EXCEPT ![rank] =
                    IF type # "ACTIVATE" THEN @
                    ELSE Append(IF @ # <<>> /\ Head(@) = 0 THEN Tail(@) ELSE @, config.tFAW)]
<1>1. IsChannel(ch)
  BY DEF ChannelSound
<1>2. q \in Seq(RefreshCommand)
  BY RefreshDoneSound DEF ChannelSound
<1>3. WindowSound(aw)
  <2>1. WindowSound(ch.four_aw)
    BY DEF ChannelSound
  <2>2. CASE type # "ACTIVATE"
    <3>1. aw = ch.four_aw
      BY <2>1, <2>2 DEF WindowSound
    <3> QED
      BY <2>1, <3>1
  <2>3. CASE type = "ACTIVATE"
    <3> DEFINE old == ch.four_aw[rank]
               last == Append(IF old # <<>> /\ Head(old) = 0 THEN Tail(old) ELSE old, config.tFAW)
    <3>1. rank \in Rank
      BY <2>3, BankFacts DEF Issuable
    <3>2. old \in Seq(Nat) /\ Len(old) <= FAW_LIMIT
      BY <2>1, <3>1 DEF WindowSound
    <3>3. Len(old) < FAW_LIMIT \/ Head(old) = 0
      BY <2>3 DEF Issuable, ActivationWindowOk
    <3>4. last \in Seq(Nat) /\ Len(last) <= FAW_LIMIT
      <4>1. config.tFAW \in Nat
        BY ConfigFacts
      <4> HIDE DEF old
      <4> QED
        BY <3>2, <3>3, <4>1, WindowKept
    <3>5. aw = [ch.four_aw EXCEPT ![rank] = last]
      BY <2>3
    <3> HIDE DEF last, old, aw
    <3> QED
      BY <2>1, <3>1, <3>4, <3>5, Zenon DEF WindowSound
  <2> QED
    BY <2>2, <2>3
<1>4. /\ IsChannel(new) /\ new.next = ch.next
      /\ new.refresh_q \in {q, ch.refresh_q} /\ new.four_aw \in {aw, ch.four_aw}
  BY <1>1, Zenon DEF UpdateTimingAndStates, IsChannel
<1> HIDE DEF new, q, aw
<1> QED
  BY <1>2, <1>3, <1>4 DEF ChannelSound, new

\* Refresh::InsertRefresh adds refreshes only.
LEMMA InsertRefreshSound ==
    ASSUME cfg \in DOMAIN Configs, NEW ch, ChannelSound(ch)
    PROVE  ChannelSound(InsertRefresh(ch))
<1> DEFINE awake  == {r \in Rank : ~ch.is_sref[r]}
           rank   == ch.next[1]
           nextBg == (ch.next[2] + 1) % config.bankgroups
           nextBa == IF nextBg = 0 THEN (ch.next[3] + 1) % config.banks_per_group ELSE ch.next[3]
           wrap   == config.refresh_policy = "RANK_LEVEL_STAGGERED" \/ (nextBg = 0 /\ nextBa = 0)
           nextRa == IF wrap THEN (rank + 1) % config.ranks ELSE rank
           new    == InsertRefresh(ch)
<1>1. IsChannel(ch) /\ ch.refresh_q \in Seq(RefreshCommand) /\ ch.next \in Bank
      /\ WindowSound(ch.four_aw)
  BY DEF ChannelSound
<1>2. /\ config.ranks \in Nat \ {0} /\ config.bankgroups \in Nat \ {0}
      /\ config.banks_per_group \in Nat \ {0}
  BY ConfigFacts
<1>3. rank \in Rank /\ ch.next[2] \in Bankgroup /\ ch.next[3] \in 0 .. config.banks_per_group - 1
  BY <1>1, BankFacts
<1>4. nextBg \in Bankgroup /\ nextBa \in 0 .. config.banks_per_group - 1
  BY <1>2, <1>3 DEF Bankgroup
<1>5. nextRa \in Rank
  BY <1>2, <1>3 DEF Rank
<1>6. \A r \in Rank : <<r, 0, 0>> \in Bank
  BY <1>2 DEF Bank, Bankgroup
<1>7. ASSUME NEW b \in Bank, NEW type \in RefreshType
      PROVE  Append(ch.refresh_q, Command(type, b, -1, -1, -1)) \in Seq(RefreshCommand)
  <2>1. Command(type, b, -1, -1, -1) \in RefreshCommand
    BY DEF Command, RefreshCommand
  <2> QED
    BY <1>1, <2>1, AppendProperties
<1>8. ASSUME NEW r \in Rank
      PROVE  Append(ch.refresh_q, RankCommand("REFRESH", r)) \in Seq(RefreshCommand)
  BY <1>6, <1>7 DEF RankCommand, RefreshType
<1>9. awake # {} => Min(awake) \in Rank
  <2>1. awake \in SUBSET Nat /\ awake \subseteq Rank
    BY <1>2 DEF Rank
  <2> HIDE DEF awake
  <2> QED
    BY <2>1, MinProperties, Zenon
<1>10. CASE config.refresh_policy = "RANK_LEVEL_SIMULTANEOUS"
  <2>1. new = [ch EXCEPT !.refresh_q =
                    IF awake = {} THEN @ ELSE Append(@, RankCommand("REFRESH", Min(awake)))]
    BY <1>10 DEF InsertRefresh
  <2> HIDE DEF new, awake
  <2> QED
    BY <1>1, <1>8, <1>9, <2>1, Zenon DEF ChannelSound, IsChannel, new
<1>11. CASE config.refresh_policy = "RANK_LEVEL_STAGGERED"
  <2>1. new = [ch EXCEPT !.refresh_q =
                    IF rank \in awake THEN Append(@, RankCommand("REFRESH", rank)) ELSE @,
                         !.next = <<nextRa, 0, 0>>]
    BY <1>11 DEF InsertRefresh
  <2> HIDE DEF new, awake, rank, nextRa
  <2> QED
    BY <1>1, <1>3, <1>5, <1>6, <1>8, <2>1, Zenon DEF ChannelSound, IsChannel, new
<1>12. CASE config.refresh_policy = "BANK_LEVEL_STAGGERED"
  <2>1. new = [ch EXCEPT !.refresh_q =
                    IF rank \in awake
                    THEN Append(@, Command("REFRESH_BANK", ch.next, -1, -1, -1)) ELSE @,
                         !.next = <<nextRa, nextBg, nextBa>>]
    BY <1>12, Zenon DEF InsertRefresh
  <2>2. <<nextRa, nextBg, nextBa>> \in Bank
    BY <1>4, <1>5 DEF Bank
  <2>3. Append(ch.refresh_q, Command("REFRESH_BANK", ch.next, -1, -1, -1)) \in Seq(RefreshCommand)
    BY <1>1, <1>7 DEF RefreshType
  <2> HIDE DEF new, awake, rank, nextRa, nextBg, nextBa
  <2> QED
    BY <1>1, <2>1, <2>2, <2>3, Zenon DEF ChannelSound, IsChannel, new
<1> QED
  BY <1>10, <1>11, <1>12, ConfigFacts

\* Refresh::ClockTick keeps a channel sound.
LEMMA RefreshClockTickSound ==
    ASSUME cfg \in DOMAIN Configs, NEW ch, ChannelSound(ch)
    PROVE  ChannelSound(RefreshClockTick(ch))
<1>1. ChannelSound(InsertRefresh(ch))
  BY InsertRefreshSound
<1>2. ASSUME NEW x, ChannelSound(x), NEW t
      PROVE  ChannelSound([x EXCEPT !.until_refresh = t])
  BY <1>2 DEF ChannelSound, IsChannel
<1> QED
  BY <1>1, <1>2 DEF RefreshClockTick

\* With time the activation window only loses activations.
LEMMA ElapsedWindow ==
    ASSUME cfg \in DOMAIN Configs, NEW aw, WindowSound(aw)
    PROVE  WindowSound([r \in Rank |-> [k \in DOMAIN aw[r] |-> Nearer(aw[r][k])]])
<1> DEFINE later(r) == [k \in DOMAIN aw[r] |-> Nearer(aw[r][k])]
<1>1. ASSUME NEW r \in Rank
      PROVE  later(r) \in Seq(Nat) /\ Len(later(r)) <= FAW_LIMIT
  <2>1. aw[r] \in Seq(Nat) /\ Len(aw[r]) <= FAW_LIMIT
    BY DEF WindowSound
  <2>2. DOMAIN aw[r] = 1 .. Len(aw[r]) /\ Len(aw[r]) \in Nat
    BY <2>1
  <2>3. \A k \in 1 .. Len(aw[r]) : Nearer(aw[r][k]) \in Nat
    BY <2>1 DEF Nearer
  <2>4. later(r) \in [1 .. Len(aw[r]) -> Nat]
    BY <2>2, <2>3
  <2>5. later(r) \in Seq(Nat) /\ Len(later(r)) = Len(aw[r])
    <3> HIDE DEF later
    <3> QED
      BY <2>2, <2>4
  <2> QED
    BY <2>1, <2>5
<1> HIDE DEF later
<1> QED
  BY <1>1 DEF WindowSound, later

\* The passing of a cycle keeps a channel sound.
LEMMA ChannelElapsedSound ==
    ASSUME cfg \in DOMAIN Configs, NEW ch, ChannelSound(ch)
    PROVE  ChannelSound(ChannelElapsed(ch))
<1> DEFINE aw == [r \in Rank |-> [k \in DOMAIN ch.four_aw[r] |-> Nearer(ch.four_aw[r][k])]]
<1>1. WindowSound(aw)
  BY ElapsedWindow DEF ChannelSound
<1>2. ASSUME NEW x, NEW y, NEW z, WindowSound(y)
      PROVE  ChannelSound([ch EXCEPT !.bank_states = x, !.four_aw = y, !.until_refresh = z])
  <2> DEFINE c1 == [ch EXCEPT !.bank_states = x]
             c2 == [c1 EXCEPT !.four_aw = y]
             c3 == [c2 EXCEPT !.until_refresh = z]
  <2>1. [ch EXCEPT !.bank_states = x, !.four_aw = y, !.until_refresh = z] = c3
    BY Zenon
  <2>2. ChannelSound(c1)
    BY DEF ChannelSound, IsChannel
  <2> HIDE DEF c1
  <2>3. ChannelSound(c2)
    BY <1>2, <2>2 DEF ChannelSound, IsChannel
  <2> HIDE DEF c2
  <2>4. ChannelSound(c3)
    BY <2>3 DEF ChannelSound, IsChannel
  <2> QED
    BY <2>1, <2>4
<1> HIDE DEF aw
<1> QED
  BY <1>1, <1>2, Zenon DEF ChannelElapsed, aw

\* A new channel is sound.
LEMMA NewChannelSound ==
    ASSUME cfg \in DOMAIN Configs
    PROVE  ChannelSound(NewChannel)
<1>1. <<0, 0, 0>> \in Bank
  BY ConfigFacts DEF Bank, Rank, Bankgroup
<1>2. WindowSound([r \in Rank |-> <<>>])
  BY LimitAssumption DEF WindowSound
<1>3. <<>> \in Seq(RefreshCommand)
  OBVIOUS
<1> QED
  BY <1>1, <1>2, <1>3 DEF NewChannel, ChannelSound, IsChannel

\* A channel that has aborted is still sound.
LEMMA AbortSound ==
    ASSUME NEW ch, ChannelSound(ch), NEW x
    PROVE  ChannelSound([ch EXCEPT !.abort = x])
  BY DEF ChannelSound, IsChannel

-----------------------------------------------------------------------------
(* The command queues. *)

\* CommandQueue::AddCommand puts a command where it belongs.
LEMMA AddCommandSound ==
    ASSUME NEW cq, QueuesSound(cq), NEW cmd, cmd \in QueuedCommand(GetQueueIndex(cmd.bank))
    PROVE  QueuesSound(AddCommand(cq, cmd))
<1> DEFINE i == GetQueueIndex(cmd.bank)
           queues == [cq.queues EXCEPT ![i] = Append(@, cmd)]
           empty == [cq.rank_q_empty EXCEPT ![cmd.bank[1]] = FALSE]
<1>1. AddCommand(cq, cmd) = [cq EXCEPT !.queues = queues, !.rank_q_empty = empty]
  BY Zenon DEF AddCommand
<1>2. i \in 0 .. num_queues - 1 => Append(cq.queues[i], cmd) \in Seq(QueuedCommand(i))
  BY AppendProperties DEF QueuesSound
<1>3. /\ DOMAIN queues = 0 .. num_queues - 1
      /\ \A q \in 0 .. num_queues - 1 : queues[q] \in Seq(QueuedCommand(q))
  <2> HIDE DEF i
  <2> QED
    BY <1>2 DEF QueuesSound
<1> HIDE DEF i, queues, empty
<1> QED
  BY <1>1, <1>3, Zenon DEF QueuesSound, IsCommandQueue

\* A read or write that is chosen is in its queue, and is erased from it.
LEMMA ServeSound ==
    ASSUME NEW cq, QueuesSound(cq), NEW q \in 0 .. num_queues - 1, q \in Nat, NEW cmd,
           IsReadWrite(cmd) => \E k \in DOMAIN cq.queues[q] : cq.queues[q][k] = cmd
    PROVE  /\ QueuesSound(Serve(cq, q, cmd).cq)
           /\ Serve(cq, q, cmd).cmd = cmd
<1> DEFINE served == [cq EXCEPT !.queue_idx = q]
           queue == cq.queues[q]
           hits == {k \in DOMAIN queue : /\ queue[k].hex_addr = cmd.hex_addr
                                         /\ queue[k].cmd_type = cmd.cmd_type}
<1>1. QueuesSound(served) /\ served.queues = cq.queues
  BY DEF QueuesSound, IsCommandQueue
<1>2. ASSUME IsReadWrite(cmd)
      PROVE  QueuesSound(EraseRWCommand(served, cmd))
  <2>1. queue \in Seq(QueuedCommand(q))
    BY DEF QueuesSound
  <2>2. DOMAIN queue = 1 .. Len(queue) /\ Len(queue) \in Nat
    BY <2>1
  <2>3. cmd \in QueuedCommand(q) /\ hits # {}
    BY <1>2, <2>1, <2>2
  <2>4. GetQueueIndex(cmd.bank) = q
    BY <2>3 DEF QueuedCommand
  <2>5. hits \in SUBSET Nat /\ hits \subseteq 1 .. Len(queue)
    BY <2>2
  <2>6. EraseRWCommand(served, cmd) = [served EXCEPT !.queues[q] = Erase(queue, Min(hits))]
    BY <1>1, <2>4 DEF EraseRWCommand, QueuesSound, IsCommandQueue
  <2> HIDE DEF hits
  <2>7. Min(hits) \in 1 .. Len(queue)
    BY <2>3, <2>5, MinProperties, Zenon
  <2>8. Erase(queue, Min(hits)) \in Seq(QueuedCommand(q))
    <3> HIDE DEF queue
    <3> QED
      BY <2>1, <2>7, EraseProperties
  <2> DEFINE rest == Erase(queue, Min(hits))
  <2> HIDE DEF rest, served, queue
  <2>9. EraseRWCommand(served, cmd) = [served EXCEPT !.queues[q] = rest]
    BY <2>6 DEF rest
  <2> QED
    BY <1>1, <2>8, <2>9, Zenon DEF QueuesSound, IsCommandQueue, rest
<1> HIDE DEF served
<1> QED
  BY <1>1, <1>2 DEF Serve, served

\* The first command of a queue that is ready is one of the queue's own, if it
\* is a read or write.
LEMMA FirstReadySound ==
    ASSUME NEW ch, NEW q, NEW queue \in Seq(QueuedCommand(q))
    PROVE  LET cmd == GetFirstReadyInQueue(ch, queue)
           IN  /\ Issuable(ch, cmd)
               /\ IsReadWrite(cmd) => \E k \in DOMAIN queue : queue[k] = cmd
<1> DEFINE ready == [k \in DOMAIN queue |-> GetReadyCommand(ch, queue[k])]
           free == {k \in DOMAIN queue : MayIssue(ch, queue, k, ready[k])}
           cmd == GetFirstReadyInQueue(ch, queue)
<1>1. DOMAIN queue = 1 .. Len(queue) /\ Len(queue) \in Nat
  OBVIOUS
<1>2. cmd = IF free = {} THEN NoCommand ELSE ready[Min(free)]
  BY DEF GetFirstReadyInQueue
<1>3. CASE free = {}
  BY <1>2, <1>3 DEF Issuable, IsReadWrite, NoCommand, ReadType, WriteType
<1>4. CASE free # {}
  <2>1. free \in SUBSET Nat
    BY <1>1
  <2>2. Min(free) \in free
    <3> HIDE DEF free
    <3> QED
      BY <1>4, <2>1, MinProperties, Zenon
  <2>3. Min(free) \in DOMAIN queue /\ IsValid(ready[Min(free)])
    BY <2>2 DEF MayIssue
  <2> DEFINE i == Min(free)
  <2> HIDE DEF i
  <2>4. i \in DOMAIN queue /\ cmd = GetReadyCommand(ch, queue[i]) /\ cmd # NoCommand
    BY <1>2, <1>4, <2>3, Zenon DEF i, IsValid
  <2>5. queue[i] \in QueuedCommand(q)
    BY <1>1, <2>4
  <2> HIDE DEF cmd
  <2>6. Issuable(ch, cmd) /\ (cmd.cmd_type \in ReadType \cup WriteType => cmd = queue[i])
    BY <2>4, <2>5, ReadyOfQueued
  <2> QED
    BY <2>4, <2>6 DEF IsReadWrite, cmd
<1> QED
  BY <1>3, <1>4

\* What GetCommandToIssue chooses may be issued, and the queues stay sound.
LEMMA GetCommandSound ==
    ASSUME cfg \in DOMAIN Configs, NEW ch, NEW cq, QueuesSound(cq)
    PROVE  /\ QueuesSound(GetCommandToIssue(cq, ch).cq)
           /\ Issuable(ch, GetCommandToIssue(cq, ch).cmd)
<1> DEFINE at(i) == (cq.queue_idx + i) % num_queues
           ready == [q \in 0 .. num_queues - 1 |->
                        IF cq.is_in_ref /\ q \in cq.ref_q_indices THEN NoCommand
                        ELSE GetFirstReadyInQueue(ch, cq.queues[q])]
           turns == {i \in 1 .. num_queues : IsValid(ready[at(i)])}
           get == GetCommandToIssue(cq, ch)
<1>1. get = IF turns = {} THEN [cmd |-> NoCommand, cq |-> cq]
            ELSE Serve(cq, at(Min(turns)), ready[at(Min(turns))])
  BY Zenon DEF GetCommandToIssue
<1>2. num_queues \in Nat /\ cq.queue_idx \in Nat
  BY ConfigFacts DEF QueuesSound
<1>3. Issuable(ch, NoCommand) /\ ~IsReadWrite(NoCommand)
  BY DEF Issuable, IsReadWrite, NoCommand, ReadType, WriteType
<1>4. CASE turns = {}
  <2>1. get = [cmd |-> NoCommand, cq |-> cq]
    BY <1>1, <1>4, Zenon
  <2> HIDE DEF get
  <2>2. get.cmd = NoCommand /\ get.cq = cq
    BY <2>1
  <2> QED
    BY <1>3, <2>2 DEF get
<1>5. CASE turns # {}
  <2> DEFINE i == Min(turns)
             q == at(i)
             cmd == ready[q]
  <2>1. turns \in SUBSET Nat /\ turns \subseteq 1 .. num_queues
    BY <1>2
  <2>2. i \in 1 .. num_queues
    <3> HIDE DEF turns
    <3> QED
      BY <1>5, <2>1, MinProperties, Zenon
  <2>3. q \in 0 .. num_queues - 1 /\ q \in Nat
    <3> HIDE DEF i
    <3> QED
      BY <1>2, <2>2
  <2>4. get = Serve(cq, q, cmd)
    BY <1>1, <1>5, Zenon
  <2> HIDE DEF get, q, i, turns, at
  <2>5. cq.queues[q] \in Seq(QueuedCommand(q))
    BY <2>3 DEF QueuesSound
  <2>6. cmd \in {NoCommand, GetFirstReadyInQueue(ch, cq.queues[q])}
    BY <2>3
  <2> HIDE DEF cmd
  <2>7. /\ Issuable(ch, cmd)
        /\ IsReadWrite(cmd) => \E k \in DOMAIN cq.queues[q] : cq.queues[q][k] = cmd
    BY <1>3, <2>5, <2>6, FirstReadySound, Zenon
  <2> QED
    BY <2>3, <2>4, <2>7, ServeSound DEF get
<1> QED
  BY <1>4, <1>5, Zenon

\* Stopping queues for a refresh keeps them sound.
LEMMA StoppedSound ==
    ASSUME NEW cq, QueuesSound(cq), NEW x, NEW y
    PROVE  QueuesSound([cq EXCEPT !.is_in_ref = x, !.ref_q_indices = y])
<1> DEFINE one == [cq EXCEPT !.is_in_ref = x]
<1>1. [cq EXCEPT !.is_in_ref = x, !.ref_q_indices = y] = [one EXCEPT !.ref_q_indices = y]
  BY Zenon
<1>2. QueuesSound(one)
  BY DEF QueuesSound, IsCommandQueue
<1> HIDE DEF one
<1>3. QueuesSound([one EXCEPT !.ref_q_indices = y])
  BY <1>2 DEF QueuesSound, IsCommandQueue
<1> QED
  BY <1>1, <1>3

\* A command that is neither a read, a write nor an activation may always be issued.
LEMMA OtherIssuable ==
    ASSUME NEW ch, NEW cmd, cmd.cmd_type \notin ReadType \cup WriteType \cup {"ACTIVATE"}
    PROVE  Issuable(ch, cmd)
  BY DEF Issuable

\* FinishRefresh keeps the queues sound and chooses what may be issued.
LEMMA FinishRefreshSound ==
    ASSUME cfg \in DOMAIN Configs, NEW ch, ChannelSound(ch), NEW cq, QueuesSound(cq),
           ch.refresh_q # <<>>
    PROVE  /\ QueuesSound(FinishRefresh(cq, ch).cq)
           /\ Issuable(ch, FinishRefresh(cq, ch).cmd)
<1> DEFINE ref == Head(ch.refresh_q)
           cmd == GetReadyCommand(ch, ref)
           indices == IF cq.is_in_ref THEN cq.ref_q_indices ELSE cq.ref_q_indices \cup RefQIndices(ref)
           stopped == [cq EXCEPT !.is_in_ref = TRUE, !.ref_q_indices = indices]
           resumed == [stopped EXCEPT !.is_in_ref = FALSE, !.ref_q_indices = {}]
           get == FinishRefresh(cq, ch)
<1>1. ref \in RefreshCommand
  BY DEF ChannelSound
<1>2. /\ ref = Command(ref.cmd_type, ref.bank, ref.row, ref.column, ref.hex_addr)
      /\ ref.cmd_type \in RefreshType
  <2> HIDE DEF ref
  <2> QED
    BY <1>1 DEF RefreshCommand, Command
<1>3. Issuable(ch, cmd)
  <2> HIDE DEF ref
  <2>1. cmd.cmd_type \notin ReadType \cup WriteType \cup {"ACTIVATE"}
    BY <1>2, ReadyOfOther, Zenon
  <2> HIDE DEF cmd
  <2> QED
    BY <2>1, OtherIssuable
<1>4. QueuesSound(stopped) /\ QueuesSound(resumed)
  <2> HIDE DEF indices
  <2>1. QueuesSound(stopped)
    BY StoppedSound, Zenon
  <2> HIDE DEF stopped
  <2> QED
    BY <2>1, StoppedSound, Zenon
<1>5. get = [cmd |-> cmd, cq |-> IF cmd.cmd_type \in RefreshType THEN resumed ELSE stopped]
  BY Zenon DEF FinishRefresh
<1> HIDE DEF get, cmd, resumed, stopped
<1>6. get.cmd = cmd /\ get.cq \in {resumed, stopped}
  BY <1>5
<1> QED
  BY <1>3, <1>4, <1>6 DEF get

\* New command queues are sound.
LEMMA NewCommandQueueSound ==
    ASSUME cfg \in DOMAIN Configs
    PROVE  QueuesSound(NewCommandQueue)
<1>1. \A q \in 0 .. num_queues - 1 : <<>> \in Seq(QueuedCommand(q))
  OBVIOUS
<1> QED
  BY <1>1 DEF NewCommandQueue, QueuesSound, IsCommandQueue

-----------------------------------------------------------------------------
(* The controller. *)

\* What the client may add.
Transaction == [addr : config.reads, is_write : {FALSE}] \cup [addr : config.writes, is_write : {TRUE}]

\* What is on its way to the client of channel c.
Answer(c) ==
    {a \in [addr : Address, is_write : BOOLEAN, left : Nat] :
        /\ [addr |-> a.addr, is_write |-> a.is_write] \in Transaction
        /\ GetChannel(a.addr) = c}

\* Records that have the fields of a controller.
ControllerField ==
    {"ch", "cq", "read_queue", "write_buffer", "unified_queue", "pending_rd_q", "pending_wr_q",
     "return_queue", "write_draining", "bus"}

IsController(k) == k = [f \in ControllerField |-> k[f]]

\* A read that is pending in the controller of channel c was added to it.
FlightSound(rd, rq, c) ==
    /\ rd \in [Address -> Nat]
    /\ \A a \in Address : rd[a] > 0 => a \in config.reads /\ GetChannel(a) = c
    /\ rq \in Seq(Answer(c))

TransactionsSound(k) ==
    /\ k.read_queue \in Seq(Transaction)
    /\ k.write_buffer \in Seq(Transaction)
    /\ k.unified_queue \in Seq(Transaction)

ControllerSound(k, c) ==
    /\ IsController(k)
    /\ ChannelSound(k.ch)
    /\ QueuesSound(k.cq)
    /\ TransactionsSound(k)
    /\ FlightSound(k.pending_rd_q, k.return_queue, c)

-----------------------------------------------------------------------------
(* The controller. *)

\* Counting idle cycles keeps a channel sound.
LEMMA IdleCountedSound ==
    ASSUME NEW ch, ChannelSound(ch)
    PROVE  ChannelSound(IdleCounted(ch))
<1>1. ASSUME NEW x
      PROVE  ChannelSound([ch EXCEPT !.idle_cycles = x])
  BY DEF ChannelSound, IsChannel
<1> QED
  BY <1>1, Zenon DEF IdleCounted

\* A step within the controller: sound as before, with the same in flight.
Keeps(k, new, c) ==
    /\ ControllerSound(new, c)
    /\ \A t \in Transaction : InFlightIn(new, t) = InFlightIn(k, t)

\* Two steps that lose nothing in flight, one after the other.
LEMMA KeepsTransitive ==
    ASSUME NEW k, NEW k1, NEW k2, NEW c, Keeps(k, k1, c), Keeps(k1, k2, c)
    PROVE  Keeps(k, k2, c)
  BY DEF Keeps

\* No step at all loses nothing in flight.
LEMMA KeepsItself ==
    ASSUME NEW k, NEW c, ControllerSound(k, c)
    PROVE  Keeps(k, k, c)
  BY DEF Keeps

\* What does not touch the reads that are pending or the answers.
LEMMA KeepsFlight ==
    ASSUME NEW k, NEW new, NEW c, ControllerSound(k, c),
           IsController(new), ChannelSound(new.ch), QueuesSound(new.cq), TransactionsSound(new),
           new.pending_rd_q = k.pending_rd_q, new.return_queue = k.return_queue
    PROVE  Keeps(k, new, c)
  BY DEF Keeps, ControllerSound, InFlightIn

\* Any field but those two is set.
LEMMA KeepsSet ==
    ASSUME NEW k, NEW c, ControllerSound(k, c), NEW name \in ControllerField, NEW x,
           name \notin {"pending_rd_q", "return_queue"},
           name = "ch" => ChannelSound(x),
           name = "cq" => QueuesSound(x),
           name \in {"read_queue", "write_buffer", "unified_queue"} => x \in Seq(Transaction)
    PROVE  Keeps(k, [k EXCEPT ![name] = x], c)
<1> DEFINE new == [k EXCEPT ![name] = x]
<1>1. IsController(new) /\ \A f \in ControllerField : new[f] = IF f = name THEN x ELSE k[f]
  <2>1. IsController(k)
    BY DEF ControllerSound
  <2> QED
    BY <2>1, SMT DEF IsController
<1> HIDE DEF new
<1>2. /\ new.ch = IF name = "ch" THEN x ELSE k.ch
      /\ new.cq = IF name = "cq" THEN x ELSE k.cq
      /\ new.read_queue = IF name = "read_queue" THEN x ELSE k.read_queue
      /\ new.write_buffer = IF name = "write_buffer" THEN x ELSE k.write_buffer
      /\ new.unified_queue = IF name = "unified_queue" THEN x ELSE k.unified_queue
      /\ new.pending_rd_q = k.pending_rd_q
      /\ new.return_queue = k.return_queue
  BY <1>1, SMT DEF ControllerField
<1>3. ChannelSound(new.ch) /\ QueuesSound(new.cq)
  BY <1>2 DEF ControllerSound
<1>4. TransactionsSound(new)
  BY <1>2 DEF ControllerSound, TransactionsSound
<1> QED
  BY <1>1, <1>2, <1>3, <1>4, KeepsFlight, Zenon DEF new

\* KeepsSet for the fields that are set by name.
LEMMA KeepsSetNamed ==
    ASSUME NEW k, NEW c, ControllerSound(k, c), NEW x
    PROVE  /\ ChannelSound(x) => Keeps(k, [k EXCEPT !.ch = x], c)
           /\ QueuesSound(x) => Keeps(k, [k EXCEPT !.cq = x], c)
           /\ Keeps(k, [k EXCEPT !.pending_wr_q = x], c)
           /\ Keeps(k, [k EXCEPT !.write_draining = x], c)
           /\ Keeps(k, [k EXCEPT !.bus = x], c)
<1>1. /\ ChannelSound(x) => Keeps(k, [k EXCEPT !["ch"] = x], c)
      /\ QueuesSound(x) => Keeps(k, [k EXCEPT !["cq"] = x], c)
  BY KeepsSet, Zenon DEF ControllerField
<1>2. Keeps(k, [k EXCEPT !["pending_wr_q"] = x], c)
  BY KeepsSet, Zenon DEF ControllerField
<1>3. Keeps(k, [k EXCEPT !["write_draining"] = x], c)
  BY KeepsSet, Zenon DEF ControllerField
<1>4. Keeps(k, [k EXCEPT !["bus"] = x], c)
  BY KeepsSet, Zenon DEF ControllerField
<1> QED
  BY <1>1, <1>2, <1>3, <1>4, Zenon

WithPending(k, x) == [k EXCEPT !.pending_rd_q = x]
WithReturned(k, x) == [k EXCEPT !.return_queue = x]

\* Replacing the pending reads of a controller.
LEMMA SetPending ==
    ASSUME NEW k, NEW c, ControllerSound(k, c), NEW x, FlightSound(x, k.return_queue, c)
    PROVE  /\ ControllerSound(WithPending(k, x), c)
           /\ WithPending(k, x).pending_rd_q = x
           /\ WithPending(k, x).return_queue = k.return_queue
           /\ WithPending(k, x).ch = k.ch
<1> DEFINE new == WithPending(k, x)
<1>1. IsController(k)
  BY DEF ControllerSound
<1>2. IsController(new)
  BY <1>1, SMT DEF IsController, WithPending
<1>3. /\ new.ch = k.ch /\ new.cq = k.cq
      /\ new.read_queue = k.read_queue
      /\ new.write_buffer = k.write_buffer
      /\ new.unified_queue = k.unified_queue
      /\ new.return_queue = k.return_queue
      /\ new.pending_rd_q = x
  BY <1>1, SMT DEF IsController, ControllerField, WithPending
<1> HIDE DEF new
<1>4. ChannelSound(new.ch) /\ QueuesSound(new.cq) /\ TransactionsSound(new)
  BY <1>3 DEF ControllerSound, TransactionsSound
<1>5. ControllerSound(new, c)
  BY <1>2, <1>3, <1>4, Zenon DEF ControllerSound
<1> QED
  BY <1>3, <1>5 DEF new

\* Replacing the return queue of a controller.
LEMMA SetReturned ==
    ASSUME NEW k, NEW c, ControllerSound(k, c), NEW x, FlightSound(k.pending_rd_q, x, c)
    PROVE  /\ ControllerSound(WithReturned(k, x), c)
           /\ WithReturned(k, x).return_queue = x
           /\ WithReturned(k, x).pending_rd_q = k.pending_rd_q
           /\ WithReturned(k, x).ch = k.ch
<1> DEFINE new == WithReturned(k, x)
<1>1. IsController(k)
  BY DEF ControllerSound
<1>2. IsController(new)
  BY <1>1, SMT DEF IsController, WithReturned
<1>3. /\ new.ch = k.ch /\ new.cq = k.cq
      /\ new.read_queue = k.read_queue
      /\ new.write_buffer = k.write_buffer
      /\ new.unified_queue = k.unified_queue
      /\ new.pending_rd_q = k.pending_rd_q
      /\ new.return_queue = x
  BY <1>1, SMT DEF IsController, ControllerField, WithReturned
<1> HIDE DEF new
<1>4. ChannelSound(new.ch) /\ QueuesSound(new.cq) /\ TransactionsSound(new)
  BY <1>3 DEF ControllerSound, TransactionsSound
<1>5. ControllerSound(new, c)
  BY <1>2, <1>3, <1>4 DEF ControllerSound
<1> QED
  BY <1>3, <1>5 DEF new

\* What is in flight waits in the return queue or is pending.
LEMMA InFlightSum ==
    ASSUME NEW k, NEW t
    PROVE  InFlightIn(k, t) = Cardinality(Matches(k.return_queue, t.addr, t.is_write))
                                + IF t.is_write THEN 0 ELSE k.pending_rd_q[t.addr]
  BY DEF InFlightIn, Matches

\* The fields of a transaction.
LEMMA TransactionFacts ==
    ASSUME NEW t \in Transaction
    PROVE  /\ t = [addr |-> t.addr, is_write |-> t.is_write]
           /\ t.is_write \in BOOLEAN
           /\ t.addr \in Address
           /\ ~t.is_write => t.addr \in config.reads
  BY Zenon DEF Transaction, Address, AddressesOf

\* All n reads of an address are answered at once, by the elements of u.
ReadsTaken(k, a, n) == IF n > 0 THEN [k.pending_rd_q EXCEPT ![a] = 0] ELSE k.pending_rd_q

ReadsAnswered(k, a, n, u) ==
    WithReturned(WithPending(k, ReadsTaken(k, a, n)), k.return_queue \o u)

\* The reads that a read command answers have an entry each in the return queue.
LEMMA AnswerReads ==
    ASSUME NEW k, NEW c, ControllerSound(k, c), NEW a, NEW n \in Nat,
           n > 0 => a \in Address /\ n = k.pending_rd_q[a],
           NEW y, y.addr = a, y.is_write = FALSE,
           NEW u \in Seq(Answer(c)), Len(u) = n, \A i \in 1 .. Len(u) : u[i] = y
    PROVE  Keeps(k, ReadsAnswered(k, a, n, u), c)
<1> DEFINE rd == ReadsTaken(k, a, n)
           rq == k.return_queue \o u
           k1 == WithPending(k, rd)
           k2 == WithReturned(k1, rq)
<1>1. FlightSound(k.pending_rd_q, k.return_queue, c)
  BY DEF ControllerSound
<1>2. FlightSound(rd, k.return_queue, c)
  BY <1>1 DEF FlightSound, ReadsTaken
<1> HIDE DEF rd
<1>3. rq \in Seq(Answer(c))
  BY <1>1, ConcatProperties DEF FlightSound
<1> HIDE DEF rq
<1>4. ControllerSound(k1, c) /\ k1.pending_rd_q = rd /\ k1.return_queue = k.return_queue
  BY <1>2, SetPending
<1> HIDE DEF k1
<1>5. FlightSound(k1.pending_rd_q, rq, c)
  BY <1>2, <1>3, <1>4 DEF FlightSound
<1>6. ControllerSound(k2, c) /\ k2.pending_rd_q = rd /\ k2.return_queue = rq
  BY <1>4, <1>5, SetReturned
<1> HIDE DEF k2
<1>7. ASSUME NEW t \in Transaction
      PROVE  InFlightIn(k2, t) = InFlightIn(k, t)
  <2>1. /\ k.return_queue \in Seq(Answer(c)) /\ k.pending_rd_q \in [Address -> Nat]
    BY <1>1 DEF FlightSound
  <2> DEFINE old == Cardinality(Matches(k.return_queue, t.addr, t.is_write))
             more == IF y.addr = t.addr /\ y.is_write = t.is_write THEN n ELSE 0
  <2>2. Cardinality(Matches(rq, t.addr, t.is_write)) = old + more
    <3>1. Cardinality(Matches(k.return_queue \o u, t.addr, t.is_write)) =
            Cardinality(Matches(k.return_queue, t.addr, t.is_write))
                + IF y.addr = t.addr /\ y.is_write = t.is_write THEN Len(u) ELSE 0
      <4>1. \A v, w : Cardinality(Matches(k.return_queue \o u, v, w)) =
                        Cardinality(Matches(k.return_queue, v, w))
                            + IF y.addr = v /\ y.is_write = w THEN Len(u) ELSE 0
        BY <2>1, MatchesCopies
      <4> QED
        BY <4>1, Zenon
    <3> QED
      BY <3>1, Zenon DEF rq
  <2>3. old \in Nat
    BY <2>1, MatchesFinite
  <2>4. InFlightIn(k2, t) = (old + more) + IF t.is_write THEN 0 ELSE rd[t.addr]
    BY <1>6, <2>2, InFlightSum
  <2>5. InFlightIn(k, t) = old + IF t.is_write THEN 0 ELSE k.pending_rd_q[t.addr]
    BY InFlightSum
  <2>6. t.addr \in Address /\ t.is_write \in BOOLEAN
    BY TransactionFacts
  <2> HIDE DEF old
  <2>7. CASE t.is_write
    <3>1. more = 0
      BY <2>7, Zenon
    <3>2. InFlightIn(k2, t) = (old + more) + 0 /\ InFlightIn(k, t) = old + 0
      BY <2>4, <2>5, <2>7, Zenon
    <3> HIDE DEF more
    <3> QED
      BY <2>3, <3>1, <3>2
  <2>8. CASE ~t.is_write
    <3>1. more = IF a = t.addr THEN n ELSE 0
      BY <2>6, <2>8, Zenon
    <3>2. rd[t.addr] = IF n > 0 /\ a = t.addr THEN 0 ELSE k.pending_rd_q[t.addr]
      BY <2>1, <2>6 DEF rd, ReadsTaken
    <3>3. k.pending_rd_q[t.addr] \in Nat
      BY <2>1, <2>6
    <3> HIDE DEF more
    <3> QED
      BY <2>3, <2>4, <2>5, <2>8, <3>1, <3>2, <3>3
  <2> QED
    BY <2>7, <2>8
<1> QED
  BY <1>6, <1>7 DEF Keeps, ReadsAnswered, k2, k1, rq, rd

\* IssueCommand moves all pending reads of its address to the return queue.
LEMMA IssueSound ==
    ASSUME cfg \in DOMAIN Configs, NEW k, NEW c, ControllerSound(k, c), NEW cmd, Issuable(k.ch, cmd)
    PROVE  Keeps(k, IssueCommand(k, cmd), c)
<1> DEFINE a == cmd.hex_addr
           reads == IF cmd.cmd_type \in ReadType THEN k.pending_rd_q[a] ELSE 0
           unknown == \/ cmd.cmd_type \in ReadType /\ reads = 0
                      \/ cmd.cmd_type \in WriteType /\ a \notin k.pending_wr_q
           answer == [addr |-> a, is_write |-> FALSE, left |-> read_delay(config)]
           u == [i \in 1 .. reads |-> answer]
           wr == IF cmd.cmd_type \in WriteType THEN k.pending_wr_q \ {a} ELSE k.pending_wr_q
           bus == IF IsReadWrite(cmd)
                  THEN Append(k.bus, IF cmd.cmd_type \in ReadType THEN RL(config) ELSE WL(config))
                  ELSE k.bus
           ch == UpdateTimingAndStates(k.ch, cmd)
           k1 == ReadsAnswered(k, a, reads, u)
           k2 == [k1 EXCEPT !.pending_wr_q = wr]
           k3 == [k2 EXCEPT !.bus = bus]
           k4 == [k3 EXCEPT !.ch = ch]
<1>1. CASE unknown
  <2>1. IssueCommand(k, cmd) = [k EXCEPT !.ch = [k.ch EXCEPT !.abort = TRUE]]
    BY <1>1, Zenon DEF IssueCommand
  <2> DEFINE x == [k.ch EXCEPT !.abort = TRUE]
  <2>2. ChannelSound(x)
    <3>1. ChannelSound(k.ch)
      BY DEF ControllerSound
    <3> QED
      BY <3>1, AbortSound, Zenon
  <2> HIDE DEF x
  <2>3. Keeps(k, [k EXCEPT !.ch = x], c)
    BY <2>2, KeepsSetNamed, Zenon
  <2> QED
    BY <2>1, <2>3 DEF x
<1>2. CASE ~unknown
  <2>1. IssueCommand(k, cmd) = k4
    BY <1>2, Zenon DEF IssueCommand, ReadsAnswered, ReadsTaken, WithPending, WithReturned
  <2>2. FlightSound(k.pending_rd_q, k.return_queue, c) /\ ChannelSound(k.ch)
    BY DEF ControllerSound
  <2>3. cmd.cmd_type \in ReadType => a \in Address
    BY DEF Issuable
  <2>4. reads \in Nat /\ (reads > 0 => a \in Address /\ reads = k.pending_rd_q[a])
    BY <2>2, <2>3 DEF FlightSound
  <2>5. reads > 0 => answer \in Answer(c)
    <3>1. read_delay(config) \in Nat
      BY ConfigFacts
    <3>2. reads > 0 => a \in Address /\ a \in config.reads /\ GetChannel(a) = c
      BY <2>2, <2>4 DEF FlightSound
    <3> HIDE DEF reads, a
    <3> QED
      BY <3>1, <3>2, Zenon DEF Answer, Transaction
  <2>6. answer.addr = a /\ answer.is_write = FALSE
    BY SMT
  <2>7. ChannelSound(ch)
    BY <2>2, UpdateSound
  <2> HIDE DEF reads, answer, a, wr, bus, ch
  <2>8. u \in Seq(Answer(c)) /\ Len(u) = reads /\ \A i \in 1 .. Len(u) : u[i] = answer
    BY <2>4, <2>5, CopiesProperties
  <2> HIDE DEF u
  <2>9. Keeps(k, k1, c) /\ ControllerSound(k1, c)
    <3>1. Keeps(k, k1, c)
      BY <2>4, <2>6, <2>8, AnswerReads, Zenon
    <3> QED
      BY <3>1 DEF Keeps
  <2> HIDE DEF k1
  <2>10. Keeps(k1, k2, c) /\ ControllerSound(k2, c)
    <3>1. Keeps(k1, k2, c)
      BY <2>9, KeepsSetNamed, Zenon
    <3> HIDE DEF k2
    <3> QED
      BY <3>1 DEF Keeps
  <2> HIDE DEF k2
  <2>11. Keeps(k2, k3, c) /\ ControllerSound(k3, c)
    <3>1. Keeps(k2, k3, c)
      BY <2>10, KeepsSetNamed, Zenon
    <3> HIDE DEF k3
    <3> QED
      BY <3>1 DEF Keeps
  <2> HIDE DEF k3
  <2>12. Keeps(k3, k4, c)
    BY <2>7, <2>11, KeepsSetNamed, Zenon
  <2> HIDE DEF k4
  <2> QED
    BY <2>1, <2>9, <2>10, <2>11, <2>12, KeepsTransitive, Zenon
<1> HIDE DEF unknown
<1> QED
  BY <1>1, <1>2

\* The second command of a cycle (a row and a column command) loses nothing either.
LEMMA WithSecondSound ==
    ASSUME cfg \in DOMAIN Configs, NEW k, NEW c, ControllerSound(k, c), NEW cmd
    PROVE  Keeps(k, WithSecond(k, cmd), c)
<1> DEFINE get == GetCommandToIssue(k.cq, k.ch)
           second == [k EXCEPT !.cq = get.cq]
<1>1. QueuesSound(get.cq) /\ Issuable(k.ch, get.cmd)
  <2>1. QueuesSound(k.cq)
    BY DEF ControllerSound
  <2> QED
    BY <2>1, GetCommandSound
<1> HIDE DEF get
<1>2. Keeps(k, second, c) /\ second.ch = k.ch
  <2>1. Keeps(k, second, c)
    BY <1>1, KeepsSetNamed, Zenon
  <2>2. second.ch = k.ch
    BY SMT DEF ControllerSound, IsController, ControllerField
  <2> QED
    BY <2>1, <2>2
<1>3. WithSecond(k, cmd) \in {k, second, IssueCommand(second, get.cmd)}
  BY Zenon DEF WithSecond, SecondCommand, get
<1> HIDE DEF second
<1>4. Keeps(k, IssueCommand(second, get.cmd), c)
  <2>1. Keeps(second, IssueCommand(second, get.cmd), c)
    BY <1>1, <1>2, IssueSound DEF Keeps
  <2> QED
    BY <1>2, <2>1, KeepsTransitive, Zenon
<1> QED
  BY <1>2, <1>3, <1>4, KeepsItself

\* Entering and leaving self refresh loses nothing in flight.
LEMMA SelfRefreshSound ==
    ASSUME cfg \in DOMAIN Configs, NEW k, NEW c, ControllerSound(k, c)
    PROVE  Keeps(k, SelfRefresh(k), c)
<1> DEFINE wake(r)  == k.ch.is_sref[r] /\ ~k.cq.rank_q_empty[r]
           enter(r) == /\ ~k.ch.is_sref[r] /\ k.cq.rank_q_empty[r]
                       /\ k.ch.idle_cycles[r] >= config.sref_threshold
           cmd(r)   == CASE wake(r)  -> GetReadyCommand(k.ch, RankCommand("SREF_EXIT", r))
                         [] enter(r) -> GetReadyCommand(k.ch, RankCommand("SREF_ENTER", r))
                         [] OTHER    -> NoCommand
           ready    == {r \in Rank : IsValid(cmd(r))}
<1>1. SelfRefresh(k) = IF ready = {} THEN k ELSE IssueCommand(k, cmd(Min(ready)))
  BY Zenon DEF SelfRefresh
<1>2. ASSUME NEW r
      PROVE  Issuable(k.ch, cmd(r))
  <2>1. ASSUME NEW type \in {"SREF_ENTER", "SREF_EXIT"}
        PROVE  Issuable(k.ch, GetReadyCommand(k.ch, RankCommand(type, r)))
    <3> DEFINE x == RankCommand(type, r)
    <3>1. /\ x = Command(x.cmd_type, x.bank, x.row, x.column, x.hex_addr)
          /\ x.cmd_type \in RefreshType \cup {"SREF_ENTER", "SREF_EXIT"}
      BY DEF RankCommand, Command
    <3> HIDE DEF x
    <3>2. GetReadyCommand(k.ch, x).cmd_type \notin ReadType \cup WriteType \cup {"ACTIVATE"}
      BY <3>1, ReadyOfOther
    <3> QED
      BY <3>2, OtherIssuable, Zenon DEF x
  <2>2. Issuable(k.ch, NoCommand)
    BY DEF Issuable, NoCommand, ReadType, WriteType
  <2>3. Issuable(k.ch, GetReadyCommand(k.ch, RankCommand("SREF_EXIT", r)))
    BY <2>1
  <2>4. Issuable(k.ch, GetReadyCommand(k.ch, RankCommand("SREF_ENTER", r)))
    BY <2>1
  <2> HIDE DEF wake, enter
  <2> QED
    BY <2>2, <2>3, <2>4, Zenon
<1> HIDE DEF cmd, ready
<1> QED
  BY <1>1, <1>2, IssueSound, KeepsItself

\* TransToCommand makes a command that the queue of its bank may hold.
LEMMA TransToCommandSound ==
    ASSUME cfg \in DOMAIN Configs, NEW t \in Transaction
    PROVE  TransToCommand(t) \in QueuedCommand(GetQueueIndex(TransToCommand(t).bank))
<1> DEFINE m == AddressMapping(t.addr)
           type == IF t.is_write THEN "WRITE" ELSE "READ"
           typed == IF config.row_buf_policy = "OPEN_PAGE" THEN type
                    ELSE IF t.is_write THEN "WRITE_PRECHARGE" ELSE "READ_PRECHARGE"
<1>1. t.addr \in Address
  BY TransactionFacts
<1>2. m.bank \in Bank /\ m.row \in Nat /\ m.column \in Nat
  BY <1>1, MappingFacts
<1>3. typed \in ReadType \cup WriteType
  BY Zenon DEF ReadType, WriteType
<1>4. TransToCommand(t) = Command(typed, m.bank, m.row, m.column, t.addr)
  BY Zenon DEF TransToCommand
<1> HIDE DEF m, typed
<1> QED
  BY <1>1, <1>2, <1>3, <1>4 DEF Command, QueuedCommand

\* ScheduleTransaction moves a transaction to the command queues; it stays in flight.
LEMMA ScheduleSound ==
    ASSUME cfg \in DOMAIN Configs, NEW k, NEW c, ControllerSound(k, c)
    PROVE  Keeps(k, ScheduleTransaction(k), c)
<1> DEFINE draining == WriteDraining(k)
           name == IF config.unified_queue THEN "unified_queue"
                   ELSE IF draining > 0 THEN "write_buffer" ELSE "read_queue"
           queue == k[name]
           open == {i \in DOMAIN queue : WillAcceptCommand(k.cq, AddressMapping(queue[i].addr).bank)}
           t == queue[Min(open)]
           separate == ~config.unified_queue /\ t.is_write
           left == IF separate THEN draining - 1 ELSE draining
           k1 == [k EXCEPT !.write_draining = left]
           k2 == [k1 EXCEPT !.cq = AddCommand(k.cq, TransToCommand(t))]
           k3 == [k2 EXCEPT ![name] = Erase(queue, Min(open))]
<1>1. name \in {"read_queue", "write_buffer", "unified_queue"}
  BY Zenon
<1>2. queue \in Seq(Transaction)
  <2> HIDE DEF name
  <2> QED
    BY <1>1 DEF ControllerSound, TransactionsSound
<1>3. \/ \E x : ScheduleTransaction(k) = [k EXCEPT !.write_draining = x]
      \/ open # {} /\ ScheduleTransaction(k) = k3
  <2>1. CASE open = {}
    BY <2>1, Zenon DEF ScheduleTransaction
  <2>2. CASE open # {} /\ separate /\ k.pending_rd_q[t.addr] > 0
    BY <2>2, Zenon DEF ScheduleTransaction
  <2>3. CASE open # {} /\ ~ (separate /\ k.pending_rd_q[t.addr] > 0)
    BY <2>3, Zenon DEF ScheduleTransaction
  <2> QED
    BY <2>1, <2>2, <2>3, Zenon
<1>4. CASE \E x : ScheduleTransaction(k) = [k EXCEPT !.write_draining = x]
  <2>1. PICK x : ScheduleTransaction(k) = [k EXCEPT !.write_draining = x]
    BY <1>4
  <2>2. Keeps(k, [k EXCEPT !.write_draining = x], c)
    BY KeepsSetNamed, Zenon
  <2> QED
    BY <2>1, <2>2
<1>5. CASE open # {} /\ ScheduleTransaction(k) = k3
  <2> HIDE DEF name, left
  <2>1. DOMAIN queue = 1 .. Len(queue) /\ Len(queue) \in Nat
    BY <1>2
  <2>2. open \in SUBSET Nat /\ open \subseteq 1 .. Len(queue)
    BY <2>1
  <2> HIDE DEF open
  <2>3. Min(open) \in 1 .. Len(queue)
    BY <1>5, <2>2, MinProperties
  <2>4. t \in Transaction
    BY <1>2, <2>3
  <2>5. Erase(queue, Min(open)) \in Seq(Transaction)
    <3> HIDE DEF queue
    <3> QED
      BY <1>2, <2>3, EraseProperties
  <2> DEFINE cq == AddCommand(k.cq, TransToCommand(t))
             rest == Erase(queue, Min(open))
  <2>6. QueuesSound(cq)
    <3>1. QueuesSound(k.cq)
      BY DEF ControllerSound
    <3> HIDE DEF t
    <3> QED
      BY <2>4, <3>1, TransToCommandSound, AddCommandSound, Zenon
  <2> HIDE DEF t, cq, rest, k1, k2
  <2>7. Keeps(k, k1, c) /\ ControllerSound(k1, c)
    <3>1. Keeps(k, k1, c)
      BY KeepsSetNamed, Zenon DEF k1
    <3> QED
      BY <3>1 DEF Keeps
  <2>8. Keeps(k1, k2, c) /\ ControllerSound(k2, c)
    <3>1. k2 = [k1 EXCEPT !.cq = cq]
      BY DEF k2, cq
    <3>2. Keeps(k1, [k1 EXCEPT !.cq = cq], c)
      BY <2>6, <2>7, KeepsSetNamed, Zenon
    <3> QED
      BY <3>1, <3>2 DEF Keeps
  <2>9. Keeps(k2, k3, c)
    <3>1. k3 = [k2 EXCEPT ![name] = rest]
      BY DEF rest
    <3>2. /\ name \in ControllerField /\ name \notin {"pending_rd_q", "return_queue"}
          /\ name # "ch" /\ name # "cq"
      BY <1>1 DEF ControllerField
    <3>3. rest \in Seq(Transaction)
      BY <2>5 DEF rest
    <3>4. Keeps(k2, [k2 EXCEPT ![name] = rest], c)
      BY <2>8, <3>2, <3>3, KeepsSet, Zenon
    <3> QED
      BY <3>1, <3>4
  <2> HIDE DEF k3
  <2> QED
    BY <1>5, <2>7, <2>8, <2>9, KeepsTransitive, Zenon
<1> QED
  BY <1>3, <1>4, <1>5, Zenon

\* When a cycle has passed, the answers are the same, and nearer.
LEMMA NearingAnswers ==
    ASSUME NEW c, NEW rq \in Seq(Answer(c))
    PROVE  /\ Nearing(rq) \in Seq(Answer(c))
           /\ \A a, w : Matches(Nearing(rq), a, w) = Matches(rq, a, w)
<1>1. DOMAIN rq = 1 .. Len(rq) /\ Len(rq) \in Nat
  OBVIOUS
<1>2. ASSUME NEW x \in Answer(c)
      PROVE  /\ [x EXCEPT !.left = Nearer(x.left)] \in Answer(c)
             /\ [x EXCEPT !.left = Nearer(x.left)].addr = x.addr
             /\ [x EXCEPT !.left = Nearer(x.left)].is_write = x.is_write
  <2>1. x \in [addr : Address, is_write : BOOLEAN, left : Nat]
    BY DEF Answer
  <2>2. Nearer(x.left) \in Nat
    BY <2>1 DEF Nearer
  <2> DEFINE new == [x EXCEPT !.left = Nearer(x.left)]
  <2>3. /\ new \in [addr : Address, is_write : BOOLEAN, left : Nat]
        /\ new.addr = x.addr /\ new.is_write = x.is_write
    BY <2>1, <2>2
  <2> HIDE DEF new
  <2>4. new \in Answer(c)
    BY <2>3 DEF Answer
  <2> QED
    BY <2>3, <2>4 DEF new
<1>3. \A i \in 1 .. Len(rq) : /\ Nearing(rq)[i] \in Answer(c)
                              /\ Nearing(rq)[i].addr = rq[i].addr
                              /\ Nearing(rq)[i].is_write = rq[i].is_write
  <2> SUFFICES ASSUME NEW i \in 1 .. Len(rq)
               PROVE  /\ Nearing(rq)[i] \in Answer(c)
                      /\ Nearing(rq)[i].addr = rq[i].addr
                      /\ Nearing(rq)[i].is_write = rq[i].is_write
    OBVIOUS
  <2>1. rq[i] \in Answer(c)
    OBVIOUS
  <2>2. Nearing(rq)[i] = [rq[i] EXCEPT !.left = Nearer(rq[i].left)]
    BY <1>1, Zenon DEF Nearing
  <2> QED
    BY <1>2, <2>1, <2>2, Zenon
<1>4. Nearing(rq) = [i \in 1 .. Len(rq) |-> Nearing(rq)[i]]
  BY <1>1 DEF Nearing
<1>5. Nearing(rq) \in [1 .. Len(rq) -> Answer(c)]
  BY <1>3, <1>4, Zenon
<1>6. Nearing(rq) \in Seq(Answer(c)) /\ DOMAIN Nearing(rq) = 1 .. Len(rq)
  BY <1>1, <1>5
<1> QED
  BY <1>1, <1>3, <1>6, Zenon DEF Matches

\* The passing of a cycle loses nothing in flight.
LEMMA ElapsedSound ==
    ASSUME cfg \in DOMAIN Configs, NEW k, NEW c, ControllerSound(k, c)
    PROVE  Keeps(k, Elapsed(k), c)
<1> DEFINE ahead == SelectSeq(k.bus, LAMBDA start : start + config.burst_cycle > 1)
           ch == ChannelElapsed(k.ch)
           rq == Nearing(k.return_queue)
           bus == [i \in DOMAIN ahead |-> ahead[i] - 1]
           k1 == [k EXCEPT !.ch = ch]
           k2 == WithReturned(k1, rq)
           k3 == [k2 EXCEPT !.bus = bus]
<1>1. Elapsed(k) = k3
  BY Zenon DEF Elapsed, WithReturned
<1>2. ChannelSound(ch)
  BY ChannelElapsedSound DEF ControllerSound
<1> HIDE DEF ch, bus
<1>3. Keeps(k, k1, c) /\ ControllerSound(k1, c)
  <2>1. Keeps(k, k1, c)
    BY <1>2, KeepsSetNamed, Zenon
  <2> HIDE DEF k1
  <2> QED
    BY <2>1 DEF Keeps
<1>4. k1.pending_rd_q = k.pending_rd_q /\ k1.return_queue = k.return_queue
  BY SMT DEF ControllerSound, IsController, ControllerField
<1> HIDE DEF k1
<1>5. FlightSound(k.pending_rd_q, k.return_queue, c)
  BY DEF ControllerSound
<1>6. /\ rq \in Seq(Answer(c))
      /\ \A a, w : Matches(rq, a, w) = Matches(k.return_queue, a, w)
  BY <1>5, NearingAnswers DEF FlightSound
<1> HIDE DEF rq
<1>7. FlightSound(k1.pending_rd_q, rq, c)
  BY <1>4, <1>5, <1>6 DEF FlightSound
<1>8. ControllerSound(k2, c) /\ k2.pending_rd_q = k1.pending_rd_q /\ k2.return_queue = rq
  BY <1>3, <1>7, SetReturned
<1> HIDE DEF k2
<1>9. ASSUME NEW t \in Transaction
      PROVE  InFlightIn(k2, t) = InFlightIn(k, t)
  BY <1>4, <1>6, <1>8, InFlightSum, Zenon
<1>10. Keeps(k, k2, c)
  BY <1>8, <1>9 DEF Keeps
<1>11. Keeps(k2, k3, c)
  BY <1>8, KeepsSetNamed, Zenon
<1> HIDE DEF k3
<1> QED
  BY <1>1, <1>10, <1>11, KeepsTransitive, Zenon

-----------------------------------------------------------------------------
(* A cycle, and what the client does. *)

\* Issuing the command of a cycle loses nothing in flight.
LEMMA IssuedSound ==
    ASSUME cfg \in DOMAIN Configs, NEW k, NEW c, ControllerSound(k, c), NEW cmd, Issuable(k.ch, cmd)
    PROVE  Keeps(k, Issued(k, cmd), c)
<1> DEFINE first == IssueCommand(k, cmd)
<1>1. Keeps(k, first, c)
  BY IssueSound
<1> HIDE DEF first
<1>2. Keeps(first, WithSecond(first, cmd), c)
  BY <1>1, WithSecondSound DEF Keeps
<1>3. Issued(k, cmd) \in {k, WithSecond(first, cmd)}
  BY Zenon DEF Issued, first
<1> QED
  BY <1>1, <1>2, <1>3, KeepsTransitive, KeepsItself

\* ClockTick of a controller loses nothing and doubles nothing.
LEMMA TickSound ==
    ASSUME cfg \in DOMAIN Configs, NEW k, NEW c, ControllerSound(k, c)
    PROVE  Keeps(k, ControllerTick(k), c)
<1> DEFINE k1 == [k EXCEPT !.ch = RefreshClockTick(k.ch)]
           refresh == RefreshOrNone(k1)
           get == RefreshOrQueued(k1, refresh)
           k2 == [k1 EXCEPT !.cq = get.cq]
           k3 == Issued(k2, get.cmd)
           k4 == [k3 EXCEPT !.ch = IdleCounted(k3.ch)]
           k5 == Slept(k4, IsValid(get.cmd))
           k6 == ScheduleTransaction(k5)
           k7 == Elapsed(k6)
<1>1. ControllerTick(k) = k7
  BY Zenon DEF ControllerTick, AfterChoice
<1> HIDE DEF k1, refresh, get, k2, k3, k4, k5, k6, k7
<1>2. Keeps(k, k1, c) /\ ControllerSound(k1, c)
  <2> DEFINE x == RefreshClockTick(k.ch)
  <2>1. ChannelSound(x)
    BY RefreshClockTickSound DEF ControllerSound
  <2> HIDE DEF x
  <2>2. Keeps(k, [k EXCEPT !.ch = x], c)
    BY <2>1, KeepsSetNamed, Zenon
  <2>3. Keeps(k, k1, c)
    BY <2>2 DEF x, k1
  <2> QED
    BY <2>3 DEF Keeps
<1>3. ChannelSound(k1.ch) /\ QueuesSound(k1.cq)
  BY <1>2 DEF ControllerSound
<1>4. QueuesSound(refresh.cq) /\ Issuable(k1.ch, refresh.cmd)
  <2>1. CASE k1.ch.refresh_q = <<>>
    <3>1. refresh = [cmd |-> NoCommand, cq |-> k1.cq]
      BY <2>1, Zenon DEF refresh, RefreshOrNone
    <3>2. refresh.cmd = NoCommand /\ refresh.cq = k1.cq
      BY <3>1
    <3>3. Issuable(k1.ch, NoCommand)
      BY DEF Issuable, NoCommand, ReadType, WriteType
    <3> QED
      BY <1>3, <3>2, <3>3
  <2>2. CASE k1.ch.refresh_q # <<>>
    <3>1. refresh = FinishRefresh(k1.cq, k1.ch)
      BY <2>2, Zenon DEF refresh, RefreshOrNone
    <3> QED
      BY <1>3, <2>2, <3>1, FinishRefreshSound, Zenon
  <2> QED
    BY <2>1, <2>2
<1>5. QueuesSound(get.cq) /\ Issuable(k1.ch, get.cmd)
  <2>1. get \in {refresh, GetCommandToIssue(refresh.cq, k1.ch)}
    BY Zenon DEF get, RefreshOrQueued
  <2>2. /\ QueuesSound(GetCommandToIssue(refresh.cq, k1.ch).cq)
        /\ Issuable(k1.ch, GetCommandToIssue(refresh.cq, k1.ch).cmd)
    BY <1>4, GetCommandSound
  <2> QED
    BY <1>4, <2>1, <2>2, Zenon
<1>6. Keeps(k1, k2, c) /\ ControllerSound(k2, c) /\ k2.ch = k1.ch
  <2> DEFINE x == get.cq
  <2>1. QueuesSound(x)
    BY <1>5
  <2> HIDE DEF x
  <2>2. Keeps(k1, [k1 EXCEPT !.cq = x], c)
    BY <1>2, <2>1, KeepsSetNamed, Zenon
  <2>3. Keeps(k1, k2, c)
    BY <2>2 DEF x, k2
  <2>4. k2.ch = k1.ch
    BY <1>2, SMT DEF k2, ControllerSound, IsController, ControllerField
  <2> QED
    BY <2>3, <2>4 DEF Keeps
<1>7. Keeps(k2, k3, c) /\ ControllerSound(k3, c)
  <2>1. Keeps(k2, k3, c)
    BY <1>5, <1>6, IssuedSound, Zenon DEF k3
  <2> QED
    BY <2>1 DEF Keeps
<1>8. Keeps(k3, k4, c) /\ ControllerSound(k4, c)
  <2> DEFINE x == IdleCounted(k3.ch)
  <2>1. ChannelSound(x)
    BY <1>7, IdleCountedSound DEF ControllerSound
  <2> HIDE DEF x
  <2>2. Keeps(k3, [k3 EXCEPT !.ch = x], c)
    BY <1>7, <2>1, KeepsSetNamed, Zenon
  <2>3. Keeps(k3, k4, c)
    BY <2>2 DEF x, k4
  <2> QED
    BY <2>3 DEF Keeps
<1>9. Keeps(k4, k5, c) /\ ControllerSound(k5, c)
  <2>1. k5 \in {k4, SelfRefresh(k4)}
    BY Zenon DEF k5, Slept
  <2>2. Keeps(k4, k5, c)
    BY <1>8, <2>1, SelfRefreshSound, KeepsItself
  <2> QED
    BY <2>2 DEF Keeps
<1>10. Keeps(k5, k6, c) /\ ControllerSound(k6, c)
  <2>1. Keeps(k5, k6, c)
    BY <1>9, ScheduleSound DEF k6
  <2> QED
    BY <2>1 DEF Keeps
<1>11. Keeps(k6, k7, c)
  BY <1>10, ElapsedSound DEF k7
<1> QED
  BY <1>1, <1>2, <1>6, <1>7, <1>8, <1>9, <1>10, <1>11, KeepsTransitive, Zenon

\* One more of t is in flight.
Adds(k, new, t, c) ==
    /\ ControllerSound(new, c)
    /\ \A u \in Transaction : InFlightIn(new, u) = InFlightIn(k, u) + IF u = t THEN 1 ELSE 0

\* A transaction is in flight a natural number of times.
LEMMA InFlightNat ==
    ASSUME NEW k, NEW c, ControllerSound(k, c), NEW t \in Transaction
    PROVE  InFlightIn(k, t) \in Nat
<1>1. k.return_queue \in Seq(Answer(c)) /\ k.pending_rd_q \in [Address -> Nat]
  BY DEF ControllerSound, FlightSound
<1>2. t.addr \in Address
  BY TransactionFacts
<1> DEFINE n == Cardinality(Matches(k.return_queue, t.addr, t.is_write))
           m == IF t.is_write THEN 0 ELSE k.pending_rd_q[t.addr]
<1>3. n \in Nat
  BY <1>1, MatchesFinite
<1>4. m \in Nat
  BY <1>1, <1>2
<1>5. InFlightIn(k, t) = n + m
  BY InFlightSum
<1> HIDE DEF n, m
<1> QED
  BY <1>3, <1>4, <1>5

\* An entry added to the return queue is one more in flight.
LEMMA ReturnedSound ==
    ASSUME NEW k, NEW c, ControllerSound(k, c), NEW t \in Transaction, GetChannel(t.addr) = c,
           NEW left \in Nat
    PROVE  Adds(k, Returned(k, t, left), t, c)
<1> DEFINE y == [addr |-> t.addr, is_write |-> t.is_write, left |-> left]
           rq == Append(k.return_queue, y)
           new == WithReturned(k, rq)
<1>1. Returned(k, t, left) = new
  BY Zenon DEF Returned, WithReturned
<1>2. FlightSound(k.pending_rd_q, k.return_queue, c)
  BY DEF ControllerSound
<1>3. y \in Answer(c) /\ y.addr = t.addr /\ y.is_write = t.is_write
  <2>1. /\ t = [addr |-> t.addr, is_write |-> t.is_write]
        /\ t.addr \in Address /\ t.is_write \in BOOLEAN
    BY TransactionFacts
  <2>2. y \in [addr : Address, is_write : BOOLEAN, left : Nat]
    BY <2>1
  <2>3. y.addr = t.addr /\ y.is_write = t.is_write
    BY Zenon
  <2>4. [addr |-> y.addr, is_write |-> y.is_write] \in Transaction
    BY <2>1, <2>3, Zenon
  <2> HIDE DEF y
  <2> QED
    BY <2>2, <2>3, <2>4, Zenon DEF Answer
<1> HIDE DEF y
<1>4. /\ rq \in Seq(Answer(c))
      /\ \A a, w : Cardinality(Matches(rq, a, w)) =
                    Cardinality(Matches(k.return_queue, a, w))
                        + IF y.addr = a /\ y.is_write = w THEN 1 ELSE 0
  BY <1>2, <1>3, MatchesAppend DEF FlightSound
<1> HIDE DEF rq
<1>5. FlightSound(k.pending_rd_q, rq, c)
  BY <1>2, <1>4 DEF FlightSound
<1>6. ControllerSound(new, c) /\ new.pending_rd_q = k.pending_rd_q /\ new.return_queue = rq
  BY <1>5, SetReturned
<1> HIDE DEF new
<1>7. ASSUME NEW u \in Transaction
      PROVE  InFlightIn(new, u) = InFlightIn(k, u) + IF u = t THEN 1 ELSE 0
  <2> DEFINE n == Cardinality(Matches(k.return_queue, u.addr, u.is_write))
             one == IF y.addr = u.addr /\ y.is_write = u.is_write THEN 1 ELSE 0
             m == IF u.is_write THEN 0 ELSE k.pending_rd_q[u.addr]
  <2>1. InFlightIn(new, u) = Cardinality(Matches(rq, u.addr, u.is_write)) + m
    BY <1>6, InFlightSum, Zenon
  <2>2. Cardinality(Matches(rq, u.addr, u.is_write)) = n + one
    BY <1>4, Zenon
  <2>3. InFlightIn(k, u) = n + m
    BY InFlightSum, Zenon
  <2>4. one = IF u = t THEN 1 ELSE 0
    <3>1. /\ t = [addr |-> t.addr, is_write |-> t.is_write]
          /\ u = [addr |-> u.addr, is_write |-> u.is_write]
      BY TransactionFacts
    <3>2. u = t <=> y.addr = u.addr /\ y.is_write = u.is_write
      BY <1>3, <3>1, Zenon
    <3> QED
      BY <3>2, Zenon
  <2>5. n \in Nat /\ m \in Nat
    <3>1. n \in Nat
      BY <1>2, MatchesFinite DEF FlightSound
    <3>2. u.addr \in Address
      BY TransactionFacts
    <3>3. m \in Nat
      BY <1>2, <3>2 DEF FlightSound
    <3> QED
      BY <3>1, <3>3, Zenon
  <2>6. InFlightIn(new, u) = (n + one) + m
    BY <2>1, <2>2, Zenon
  <2>7. one \in Nat
    OBVIOUS
  <2> HIDE DEF n, m, one
  <2>8. InFlightIn(new, u) = InFlightIn(k, u) + one
    BY <2>3, <2>5, <2>6, <2>7
  <2> QED
    BY <2>4, <2>8, Zenon
<1> QED
  BY <1>1, <1>6, <1>7, Zenon DEF Adds

\* A place in the transaction queues is not what makes a transaction in flight.
LEMMA EnqueuedSound ==
    ASSUME NEW k, NEW c, ControllerSound(k, c), NEW t \in Transaction,
           NEW name \in {"read_queue", "write_buffer"}
    PROVE  Keeps(k, Enqueued(k, name, t), c)
<1> DEFINE field == IF config.unified_queue THEN "unified_queue" ELSE name
           rest == Append(k[field], t)
<1>1. field \in {"read_queue", "write_buffer", "unified_queue"}
  BY Zenon
<1>2. Enqueued(k, name, t) = [k EXCEPT ![field] = rest]
  BY Zenon DEF Enqueued
<1> HIDE DEF field
<1>3. k[field] \in Seq(Transaction)
  BY <1>1 DEF ControllerSound, TransactionsSound
<1>4. rest \in Seq(Transaction)
  BY <1>3, AppendProperties
<1> HIDE DEF rest
<1>5. /\ field \in ControllerField /\ field \notin {"pending_rd_q", "return_queue"}
      /\ field # "ch" /\ field # "cq"
  BY <1>1 DEF ControllerField
<1>6. Keeps(k, [k EXCEPT ![field] = rest], c)
  BY <1>4, <1>5, KeepsSet, Zenon
<1> QED
  BY <1>2, <1>6

\* AddTransaction: whether it is merged, served from the write buffer or
\* queued, exactly the transaction comes into flight.
LEMMA AddSound ==
    ASSUME cfg \in DOMAIN Configs, NEW k, NEW c, ControllerSound(k, c),
           NEW t \in Transaction, GetChannel(t.addr) = c
    PROVE  Adds(k, ControllerAdd(k, t), t, c)
<1>1. t.is_write \in BOOLEAN /\ t.addr \in Address /\ (~t.is_write => t.addr \in config.reads)
  BY TransactionFacts
<1>2. ASSUME NEW k1, Keeps(k, k1, c)
      PROVE  Adds(k, Returned(k1, t, 1), t, c)
  <2>1. ControllerSound(k1, c) /\ \A u \in Transaction : InFlightIn(k1, u) = InFlightIn(k, u)
    BY <1>2 DEF Keeps
  <2>2. Adds(k1, Returned(k1, t, 1), t, c)
    BY <2>1, ReturnedSound, Zenon
  <2> QED
    BY <2>1, <2>2, Zenon DEF Adds
<1>3. CASE t.is_write
  <2> DEFINE new == [k EXCEPT !.pending_wr_q = k.pending_wr_q \cup {t.addr}]
             put == Enqueued(new, "write_buffer", t)
  <2>1. ControllerAdd(k, t) \in {Returned(k, t, 1), Returned(put, t, 1)}
    BY <1>3, Zenon DEF ControllerAdd
  <2>2. Keeps(k, new, c) /\ ControllerSound(new, c)
    <3> DEFINE x == k.pending_wr_q \cup {t.addr}
    <3> HIDE DEF x
    <3>1. Keeps(k, [k EXCEPT !.pending_wr_q = x], c)
      BY KeepsSetNamed, Zenon
    <3>2. Keeps(k, new, c)
      BY <3>1 DEF x
    <3> HIDE DEF new
    <3> QED
      BY <3>2 DEF Keeps
  <2> HIDE DEF new
  <2>3. Keeps(new, put, c)
    BY <2>2, EnqueuedSound
  <2> HIDE DEF put
  <2>4. Keeps(k, put, c) /\ Keeps(k, k, c)
    BY <2>2, <2>3, KeepsTransitive, KeepsItself
  <2> QED
    BY <1>2, <2>1, <2>4, Zenon
<1>4. CASE ~t.is_write /\ t.addr \in k.pending_wr_q
  <2>1. ControllerAdd(k, t) = Returned(k, t, 1)
    BY <1>4, Zenon DEF ControllerAdd
  <2> QED
    BY <1>2, <2>1, KeepsItself, Zenon
<1>5. CASE ~t.is_write /\ t.addr \notin k.pending_wr_q
  <2> DEFINE rd == [k.pending_rd_q EXCEPT ![t.addr] = k.pending_rd_q[t.addr] + 1]
             new == WithPending(k, rd)
             put == Enqueued(new, "read_queue", t)
  <2>1. ControllerAdd(k, t) \in {new, put}
    BY <1>5, Zenon DEF ControllerAdd, WithPending
  <2>2. FlightSound(k.pending_rd_q, k.return_queue, c)
    BY DEF ControllerSound
  <2>3. /\ FlightSound(rd, k.return_queue, c)
        /\ \A a \in Address : rd[a] = k.pending_rd_q[a] + IF a = t.addr THEN 1 ELSE 0
    BY <1>1, <1>5, <2>2 DEF FlightSound
  <2> HIDE DEF rd
  <2>4. ControllerSound(new, c) /\ new.pending_rd_q = rd /\ new.return_queue = k.return_queue
    BY <2>3, SetPending
  <2> HIDE DEF new
  <2>5. ASSUME NEW u \in Transaction
        PROVE  InFlightIn(new, u) = InFlightIn(k, u) + IF u = t THEN 1 ELSE 0
    <3> DEFINE n == Cardinality(Matches(k.return_queue, u.addr, u.is_write))
               one == IF u = t THEN 1 ELSE 0
    <3>1. n \in Nat
      BY <2>2, MatchesFinite DEF FlightSound
    <3>2. InFlightIn(new, u) = n + IF u.is_write THEN 0 ELSE rd[u.addr]
      BY <2>4, InFlightSum, Zenon
    <3>3. InFlightIn(k, u) = n + IF u.is_write THEN 0 ELSE k.pending_rd_q[u.addr]
      BY InFlightSum, Zenon
    <3>4. /\ t = [addr |-> t.addr, is_write |-> t.is_write]
          /\ u = [addr |-> u.addr, is_write |-> u.is_write]
          /\ u.is_write \in BOOLEAN /\ u.addr \in Address
      BY TransactionFacts
    <3>5. CASE u.is_write
      <4>1. u # t
        BY <1>5, <3>5, Zenon
      <4>2. InFlightIn(new, u) = n + 0 /\ InFlightIn(k, u) = n + 0 /\ one = 0
        BY <3>2, <3>3, <3>5, <4>1, Zenon
      <4> HIDE DEF n, one
      <4>3. InFlightIn(new, u) = InFlightIn(k, u) + one
        BY <3>1, <4>2
      <4> QED
        BY <4>3 DEF one
    <3>6. CASE ~u.is_write
      <4>1. u = t <=> u.addr = t.addr
        BY <1>1, <1>5, <3>4, <3>6, Zenon
      <4>2. rd[u.addr] = k.pending_rd_q[u.addr] + one
        BY <2>3, <3>4, <4>1, Zenon
      <4>3. k.pending_rd_q[u.addr] \in Nat /\ one \in Nat
        BY <2>2, <3>4 DEF FlightSound
      <4>4. InFlightIn(new, u) = n + rd[u.addr] /\ InFlightIn(k, u) = n + k.pending_rd_q[u.addr]
        BY <3>2, <3>3, <3>6, Zenon
      <4> HIDE DEF n, one
      <4>5. InFlightIn(new, u) = InFlightIn(k, u) + one
        BY <3>1, <4>2, <4>3, <4>4
      <4> QED
        BY <4>5 DEF one
    <3> QED
      BY <3>5, <3>6, Zenon
  <2>6. Adds(k, new, t, c)
    BY <2>4, <2>5 DEF Adds
  <2>7. Keeps(new, put, c)
    BY <2>4, EnqueuedSound
  <2> HIDE DEF put
  <2>8. Adds(k, put, t, c)
    BY <2>6, <2>7, Zenon DEF Adds, Keeps
  <2> QED
    BY <2>1, <2>6, <2>8, Zenon
<1> QED
  BY <1>1, <1>3, <1>4, <1>5

\* DoneTrans is a place of the return queue, or 0.
LEMMA DoneIndex ==
    ASSUME NEW k, NEW c, ControllerSound(k, c)
    PROVE  /\ DoneTrans(k) \in Nat
           /\ DoneTrans(k) # 0 => DoneTrans(k) \in 1 .. Len(k.return_queue)
<1> DEFINE done == {i \in DOMAIN k.return_queue : k.return_queue[i].left = 0}
<1>1. k.return_queue \in Seq(Answer(c))
  BY DEF ControllerSound, FlightSound
<1>2. DOMAIN k.return_queue = 1 .. Len(k.return_queue) /\ Len(k.return_queue) \in Nat
  BY <1>1
<1>3. done \in SUBSET Nat /\ done \subseteq 1 .. Len(k.return_queue)
  BY <1>2
<1>4. DoneTrans(k) = IF done = {} THEN 0 ELSE Min(done)
  BY Zenon DEF DoneTrans
<1> HIDE DEF done
<1>5. done # {} => Min(done) \in done
  BY <1>3, MinProperties
<1>6. CASE done = {}
  <2>1. DoneTrans(k) = 0
    BY <1>4, <1>6, Zenon
  <2> QED
    BY <2>1
<1>7. CASE done # {}
  <2>1. DoneTrans(k) \in done
    BY <1>4, <1>5, <1>7, Zenon
  <2> QED
    BY <1>3, <2>1, Zenon
<1> QED
  BY <1>6, <1>7

\* ReturnDoneTrans takes exactly the reported transaction out of flight.
LEMMA RemoveSound ==
    ASSUME NEW k, NEW c, ControllerSound(k, c), NEW i \in 1 .. Len(k.return_queue)
    PROVE  \E t \in Transaction :
              /\ GetChannel(t.addr) = c
              /\ ControllerSound(WithReturned(k, Erase(k.return_queue, i)), c)
              /\ Adds(WithReturned(k, Erase(k.return_queue, i)), k, t, c)
<1> DEFINE y == k.return_queue[i]
           t == [addr |-> y.addr, is_write |-> y.is_write]
           rq == Erase(k.return_queue, i)
           new == WithReturned(k, rq)
<1>1. FlightSound(k.pending_rd_q, k.return_queue, c)
  BY DEF ControllerSound
<1>2. k.return_queue \in Seq(Answer(c)) /\ y \in Answer(c)
  BY <1>1 DEF FlightSound
<1>3. t \in Transaction /\ GetChannel(t.addr) = c
  BY <1>2 DEF Answer
<1>4. t.addr = y.addr /\ t.is_write = y.is_write
  BY Zenon
<1>5. rq \in Seq(Answer(c))
  BY <1>2, EraseProperties, Zenon
<1>6. \A a, w : Cardinality(Matches(rq, a, w)) =
                    Cardinality(Matches(k.return_queue, a, w))
                        - IF y.addr = a /\ y.is_write = w THEN 1 ELSE 0
  BY <1>2, MatchesRemove, Zenon
<1> HIDE DEF y, t, rq
<1>7. FlightSound(k.pending_rd_q, rq, c)
  BY <1>1, <1>5, Zenon DEF FlightSound
<1>8. ControllerSound(new, c) /\ new.pending_rd_q = k.pending_rd_q /\ new.return_queue = rq
  BY <1>7, SetReturned
<1> HIDE DEF new
<1>9. ASSUME NEW u \in Transaction
      PROVE  InFlightIn(k, u) = InFlightIn(new, u) + IF u = t THEN 1 ELSE 0
  <2> DEFINE n == Cardinality(Matches(k.return_queue, u.addr, u.is_write))
             n1 == Cardinality(Matches(rq, u.addr, u.is_write))
             one == IF y.addr = u.addr /\ y.is_write = u.is_write THEN 1 ELSE 0
             m == IF u.is_write THEN 0 ELSE k.pending_rd_q[u.addr]
  <2>1. InFlightIn(new, u) = n1 + m
    BY <1>8, InFlightSum, Zenon
  <2>2. n1 = n - one
    BY <1>6, Zenon
  <2>3. InFlightIn(k, u) = n + m
    BY InFlightSum, Zenon
  <2>4. one = IF u = t THEN 1 ELSE 0
    <3>1. /\ t = [addr |-> t.addr, is_write |-> t.is_write]
          /\ u = [addr |-> u.addr, is_write |-> u.is_write]
      BY <1>3, TransactionFacts
    <3>2. u = t <=> y.addr = u.addr /\ y.is_write = u.is_write
      BY <1>4, <3>1, Zenon
    <3> QED
      BY <3>2, Zenon
  <2>5. n \in Nat
    BY <1>2, MatchesFinite, Zenon
  <2>6. m \in Nat
    <3>1. u.addr \in Address
      BY TransactionFacts
    <3> QED
      BY <1>1, <3>1, Zenon DEF FlightSound
  <2>7. one \in Nat
    OBVIOUS
  <2> HIDE DEF n, n1, m, one
  <2>8. InFlightIn(k, u) = InFlightIn(new, u) + one
    BY <2>1, <2>2, <2>3, <2>5, <2>6, <2>7
  <2> QED
    BY <2>4, <2>8, Zenon
<1>10. Adds(new, k, t, c)
  BY <1>9, Zenon DEF Adds
<1> QED
  BY <1>3, <1>8, <1>10, Zenon DEF new, rq

\* A new controller is sound and has nothing in flight.
LEMMA NewControllerSound ==
    ASSUME cfg \in DOMAIN Configs, NEW c
    PROVE  /\ ControllerSound(NewController, c)
           /\ \A u \in Transaction : InFlightIn(NewController, u) = 0
<1> DEFINE k == NewController
<1>1. /\ k.ch = NewChannel /\ k.cq = NewCommandQueue
      /\ k.read_queue = <<>> /\ k.write_buffer = <<>> /\ k.unified_queue = <<>>
      /\ k.pending_rd_q = [a \in Address |-> 0] /\ k.return_queue = <<>>
  BY Zenon DEF NewController, Address
<1>2. IsController(k)
  BY Zenon DEF NewController, IsController, ControllerField
<1>3. FlightSound([a \in Address |-> 0], <<>>, c)
  BY DEF FlightSound
<1>4. \A S : <<>> \in Seq(S)
  OBVIOUS
<1> HIDE DEF k
<1>5. TransactionsSound(k)
  BY <1>1, <1>4, Zenon DEF TransactionsSound
<1>6. ControllerSound(k, c)
  BY <1>1, <1>2, <1>3, <1>5, NewChannelSound, NewCommandQueueSound, Zenon DEF ControllerSound
<1>7. ASSUME NEW u \in Transaction
      PROVE  InFlightIn(k, u) = 0
  <2>1. Matches(<<>>, u.addr, u.is_write) = {}
    BY DEF Matches
  <2>2. Cardinality({}) = 0
    BY FS_EmptySet
  <2>3. u.addr \in Address
    BY TransactionFacts
  <2>4. InFlightIn(k, u) = 0 + IF u.is_write THEN 0 ELSE [a \in Address |-> 0][u.addr]
    BY <1>1, <2>1, <2>2, InFlightSum, Zenon
  <2> QED
    BY <2>3, <2>4
<1> QED
  BY <1>6, <1>7 DEF k

-----------------------------------------------------------------------------
(* The configuration stays. *)

\* What depends on the configuration only stays the same.
LEMMA ConfigKept ==
    ASSUME cfg' = cfg
    PROVE  /\ Channel' = Channel
           /\ Transaction' = Transaction
           /\ \A a : GetChannel(a)' = GetChannel(a)
           /\ \A k, c : ControllerSound(k, c)' <=> ControllerSound(k, c)
<1>1. config' = config
  BY DEF config
<1>2. Channel' = Channel /\ Rank' = Rank /\ Bankgroup' = Bankgroup /\ banks' = banks
  BY <1>1 DEF Channel, Rank, Bankgroup, banks
<1>3. Bank' = Bank /\ num_queues' = num_queues
  BY <1>1, <1>2, Zenon DEF Bank, num_queues
<1>4. Address' = Address /\ Transaction' = Transaction
  BY <1>1 DEF Address, Transaction
<1>5. \A a : GetChannel(a)' = GetChannel(a)
  BY DEF GetChannel, AddressMapping
<1>6. \A b : GetQueueIndex(b)' = GetQueueIndex(b)
  BY <1>1, <1>2, Zenon DEF GetQueueIndex
<1>7. \A q : QueuedCommand(q)' = QueuedCommand(q)
  BY <1>3, <1>4, <1>6, Zenon DEF QueuedCommand
<1>8. RefreshCommand' = RefreshCommand
  BY <1>3 DEF RefreshCommand
<1>9. \A c : Answer(c)' = Answer(c)
  BY <1>4, <1>5, Zenon DEF Answer
<1>10. \A ch : ChannelSound(ch)' <=> ChannelSound(ch)
  BY <1>2, <1>3, <1>8, Zenon DEF ChannelSound, IsChannel, WindowSound
<1>11. \A cq : QueuesSound(cq)' <=> QueuesSound(cq)
  BY <1>3, <1>7 DEF QueuesSound, IsCommandQueue
<1>12. \A k : TransactionsSound(k)' <=> TransactionsSound(k)
  BY <1>4 DEF TransactionsSound
<1>13. \A rd, rq, c : FlightSound(rd, rq, c)' <=> FlightSound(rd, rq, c)
  BY <1>1, <1>4, <1>5, <1>9, Zenon DEF FlightSound
<1>14. \A k, c : ControllerSound(k, c)' <=> ControllerSound(k, c)
  BY <1>10, <1>11, <1>12, <1>13, Zenon DEF ControllerSound, IsController
<1> QED
  BY <1>2, <1>4, <1>5, <1>14, Zenon

-----------------------------------------------------------------------------
(* The elements of T of which there is at least one. *)

Positive(T, f) == [t \in {u \in T : f[u] > 0} |-> f[t]]

\* There are none at all.
LEMMA PositiveNone ==
    ASSUME NEW T, NEW f, \A u \in T : f[u] = 0
    PROVE  Positive(T, f) = [t \in {} |-> 0]
  BY DEF Positive

\* One t more, and one t less.
WithOne(p, t) ==
    [u \in DOMAIN p \cup {t} |-> (IF u \in DOMAIN p THEN p[u] ELSE 0) + IF u = t THEN 1 ELSE 0]

WithoutOne(q, t) ==
    [u \in {v \in DOMAIN q : v # t \/ q[v] > 1} |-> IF u = t THEN q[u] - 1 ELSE q[u]]

\* One more of t in g than in f.
LEMMA PositiveMore ==
    ASSUME NEW T, NEW f \in [T -> Nat], NEW g \in [T -> Nat], NEW t \in T,
           \A u \in T : g[u] = f[u] + IF u = t THEN 1 ELSE 0
    PROVE  /\ t \in DOMAIN Positive(T, g)
           /\ Positive(T, g) = WithOne(Positive(T, f), t)
           /\ Positive(T, f) = WithoutOne(Positive(T, g), t)
<1> DEFINE p == Positive(T, f)
           q == Positive(T, g)
<1>1. DOMAIN q = DOMAIN p \cup {t}
  BY DEF Positive
<1>2. \A u \in T : u \in DOMAIN p <=> f[u] > 0
  BY DEF Positive
<1>3. \A u \in DOMAIN p : p[u] = f[u]
  BY DEF Positive
<1>4. \A u \in DOMAIN q : q[u] = g[u] /\ u \in T
  BY DEF Positive
<1>5. q = [u \in DOMAIN q |-> q[u]] /\ p = [u \in DOMAIN p |-> p[u]]
  BY DEF Positive
<1> HIDE DEF p, q
<1>6. DOMAIN p = {v \in DOMAIN q : v # t \/ q[v] > 1}
  <2>1. \A v \in DOMAIN q : v \in DOMAIN p <=> v # t \/ q[v] > 1
    <3> SUFFICES ASSUME NEW v \in DOMAIN q PROVE v \in DOMAIN p <=> v # t \/ q[v] > 1
      OBVIOUS
    <3>1. v \in T /\ q[v] = g[v] /\ (v \in DOMAIN p <=> f[v] > 0) /\ f[v] \in Nat
      BY <1>2, <1>4, Zenon
    <3>2. g[v] = f[v] + IF v = t THEN 1 ELSE 0
      BY <3>1
    <3>3. v # t => v \in DOMAIN p
      BY <1>1
    <3> QED
      BY <3>1, <3>2, <3>3
  <2> QED
    BY <1>1, <2>1, Zenon
<1>7. \A u \in DOMAIN q : q[u] = (IF u \in DOMAIN p THEN p[u] ELSE 0) + IF u = t THEN 1 ELSE 0
  BY <1>2, <1>3, <1>4
<1>8. \A u \in DOMAIN p : p[u] = IF u = t THEN q[u] - 1 ELSE q[u]
  BY <1>1, <1>3, <1>4
<1>9. t \in DOMAIN q
  BY <1>1
<1>10. q = WithOne(p, t)
  BY <1>1, <1>5, <1>7 DEF WithOne
<1>11. p = WithoutOne(q, t)
  BY <1>5, <1>6, <1>8, Zenon DEF WithoutOne
<1> QED
  BY <1>9, <1>10, <1>11, Zenon DEF p, q

\* One more, as the sum of two counts.
LEMMA WithOneAdded ==
    ASSUME NEW p, NEW t
    PROVE  WithOne(p, t) =
              [u \in DOMAIN p \cup DOMAIN [v \in {t} |-> 1] |->
                  (IF u \in DOMAIN p THEN p[u] ELSE 0)
                      + IF u \in DOMAIN [v \in {t} |-> 1] THEN [v \in {t} |-> 1][u] ELSE 0]
<1>1. DOMAIN [v \in {t} |-> 1] = {t} /\ [v \in {t} |-> 1][t] = 1
  OBVIOUS
<1> QED
  BY <1>1 DEF WithOne

-----------------------------------------------------------------------------
(* The invariant. *)

\* Every controller is sound: nothing is said of the bank states, on which
\* neither result rests.
SystemSound ==
    /\ cfg \in DOMAIN Configs
    /\ ctrls = [c \in Channel |-> ctrls[c]]
    /\ \A c \in Channel : ControllerSound(ctrls[c], c)

\* How often each transaction is in flight.
Counts == [t \in Transactions |-> InFlight(t)]

\* The state that Dram sees.
Flying == [t \in {u \in Transactions : InFlight(u) > 0} |-> InFlight(t)]

\* A transaction belongs to a channel that exists.
LEMMA TransactionOf ==
    ASSUME SystemSound, NEW t \in Transactions
    PROVE  t \in Transaction /\ t.addr \in Address /\ GetChannel(t.addr) \in Channel
<1>1. t \in Transaction
  BY Zenon DEF Transactions, Transaction
<1>2. t.addr \in Address
  BY <1>1, TransactionFacts
<1> QED
  BY <1>1, <1>2, MappingFacts, Zenon DEF SystemSound

\* Dram sees the counts that are positive.
LEMMA CountsFacts ==
    ASSUME SystemSound
    PROVE  Counts \in [Transactions -> Nat] /\ Flying = Positive(Transactions, Counts)
<1>1. ASSUME NEW t \in Transactions
      PROVE  InFlight(t) \in Nat
  <2>1. t \in Transaction /\ GetChannel(t.addr) \in Channel
    BY TransactionOf
  <2> QED
    BY <2>1, InFlightNat DEF SystemSound, InFlight
<1>2. Counts \in [Transactions -> Nat]
  BY <1>1, Zenon DEF Counts
<1>3. \A t \in Transactions : Counts[t] = InFlight(t)
  BY Zenon DEF Counts
<1>4. Flying = Positive(Transactions, Counts)
  BY <1>3 DEF Flying, Positive
<1> QED
  BY <1>2, <1>4

\* At first nothing is in flight.
LEMMA InitSound ==
    ASSUME Init
    PROVE  SystemSound /\ Flying = [t \in {} |-> 0]
<1>1. cfg \in DOMAIN Configs /\ ctrls = [c \in Channel |-> NewController]
  BY DEF Init
<1>2. \A c \in Channel : ctrls[c] = NewController
  BY <1>1, Zenon
<1>3. ctrls = [c \in Channel |-> ctrls[c]]
  BY <1>1, <1>2
<1>4. \A c \in Channel : ControllerSound(ctrls[c], c)
  BY <1>1, <1>2, NewControllerSound
<1>5. SystemSound
  BY <1>1, <1>3, <1>4 DEF SystemSound
<1>6. ASSUME NEW t \in Transactions
      PROVE  Counts[t] = 0
  <2>1. t \in Transaction /\ GetChannel(t.addr) \in Channel
    BY <1>5, TransactionOf
  <2>2. InFlight(t) = InFlightIn(NewController, t)
    BY <1>2, <2>1, Zenon DEF InFlight
  <2>3. InFlight(t) = 0
    BY <1>1, <2>1, <2>2, NewControllerSound, Zenon
  <2> QED
    BY <2>3, Zenon DEF Counts
<1>7. Positive(Transactions, Counts) = [t \in {} |-> 0]
  BY <1>6, PositiveNone, Zenon
<1> QED
  BY <1>5, <1>7, CountsFacts, Zenon

\* A step that leaves the configuration and sets the controllers to new.
LEMMA SoundKept ==
    ASSUME SystemSound, cfg' = cfg, NEW new, ctrls' = [c \in Channel |-> new[c]],
           \A c \in Channel : ControllerSound(new[c], c)
    PROVE  /\ SystemSound'
           /\ Transactions' = Transactions
           /\ \A c \in Channel : ctrls'[c] = new[c]
           /\ \A t \in Transactions : Counts'[t] = InFlightIn(new[GetChannel(t.addr)], t)
<1>1. \A c \in Channel : ctrls'[c] = new[c]
  BY Zenon
<1>2. Channel' = Channel /\ Transactions' = Transactions
  BY ConfigKept, Zenon DEF Transactions, Transaction
<1>3. SystemSound'
  <2>1. cfg' \in DOMAIN Configs
    BY DEF SystemSound
  <2>2. ctrls' = [c \in Channel' |-> ctrls'[c]]
    BY <1>1, <1>2, Zenon
  <2>3. \A c \in Channel' : ControllerSound(ctrls[c], c)'
    BY <1>1, <1>2, ConfigKept, Zenon
  <2> QED
    BY <2>1, <2>2, <2>3 DEF SystemSound
<1>4. ASSUME NEW t \in Transactions
      PROVE  Counts'[t] = InFlightIn(new[GetChannel(t.addr)], t)
  <2>1. GetChannel(t.addr) \in Channel
    BY TransactionOf
  <2>2. GetChannel(t.addr)' = GetChannel(t.addr)
    BY ConfigKept
  <2>3. Counts'[t] = InFlight(t)'
    BY <1>2, Zenon DEF Counts
  <2>4. InFlight(t)' = InFlightIn(ctrls'[GetChannel(t.addr)], t)
    BY <2>2 DEF InFlight, InFlightIn
  <2> QED
    BY <1>1, <2>1, <2>3, <2>4, Zenon
<1> QED
  BY <1>1, <1>2, <1>3, <1>4, Zenon

\* One more of t is in flight in channel d, and nothing else changes.
LEMMA OneMore ==
    ASSUME SystemSound, NEW t \in Transactions, NEW k, NEW before, NEW after,
           k = GetChannel(t.addr),
           \A u \in Transaction : InFlightIn(after[k], u) =
                                      InFlightIn(before[k], u) + IF u = t THEN 1 ELSE 0,
           \A c \in Channel \ {k} : after[c] = before[c],
           \A c \in Channel, u \in Transaction : InFlightIn(before[c], u) \in Nat
    PROVE  \A u \in Transactions : InFlightIn(after[GetChannel(u.addr)], u) =
               InFlightIn(before[GetChannel(u.addr)], u) + IF u = t THEN 1 ELSE 0
<1> SUFFICES ASSUME NEW u \in Transactions
             PROVE  InFlightIn(after[GetChannel(u.addr)], u) =
                        InFlightIn(before[GetChannel(u.addr)], u) + IF u = t THEN 1 ELSE 0
  OBVIOUS
<1>1. u \in Transaction /\ GetChannel(u.addr) \in Channel
  BY TransactionOf
<1>2. CASE GetChannel(u.addr) = k
  BY <1>1, <1>2, Zenon
<1>3. CASE GetChannel(u.addr) # k
  <2>1. u # t
    BY <1>3, Zenon
  <2>2. InFlightIn(after[GetChannel(u.addr)], u) = InFlightIn(before[GetChannel(u.addr)], u)
    BY <1>1, <1>3, Zenon
  <2>3. InFlightIn(before[GetChannel(u.addr)], u) \in Nat
    BY <1>1, Zenon
  <2> QED
    BY <2>1, <2>2, <2>3
<1> QED
  BY <1>2, <1>3, Zenon

\* What the map of Dram is after a step that keeps the configuration.
LEMMA CountsNext ==
    ASSUME SystemSound', Transactions' = Transactions
    PROVE  Counts' \in [Transactions -> Nat] /\ Flying' = Positive(Transactions, Counts')
<1>1. (Counts \in [Transactions -> Nat] /\ Flying = Positive(Transactions, Counts))'
  BY CountsFacts, PTL
<1>2. Positive(Transactions, Counts)' = Positive(Transactions, Counts')
  BY DEF Positive
<1> QED
  BY <1>1, <1>2

\* AddTransaction is Accept of the abstract DRAM.
LEMMA AddStep ==
    ASSUME SystemSound, NEW t \in Transactions, AddTransaction(t)
    PROVE  SystemSound' /\ AbstractDram!DramNext
<1> DEFINE d == GetChannel(t.addr)
           k == ControllerAdd(ctrls[d], t)
           new == [c \in Channel |-> IF c = d THEN k ELSE ctrls[c]]
<1>1. t \in Transaction /\ d \in Channel
  BY TransactionOf, Zenon
<1>2. cfg' = cfg /\ ctrls' = [ctrls EXCEPT ![d] = k]
  BY DEF AddTransaction
<1>3. Adds(ctrls[d], k, t, d)
  BY <1>1, AddSound, Zenon DEF SystemSound
<1> HIDE DEF d, k
<1>4. new[d] = k /\ \A c \in Channel \ {d} : new[c] = ctrls[c]
  BY <1>1
<1>5. ctrls' = [c \in Channel |-> new[c]]
  BY <1>1, <1>2, Zenon DEF SystemSound
<1> HIDE DEF new
<1>6. \A c \in Channel : ControllerSound(new[c], c)
  BY <1>3, <1>4, Zenon DEF SystemSound, Adds
<1>7. /\ SystemSound' /\ Transactions' = Transactions
      /\ \A u \in Transactions : Counts'[u] = InFlightIn(new[GetChannel(u.addr)], u)
  BY <1>2, <1>5, <1>6, SoundKept, Zenon
<1>8. \A u \in Transactions : Counts'[u] = Counts[u] + IF u = t THEN 1 ELSE 0
  <2>1. \A u \in Transaction : InFlightIn(new[d], u) = InFlightIn(ctrls[d], u) + IF u = t THEN 1 ELSE 0
    BY <1>3, <1>4, Zenon DEF Adds
  <2>2. \A c \in Channel, u \in Transaction : InFlightIn(ctrls[c], u) \in Nat
    BY InFlightNat, Zenon DEF SystemSound
  <2>3. \A u \in Transactions : InFlightIn(new[GetChannel(u.addr)], u) =
            InFlightIn(ctrls[GetChannel(u.addr)], u) + IF u = t THEN 1 ELSE 0
    <3>1. d = GetChannel(t.addr)
      BY DEF d
    <3> QED
      BY <1>4, <2>1, <2>2, <3>1, OneMore
  <2>4. \A u \in Transactions : Counts[u] = InFlightIn(ctrls[GetChannel(u.addr)], u)
    BY Zenon DEF Counts, InFlight
  <2> QED
    BY <1>7, <2>3, <2>4, Zenon
<1>9. /\ Counts \in [Transactions -> Nat] /\ Flying = Positive(Transactions, Counts)
      /\ Counts' \in [Transactions -> Nat] /\ Flying' = Positive(Transactions, Counts')
  BY <1>7, CountsFacts, CountsNext, Zenon
<1>10. t \in DOMAIN Flying' /\ Flying' = WithOne(Flying, t)
  BY <1>8, <1>9, PositiveMore, Zenon
<1>11. AbstractDram!Accept([u \in {t} |-> 1])
  BY <1>10, WithOneAdded, Zenon DEF AbstractDram!Accept, AbstractDram!Copies, Flying
<1> QED
  BY <1>7, <1>10, <1>11, Zenon DEF AbstractDram!DramNext, Flying

\* ReturnDoneTrans is Report of the abstract DRAM.
LEMMA ReturnStep ==
    ASSUME SystemSound, ReturnDoneTrans
    PROVE  SystemSound' /\ AbstractDram!DramNext
<1> DEFINE d == Min(DoneChannels)
           i == DoneTrans(ctrls[d])
           k == WithReturned(ctrls[d], Erase(ctrls[d].return_queue, i))
           new == [c \in Channel |-> IF c = d THEN k ELSE ctrls[c]]
<1>1. d \in Channel /\ i # 0
  <2>1. Channel \subseteq Nat
    BY ConfigFacts DEF Channel, SystemSound
  <2>2. DoneChannels \in SUBSET Nat /\ DoneChannels # {}
    BY <2>1 DEF ReturnDoneTrans, DoneChannels
  <2>3. d \in DoneChannels
    BY <2>2, MinProperties
  <2> QED
    BY <2>3, Zenon DEF DoneChannels
<1>2. cfg' = cfg /\ ctrls' = [ctrls EXCEPT ![d] = k]
  BY Zenon DEF ReturnDoneTrans, WithReturned
<1>3. ControllerSound(ctrls[d], d)
  BY <1>1 DEF SystemSound
<1>4. i \in 1 .. Len(ctrls[d].return_queue)
  BY <1>1, <1>3, DoneIndex, Zenon
<1> HIDE DEF d, i
<1>5. PICK t \in Transaction : /\ GetChannel(t.addr) = d /\ ControllerSound(k, d)
                               /\ Adds(k, ctrls[d], t, d)
  BY <1>3, <1>4, RemoveSound, Zenon
<1> HIDE DEF k
<1>6. new[d] = k /\ \A c \in Channel \ {d} : new[c] = ctrls[c]
  BY <1>1
<1>7. ctrls' = [c \in Channel |-> new[c]]
  BY <1>1, <1>2, Zenon DEF SystemSound
<1> HIDE DEF new
<1>8. \A c \in Channel : ControllerSound(new[c], c)
  BY <1>5, <1>6, Zenon DEF SystemSound
<1>9. /\ SystemSound' /\ Transactions' = Transactions
      /\ \A u \in Transactions : Counts'[u] = InFlightIn(new[GetChannel(u.addr)], u)
  BY <1>2, <1>7, <1>8, SoundKept, Zenon
<1>10. t \in Transactions
  BY Zenon DEF Transactions, Transaction
<1>11. \A u \in Transactions : Counts[u] = Counts'[u] + IF u = t THEN 1 ELSE 0
  <2>1. \A u \in Transaction : InFlightIn(ctrls[d], u) = InFlightIn(new[d], u) + IF u = t THEN 1 ELSE 0
    BY <1>5, <1>6, Zenon DEF Adds
  <2>2. \A c \in Channel, u \in Transaction : InFlightIn(new[c], u) \in Nat
    BY <1>8, InFlightNat
  <2>3. \A c \in Channel \ {d} : ctrls[c] = new[c]
    BY <1>6, Zenon
  <2>4. \A u \in Transactions : InFlightIn(ctrls[GetChannel(u.addr)], u) =
            InFlightIn(new[GetChannel(u.addr)], u) + IF u = t THEN 1 ELSE 0
    BY <1>5, <1>10, <2>1, <2>2, <2>3, OneMore
  <2>5. \A u \in Transactions : Counts[u] = InFlightIn(ctrls[GetChannel(u.addr)], u)
    BY Zenon DEF Counts, InFlight
  <2> QED
    BY <1>9, <2>4, <2>5, Zenon
<1>12. /\ Counts \in [Transactions -> Nat] /\ Flying = Positive(Transactions, Counts)
       /\ Counts' \in [Transactions -> Nat] /\ Flying' = Positive(Transactions, Counts')
  BY <1>9, CountsFacts, CountsNext, Zenon
<1>13. t \in DOMAIN Flying /\ Flying' = WithoutOne(Flying, t)
  BY <1>10, <1>11, <1>12, PositiveMore
<1> QED
  BY <1>9, <1>13, Zenon DEF AbstractDram!DramNext, AbstractDram!Report, Flying, WithoutOne

\* A step that leaves in flight what is in flight.
LEMMA QuietStep ==
    ASSUME SystemSound, cfg' = cfg, NEW new, ctrls' = [c \in Channel |-> new[c]],
           \A c \in Channel : Keeps(ctrls[c], new[c], c)
    PROVE  SystemSound' /\ Flying' = Flying
<1>1. \A c \in Channel : /\ ControllerSound(new[c], c)
                         /\ \A t \in Transaction : InFlightIn(new[c], t) = InFlightIn(ctrls[c], t)
  BY Zenon DEF Keeps
<1>2. /\ SystemSound' /\ Transactions' = Transactions
      /\ \A u \in Transactions : Counts'[u] = InFlightIn(new[GetChannel(u.addr)], u)
  BY <1>1, SoundKept, Zenon
<1>3. ASSUME NEW u \in Transactions
      PROVE  Counts'[u] = Counts[u]
  <2>1. u \in Transaction /\ GetChannel(u.addr) \in Channel
    BY TransactionOf, Zenon
  <2>2. Counts[u] = InFlightIn(ctrls[GetChannel(u.addr)], u)
    BY Zenon DEF Counts, InFlight
  <2> QED
    BY <1>1, <1>2, <2>1, <2>2, Zenon
<1>4. /\ Counts \in [Transactions -> Nat] /\ Flying = Positive(Transactions, Counts)
      /\ Counts' \in [Transactions -> Nat] /\ Flying' = Positive(Transactions, Counts')
  BY <1>2, CountsFacts, CountsNext, Zenon
<1> HIDE DEF Counts, Flying
<1>5. Counts' = Counts
  BY <1>3, <1>4
<1> QED
  BY <1>2, <1>4, <1>5, Zenon

\* Every step keeps the invariant, and is a step of the abstract DRAM or leaves it alone.
LEMMA StepSound ==
    ASSUME SystemSound, [Next]_vars
    PROVE  SystemSound' /\ [AbstractDram!DramNext]_Flying
<1>1. ASSUME NEW t \in Transactions, AddTransaction(t)
      PROVE  SystemSound' /\ [AbstractDram!DramNext]_Flying
  BY <1>1, AddStep, Zenon
<1>2. CASE ReturnDoneTrans
  BY <1>2, ReturnStep, Zenon
<1>3. CASE UNCHANGED <<cfg, ctrls>>
  <2>1. \A c \in Channel : Keeps(ctrls[c], ctrls[c], c)
    BY KeepsItself DEF SystemSound
  <2>2. ctrls' = [c \in Channel |-> ctrls[c]]
    BY <1>3, Zenon DEF SystemSound
  <2> QED
    BY <1>3, <2>1, <2>2, QuietStep, Zenon
<1>4. CASE ClockTick
  <2> DEFINE new == [c \in Channel |-> ControllerTick(ctrls[c])]
  <2>1. \A c \in Channel : new[c] = ControllerTick(ctrls[c])
    BY Zenon
  <2>2. cfg' = cfg /\ ctrls' = new
    BY <1>4 DEF ClockTick
  <2>3. \A c \in Channel : Keeps(ctrls[c], ControllerTick(ctrls[c]), c)
    BY TickSound DEF SystemSound
  <2>4. new = [c \in Channel |-> new[c]]
    BY <2>1
  <2> HIDE DEF new
  <2> QED
    BY <2>1, <2>2, <2>3, <2>4, QuietStep, Zenon
<1> QED
  BY <1>1, <1>2, <1>3, <1>4, Zenon DEF Next, CallClockTick, vars

\* Whatever the configuration, the controllers stay sound.
THEOREM AlwaysSound == Spec => []SystemSound
<1>1. Init => SystemSound
  BY InitSound
<1>2. SystemSound /\ [Next]_vars => SystemSound'
  BY StepSound
<1> QED
  BY <1>1, <1>2, PTL DEF Spec

\* In every configuration JedecDRAMSystem does what its client expects of a
\* DRAM: each transaction that AddTransaction accepted is reported once by
\* ReturnDoneTrans, and nothing else is.
THEOREM DramImplemented == Spec => ImplementsDram
<1>1. Init => AbstractDram!DramInit
  BY InitSound DEF AbstractDram!DramInit, Flying
<1>2. SystemSound /\ [Next]_vars =>
          [AbstractDram!DramNext]_[t \in {u \in Transactions : InFlight(u) > 0} |-> InFlight(t)]
  BY StepSound DEF Flying
<1> QED
  BY <1>1, <1>2, AlwaysSound, PTL DEF Spec, ImplementsDram, AbstractDram!DramSpec

\* In every configuration UpdateActivationTimes keeps no more than FAW_LIMIT
\* activations of a rank within tFAW.
THEOREM ActivationsLimited == Spec => []FourActivates
<1>1. SystemSound => FourActivates
  <2> SUFFICES ASSUME SystemSound, NEW c \in Channel, NEW r \in Rank
               PROVE  Count(ctrls[c].ch.four_aw[r], LAMBDA left : left > 0) <= FAW_LIMIT
    BY DEF FourActivates
  <2> DEFINE s == ctrls[c].ch.four_aw[r]
             S == {i \in DOMAIN s : s[i] > 0}
  <2>1. s \in Seq(Nat) /\ Len(s) <= FAW_LIMIT
    BY DEF SystemSound, ControllerSound, ChannelSound, WindowSound
  <2> HIDE DEF s
  <2>2. S \subseteq 1 .. Len(s) /\ Len(s) \in Nat
    BY <2>1
  <2>3. IsFiniteSet(1 .. Len(s)) /\ Cardinality(1 .. Len(s)) = Len(s)
    <3> DEFINE n == Len(s)
    <3>1. n \in Nat
      BY <2>2
    <3> HIDE DEF n
    <3>2. /\ IsFiniteSet(1 .. n)
          /\ Cardinality(1 .. n) = IF 1 > n THEN 0 ELSE n - 1 + 1
      BY <3>1, FS_Interval
    <3>3. (IF 1 > n THEN 0 ELSE n - 1 + 1) = n
      BY <3>1
    <3>4. IsFiniteSet(1 .. n) /\ Cardinality(1 .. n) = n
      BY <3>2, <3>3
    <3> QED
      BY <3>4 DEF n
  <2>4. Cardinality(S) <= Len(s) /\ Cardinality(S) \in Nat
    BY <2>2, <2>3, FS_Subset, FS_CardinalityType, Zenon
  <2>5. Cardinality(S) <= FAW_LIMIT
    BY <2>1, <2>2, <2>4, LimitAssumption
  <2> QED
    BY <2>5 DEF Count, s
<1> QED
  BY <1>1, AlwaysSound, PTL

=============================================================================
