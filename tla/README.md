# TLA+ verification of the SGCN accelerator simulator

SGCN simulates, cycle by cycle, a hardware accelerator for graph convolution
networks. Several *engines* read a graph in CSR form from DRAM, fetch the
feature vectors of the vertices their edges point to through one shared cache,
add them up row by row and write the results back. This directory holds TLA+
models of the simulator, TLC configurations that check them on small instances,
and TLAPS proofs about the graph reader, the inference loop, the shared log and
the DRAM.

All paths below are relative to the repository's root; `g_reader.cc` is short
for `src/src/g_reader.cc`, and so on.

## The system

| part | source | in this project |
|---|---|---|
| Controller: the cycle loop `GCNInference` | `controller.cc` | `Accelerator` |
| GraphReader, one per engine: prefetches row pointers, column indices and values `bf` times over, hands out edges | `g_reader.cc` | `GraphReader`, `GraphFetch`, `EdgeStream` |
| FeatureReader: turns edges into requests for feature lines, passes lines on in order | `f_reader.cc` | `FeatureReader` |
| Cache: set associative, LRU, shared by the engines | `cache.cc` | `Cache` |
| SIMD, one per engine: counts rows, writes result lines | `simd.cc` | `Simd` |
| Memory: the queue in front of the DRAM and the callbacks behind it | `memory.cc` | `Memory` |
| Preprocessor: distributes the graph (`LAC`, `Tiling`), compresses features (`TransXW`), lays out the address space (`AddressMapping`) | `preprocessor.cc` | `Preprocessor`; its result as assumptions of `Common` and `AddressMap` |
| main: options, result directory, csv log with a lock file | `main.cc` | `RunLog` |
| DAVCRead: preloading of features before the loop | `controller.cc` | `Accelerator` |
| DRAMsim3, the DRAM simulator: what it promises | `dramsim3.h`, `memory.cc` | `Dram` |
| its channels and callbacks | `dram_system.cc` | `JedecDram` |
| its memory controller: merging, write buffer, two commands a cycle, return queue | `DRAMsim3/src/controller.cc` | `DramController` |
| its command queues: round robin, precharges, dependencies, refresh | `command_queue.cc` | `DramCommandQueue` |
| its banks, activation window and refresh timer | `bankstate.cc`, `channel_state.cc`, `refresh.cc` | `DramChannel` |
| its address mapping and tables of delays | `configuration.cc`, `timing.cc` | `DramConfig` |
| Combination (never called), HMC, thermal model, statistics, jsoncpp, scripts | | no |

In a cycle the controller does the following for each engine in turn: the graph
reader requests a line of row pointers and a line of columns (and of values),
receives one line, and returns an edge if it can; the edge goes into the feature
reader's pending queue `pq`; the feature reader takes one step of reading the
current edge's lines (`ReadNext`), which puts a line into the queue `fq`, and
tries to pass the front of `fq` (`PassFtoSIMD`); at the end of a row the SIMD
unit puts result lines into `wq`, and one of them is written. After all engines,
arrived feature lines go into the cache, the memory's queue is drained into the
DRAM, the DRAM ticks and calls back, and the loop is left once `total_write` has
come down to 0.

In a tick the DRAM first reports what is done, and then lets the controller of
every channel take its turn: the refresh timer, a command for a refresh that is
due or else one from the command queues (and in HBM perhaps a second one),
self-refresh, and one transaction that becomes a command.

## Modules

`Common` declares the sizes, the CSR of every engine and the place of its arrays.
Addresses count cache lines. What the preprocessor establishes is stated as
`ASSUME`s: `CsrAssumption` (row pointers start at 0, grow, and end at the number
of columns), `IndexAssumption` (regions have exactly the arrays' sizes), and in
`AddressMap` that regions are disjoint and ordered value, row, column, feature
(`LayoutAssumption`), and that feature lines and passes have the shape their mode
gives them (`FeatureAssumption`, `PassAssumption`, `LineCountAssumption`).
`Queues` has the two operations on a `std::vector` or `std::list` that the
standard module of sequences lacks.

`Preprocessor` is the code that computes these constants, one action per step of
the constructor: `ReadData`, `LAC`, `Tiling`, `TransXW`, `AddressMapping` and
the sum of the writes. Loops that fill arrays are folds, and running addresses
are sums over what was laid out before. A division by 0 and an index beyond a
vector, which have no defined outcome, end in the state `undefined`. Its property
`LoopReady` is the link to the other models: it instantiates `AddressMap` with
the computed values and says that its assumptions hold. Quotients that the
source rounds up in `float` are exact here.

`GraphReader` holds the reader as a record with the fields of the C++ object and
one operator per method, or per part of a method: `VertexRequested`,
`EdgeRequested`, `GraphReceived`, and for `NextFeature` the end test `AllPassed`,
one iteration of the loop over empty rows (`RowWanted`, `RowsExhausted`,
`RowTaken`, `RowLoops`) and the edge returned (`EdgeReady`, `ColumnWrap`,
`WrapEnds`, `EdgeOf`, `EdgeTaken`). Two modules use it:

* `GraphFetch` puts one reader in front of a memory that answers in any order,
  with the methods called in any order. It is more general than the controller's
  loop, so what holds here holds there. Its actions are the four methods;
  `NextFeature` is three actions, because its loop is run step by step.
* `Accelerator` composes all parts under the controller's fixed order.

`EdgeStream` is the abstract specification of a reader: a variable for the
position in the CSR and one for the last edge returned, and nothing about
memory. `GraphFetch` implements it under the mapping `pass <- g_pass_count`,
`next <- cur_col_idx`, `over <- pass_over` (property `EdgesInOrder`).

`Cache`, `Memory`, `FeatureReader` and `Simd` are layers that `Accelerator`
extends; each declares its own variables and gives one operator per method. To
them the DRAM is `Dram`: how many of each transaction are in flight, and how they
are taken and reported. `ConsumeTransaction` hands over a prefix of the queue until the DRAM
refuses, which it may do at any time, and `Complete` reports any transaction in
flight. Where `ReadCompleteCallback` uses the uninitialized
`id` for an address in no engine's region, `Receiver` allows every engine. The
entry 1 that `ReadNext` puts into `fq` for a cached line is `InCache(line)`, so
that properties can tell which line it stood for; the actions only look at its
sign.

`Accelerator` has one action per call of the loop, in the loop's order: the
control state is `at` (the call) and `eng` (the engine). The only freedom is the
DRAM's. `CompleteCall` may happen any number of times within `UpdateCycle`,
`CycleEnd` is the exit test. Before the loop, the three `DAVC` actions are
`DAVCRead`: `davc_reads` requests, all for one address, of which at most one
answer per cycle is taken out of the feature queue while all are counted, so
that the loop may start with answers left over.

`JedecDram` is DRAMsim3 with one controller per channel. A controller is a
record: its own queues, the command queues `cq`, and the channel `ch`. There is
one module per class or pair of classes, each extending the one below it
(`DramConfig`, `DramChannel`, `DramCommandQueue`, `DramController`), with one
operator per method. The actions are the client's: `AddTransaction`, and a call of
`ClockTick` in three kinds of steps (`CallClockTick`, `ReturnDoneTrans` for each
callback, `ClockTick` for the rest). Everything a controller does in a cycle is
one step, `ControllerTick`, in the source's order. Points in time are kept as the
time that remains, so that the state space is finite; 0 stands for everything
that is past. This is exact as long as no time that is compared lies in the past
by a negative delay, which no entry that is used has in the configurations
checked. The field `bus` of a controller is not in the source: it records when
bursts occupy the data bus. The configuration is a record, chosen in the initial
state from the sequence `Configs`; tables of delays and address maps are
computed from it as in the constructors. What `configuration.cc` and the ini files
give is stated as `ASSUME`s: positive dimensions, natural times and a known refresh
policy (`ConfigAssumption`), address fields within the dimensions
(`MappingAssumption`), a window of at least one activation (`LimitAssumption`).
`JedecDram` implements `Dram` under the mapping that counts, for each transaction,
its entries in `return_queue` and the reads pending in `pending_rd_q` (property
`ImplementsDram`); this is what lets `Accelerator` use `Dram` in its place.

`RunLog` is a different level: several processes run side by side and meet in
the file system. Its steps are the calls of `main` to the file system: search
for a free result directory, `mkdir`, the simulation and the opening of its
statistics file, which empties it, every write to that file, the two ends of
reading it back, test of the lock file, its creation, the line feed (which `endl`
flushes), the row (written when the stream closes), removal of the lock. Two
processes can take the same directory, and then one may empty and rewrite the
statistics that the other is writing or reading. `dramsim3.json` is therefore kept
as the sequence of its pieces, each the `n`-th write of some process: the first
write (`{`) goes to the start of the file, the others (the statistics of the
channels, the commas, `}`) to its end. How many writes there are (`Writes`) is
left open, since statistics longer than the stream's buffer go out in several. A
file that is complete, of one process, and does not change while it is read gives
that process's statistics. For any other file the model leaves open what the
parser finds, since that depends on the bytes at which writes meet: values of
anyone who wrote there, or 0 for a member that is missing (`ParseJson`), or a
root that is no object, at which `root["0"]` throws and the process ends (`Abort`).

Definitions marked *Mutant of D* are wrong variants of `D`. Each property has one
that violates it, named in `PROJECT.json`.

## Runs

| run | configuration | result |
|---|---|---|
| `reader` | one reader, GCN, 2 elements per line, 2 passes, 18 graphs | all properties hold |
| `reader_empty` | one engine without edges | `RequestsWithinBf` is violated |
| `inference_xcmp` | two engines, compressed features with absent lines, 2 passes, cache of one line | hold |
| `inference_mat` | two engines, dense features, second pass narrower, 2 sets of 2 ways, request queue of 1 | hold |
| `inference_csr` | two engines, sparse features, cache of one line, two preloading reads | hold |
| `evicted_line` | as `inference_xcmp` | `PassedFromCache` is violated |
| `preprocess` | 243 graphs with 45 combinations of engines, tiles and widths; 436 feature matrices in four modes | hold |
| `sparse_layout` | three vertices in CSR, one without features | `AddressOrder` is violated |
| `run_log` | three processes, one of them started earlier, three writes each | hold |
| `run_log_lines` | as `run_log` | `OneRowPerLine` is violated |
| `dram` | DRAMsim3 in five configurations | hold |
| `dram_meeting` | reads and writes of one address in separate queues | `EveryReadReported` is violated |

What the properties say:

* `NoEarlyEdge`, `EdgesInOrder`, `NoStrandedAnswer`, `StreamEnds` (reader): edges
  never overtake their data, come in CSR order with the right row ends and pass
  numbers, no answer is left behind, and the stream ends.
* `RequestsInRegion`, `RequestsWithinBf` (reader): what is requested.
* `WorkInOrder` (inference): `Work(i)` is the list of lines and row ends that
  engine `i` must still pass, put together from `fq`, the current edge, `pq` and
  the part of the CSR not yet returned. No step of anyone changes it, except that
  `PassFtoSIMD` takes its front off. This covers loss, duplication, reordering
  and wrong attribution along the whole path from CSR to SIMD unit.
* `OneRequestPerLine`, `CacheConsistent`, `RequestsWaitedFor` (inference): a line
  is in `requested` exactly while one answer is on its way, never twice in the
  cache, never requested without need.
* `RowsConserved`, `WritesConserved`, `DoneAtExit` (inference): row ends and
  writes add up to what the preprocessor computed, so the loop is left when and
  only when all work is done.
* `QueuesBounded`: the limits of the queues can be exceeded, by how much at most.
* `InferenceEnds`: the loop ends although engines evict each other's lines.
* `GraphDealtOut` (preprocessor): each row of each tile of each engine is exactly
  one row of the graph, cut to the tile's columns, at the place the closed form
  `Origin` gives; nothing is lost.
* `LoopReady` (preprocessor): the assumptions of `Common` and `AddressMap`, for
  inputs in which no pass lies beyond the features and, in CSR, every vertex has
  a feature.
* `LinesUnshared`, `WritesCounted`, `ResultsFit` (preprocessor): addresses are
  distinct, `total_write` is right although the width of a result changes after
  it is first computed, and an engine's results fit its region (one tile, width
  left to LAC).
* `RowsComplete`, `LockReleased`, `AllFinish` (log): each process that finishes
  leaves one row, no lock is left, and all processes end, although two of them can
  hold the lock at once. The statistics in a row come from processes that took the
  same directory; they are the process's own and complete if no other did. A
  process that shares its directory may log anything, or abort; others may not.
* `ImplementsDram` (dram): the client is told of every transaction it added, once,
  although writes are merged, reads share a command, and some are answered from
  the write buffer.
* `QueuedOnce`, `NeverAborts`: the pending lists and the queues agree, so that none
  of the `exit(1)` and `AbruptExit` of the controller and the banks is reached.
* `WriteAfterRead`: a write never overtakes an earlier read of its address.
* `DataBusFree`, `FourActivates`, `RefreshInTime`: the tables of delays keep
  bursts apart on the data bus, the activation window holds, and a rank or bank
  whose refresh is due gets it before it is due again.
* `ReadsReported`, `Accepts`: reads are reported and full buffers empty again,
  except where reads and writes meet as in `dram_meeting`.

Five runs show disagreements between the code and its comments:

* An engine without edges (`a_h = 5`, `lac_width = 2`, four engines give one)
  requests lines for ever: `EdgeRequest` compares for equality after adding
  (`g_reader.cc:103-106`).
* In `X_CMP` a line found in the cache is passed later without another look
  (`f_reader.cc:119-120` and `247`), although the comment at `f_reader.cc:44`
  promises one. The simulated cycle count is too low by the missing fetch.
* In CSR mode a vertex without features moves the layout back by a line it did not
  take (`preprocessor.cc:541-542` and `554-555`), into the region of the columns.
* While writes are drained only the write buffer is looked at. If its first write
  has the address of a read that waits, draining is given up and at the next call
  taken up again, since the buffer is as full as before; the read is never
  scheduled (`DRAMsim3/src/controller.cc:210-229`). The inference loop
  reads and writes one line only in CSR mode, where the results can start in the
  last line of the features (`preprocessor.cc:554-555`).
* The lock file is tested and created in two steps (`main.cc:86-87`), so two rows
  can end up in one line of the csv file.

In two places a comment says something else than the code does, and the properties
state the code:

* The comment at `preprocessor.cc:316` puts a column into tile `i` if
  `t_unit[i] <= col / unit_v < t_unit[i+1]`. With `t_unit` = 1, 2, ... that is one
  tile before the one the code uses (`:325`), and leaves the first `unit_v` columns
  without a tile. `GraphDealtOut` holds for the code's tiles, and fails for those
  of the comment (its mutant).
* "Simultaneous all rank refresh" (`refresh.cc:31`) leaves the loop after the first
  rank that is awake (`:36`). The second conjunct of `RefreshInTime` says so: in the
  two-rank configuration `DDR` rank 1 is never refreshed.

### Bounds

`reader`: lines of 2 elements and graphs of up to 3 rows with empty first, middle
and last rows, and column counts that do and do not fill the last line. Two
passes are enough for every wrap and for the overflow counters to exceed 1 in
the row array. Its instances are model-checked to the end; the proofs below
remove the bounds.

`inference_*`: two engines, three rows (one empty), vertices shared between the
engines, lines small enough that everything but the features is one line. The
cache is smaller than the work of one row, so that every eviction pattern of two
engines occurs; `FQ_LIMIT` (256 in the source) is 2, `REQUEST_LIMIT` (10240) is 1
or 2, so that both queues fill. `MaxInFlight = 2` bounds the transactions in
the DRAM: two are enough to be answered out of order. `WORD = 16` stands for
2^64 in the arithmetic of `total_write`. The addresses are those that
`AddressMapping` computes for these inputs.

`preprocess`: graphs of five rows, each empty, short, or out of order, so that
with up to three engines and widths of one to three there are full and short
blocks, second rounds, and engines without rows; a tile may be empty. Lines of
two elements and headers of two bits per word, so that a compressed vertex has
absent lines, a sparse one several blocks, and a wide one too large a header.
Where `bf` passes are more than a feature has lines for, `AddressMapping` misses
the end (`preprocessor.cc:516`) and reads beyond the vertex's lines; one such
input shows that the model ends in `undefined`. Vertices without features in CSR
are left to `sparse_layout`.

`run_log`: three processes, so that one can remove the lock of another while a
third one waits. One of them was started earlier and has its directory and its
statistics when the other two start (`MCInit`, a state that `Spec` reaches); with
all three from the start there are more than ten million states. Three writes are
one for the start, one for the statistics and one for the end of the file, so that
another process can come in between any two of them. The safety properties are
proved for any number of processes and writes.

`dram`: five configurations, one of them that of `dram_meeting`. `HBM`
is `HBM2_8Gb_x128.ini` (the configuration of all files under `src/configs`) with
two banks: one rank, open page, a queue per bank, two commands a cycle. `DDR` has
two ranks with one queue each, one queue of transactions and simultaneous
refresh; `TwoChannels` close page and refresh of single banks; `Sleeping`
self-refresh. Delays are small and keep their order; rows, columns and banks are
two, queues have one to three places, and limits are scaled alike (`FAW_LIMIT`
for 4, `ROW_HIT_LIMIT` for 4, `WRITE_LOW` for 8, all 1 or 2). The client adds two
to four transactions (`budget`), chosen so that row hits, row misses, merges,
forwarding, draining and refresh all happen and overlap; a refresh is due every
six or twelve cycles, and the clock runs on for ever.

Three restrictions of these configurations are deliberate, since the code does
not work beyond them and no file of the repository goes there: dual commands
only with one rank (with two, and `CL` large against `CWL`, a read chosen as the
second command beside a write is lost, `controller.cc:85`), per-bank refresh only
with `tREFI` no longer than `tREFIb` (`timing.cc:235`), self-refresh only with
`tCKESR` of one cycle (`controller.cc:119`). With values beyond them
`QueuedOnce`, `RefreshInTime` and `NeverAborts` fail.

### Fairness

`GraphFetch`: weak fairness of each method (the controller calls each of them
once per cycle) and of each kind of answer. `Accelerator`: weak fairness of the
loop's steps and strong fairness of the DRAM: it may tick without completing
anything, and refuse, but neither for ever. That DRAMsim3 gives this is what
`ReadsReported` and `Accepts` check in `dram`. `JedecDram`: the client keeps
calling `ClockTick`, as the loop does, and each call returns; nothing is assumed
of the controllers. `RunLog`: weak fairness of every process.

## Proofs

`GraphReaderProofs` and `GraphFetchProofs` prove, for every set of graphs with
edges, every line size of at least 2, every `bf` of at least 1 and both modes:

* `FetchInvariant`: the inductive invariant `IInv == TypeOK /\ FetchSound`;
* `FetchTypeOK`, `NoEarlyEdgeHolds`, `RequestsInRegionHolds`,
  `RequestsWithinBfHolds`, `NoStrandedAnswerHolds`: the invariants of the run
  `reader` with these names;
* `ReaderImplementsStream`: `Spec` implements `EdgeStream`.

The hypothesis `HasEdges` is needed: `reader_empty` shows that
`RequestsWithinBf` fails without it.

`NoEarlyEdge` is not inductive: that a cursor is within what was received rests on
the overflow counter, which is raised by answers and lowered by wraps of the
cursor. `FetchSound` says that, for columns and for values alike, the number of
passes received is the number of passes consumed plus the overflow
(`CursorSound`), that the row cursor is within the rows received (`RowsSound`),
and that the edges left in the current row end where the row pointer says, also
while the row cursor is already in the next pass and the column cursor is not
(`Aligned`). `GraphReaderProofs` shows that each operator of the reader keeps
these; `GraphFetchProofs` lifts them to the actions. That the row cursor never
stands behind an end index of 1 needs lines of at least 2 elements: this is
`LineAssumption`, and the source has 16.

`NoStrandedAnswer` needs a second invariant, `AnswersSound`. The reader keeps no
count of what it is waiting for; it counts elements received and passes. For each
array, `Balanced` converts all of these to lines: what was asked for (passes asked
for times lines per pass, plus the lines asked for in this pass) is what was
received plus what is pending. When the last of `bf` passes is received nothing
can be pending, since no more than `bf` passes are asked for.

`FeatureProofs`, `AcceleratorProofs` and `RequestProofs` prove about the inference
loop, for every number of engines, every graph in which each engine has edges,
every mode and pass count, every size and shape of the cache and every limit of
the queues:

* `AlwaysSound`: the inductive invariant `Sound`;
* `RowEndsNeverFirst`: the invariant `RowEndNeverFirst`;
* `RequestsAreWaitedFor`: the invariant `RequestsWaitedFor`;
* `RequestedOnce`, `CacheStaysConsistent`, `QueuesStayBounded`: the invariants
  `OneRequestPerLine`, `CacheConsistent` and `QueuesBounded`, if nothing is
  preloaded (`davc_reads = 0`).

All have the hypothesis `EveryEngineHasEdges`, for the reason that `reader_empty`
shows: the reader of an engine without edges leaves its regions, and its answers
may then be taken for features. The second hypothesis is there because `DAVCRead`
asks for one address `davc_reads` times, so a line can be on its way more than
once when the loop starts; what holds all the same, that no line is both cached
and requested and none requested in vain, is proved without it.

`Sound` puts together what the calls of different parts rely on. `ReadersSound` is
the invariant of `GraphReaderProofs` for every engine, and at which calls of the
loop there is something to pass. `MemorySound` says that only reads of graph lines
and of feature lines, and writes, are in the memory's queues and the DRAM, so that
an answer reaches the queue its address belongs to. `FeaturesSound` says that
edges and the current read belong to the engine and stay within a feature's lines,
and that in `fq` a row end always follows a line; without it `RowEndNeverFirst` is
not inductive, since taking a line off `fq` brings the next entry to the front.
`CacheSound` says that each cached line is in its own set and none is requested;
that is why `Insert`, which does not look, never makes a double. `FeatureProofs`
shows for each operation of the cache, the memory, the feature reader and the SIMD
units what it does to these; `AcceleratorProofs` goes through the calls of the loop.

`RequestsWaitedFor` is not preserved by an argument about its own engine alone: when
`PassFtoSIMD` takes a line off `fq`, the line may be requested for another engine.
The proof uses that a line is passed only if it is held, and what is held is not
requested. `OneRequestPerLine` is proved together with the cache (`OnceInv`): each
call leaves what is on its way as it was, or moves one line, or adds one that was
neither cached nor requested (`RequestCalls`). For `QueuesBounded` the invariant
`QueueTail` says what the entries of the memory's queue beyond `REQUEST_LIMIT + 1`
are: reads of the first line of some engine's `fq`. There is one such line per
engine and one request per line, which bounds them by the number of engines
although `PassFtoSIMD` never looks at the limit.

`RunLogProofs` proves, for any finite number of processes and any number of
writes of at least 2:

* `LogInvariant`: the inductive invariant `IInv`;
* `LogTypeOK`, `LockReleasedHolds`, `RowsCompleteHolds`: the invariants of the run
  `run_log`.

None of the three is inductive. That a process tries no more numbers than there
are processes is a pigeonhole argument on `DirsSound`: the numbers below its own
all exist, and each was made by a process past `mkdir`. That no lock is left rests
on `LockSound` (while the file exists, some process is about to remove it), which
holds although the lock does not exclude. That each process has exactly one row
rests on `RowsSound`, which ties the rows in the file to the place of their
writer and to what it has read. What it has read rests on `StatisticsSound`: a
statistics file holds only pieces of users of its directory (`FilesSound`), and if
there is one user, exactly the pieces this one has written so far (`AloneSound`).
This is inductive because nobody joins the users of a directory that exists
(`NobodyJoins`): the race is over when the first of them has made it.

`JedecDramProofs` proves, for every sequence of configurations that satisfies the three assumptions of
the DRAM modules (any number of channels, ranks and banks, any delays, queue sizes,
policies and addresses, dual commands with several ranks included):

* `AlwaysSound`: the inductive invariant `SystemSound`;
* `DramImplemented`: `Spec` implements `Dram` (`ImplementsDram`);
* `ActivationsLimited`: the invariant `FourActivates`.

The refinement needs an invariant because answers are made from commands, not from
transactions: `IssueCommand` looks up the pending reads of the address in the
command it is given. `ControllerSound` says that a queue holds only reads and writes
of its own bank or rank, for addresses the client uses (`QueuesSound`), that reads are pending
only at the channel of their address, and that each answer is a transaction of that
channel (`FlightSound`). Then a read command turns `n` pending reads into `n` answers,
which leaves the count of each transaction as it was. For each method, in the order
of the source, it is shown that it keeps `ControllerSound` and what is in flight
(`Keeps`), or adds one transaction (`Adds`), and for the window that whatever
`GetCommandToIssue` and `FinishRefresh` choose is `Issuable`: an activation only of a
rank with room. This is then lifted to the channels; `AddTransaction` is `Accept`,
`ReturnDoneTrans` is `Report`, and the other steps leave the counts alone.

`QueueLemmas` holds the facts about queues that the other modules cite: lengths, an
element taken out or moved, how often something occurs. It restates the few facts
about sequences that are needed, rather than extend `SequenceTheorems`, because
every fact in scope slows down each of several thousand proof obligations.

Only model-checked:

* `WorkInOrder`, `RowsConserved`, `WritesConserved` and `DoneAtExit` of
  `Accelerator`: they compare queues with lists built up by recursion over the CSR,
  and with sums over engines. The library's induction theorems cannot be used, since
  no prover instantiates their operator parameter; an induction over sets of numbers
  can take their place, but makes a proof several times as long, and is not part of
  this development;
* `TypeOK` of `Accelerator`, whose bounds on `total_write` and on the passes of the
  SIMD units rest on the same sums;
* the properties of `Preprocessor`, whose loops are folds, for the first reason;
* `QueuedOnce`, `NeverAborts`, `DataBusFree`, `RefreshInTime` and `WriteAfterRead` of
  `JedecDram`: they hold for some configurations only (see the restrictions above)
  and rest on the order of the delays;
* liveness throughout, since fairness is beyond the proof system.

## Not modelled

* Values and arithmetic of features: the simulator itself moves addresses only.
* Cycle numbers, statistics, power and progress output.
* `Combination`, which no code calls, and the parsing of options and ini files,
  which only sets constants.
* In DRAMsim3: the HMC system and the delays only GDDR and LPDDR4 use (no file
  under `src/configs` names such a memory), `IdealDRAMSystem` (never
  constructed), the thermal solver (compiled only on request, floating point),
  the trace players.
* Vendored libraries: `jsoncpp.cc` and, below `DRAMsim3/ext`, `json.hpp`,
  `catch.hpp`, `fmt`, `args.hxx` and the ini reader. They are four fifths of
  all lines of the repository; the simulator uses them to read options and to
  write statistics.

## Plan

1. Proofs: `TypeOK` of the inference loop and those parts of the conservation of
   writes that need no induction, and `QueuedOnce` for every configuration with one
   rank or one command a cycle.
2. The HMC system, should a configuration come to use it.
