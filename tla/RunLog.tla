------------------------------- MODULE RunLog ------------------------------
(***************************************************************************)
(* Several simulator processes started side by side (src/src/main.cc):     *)
(* each takes a fresh directory under results/, simulates, reads back the  *)
(* DRAM statistics from that directory, and appends a row to a common csv  *)
(* file under a lock file.  A step is one call to the file system.         *)
(***************************************************************************)
EXTENDS Integers, Sequences, FiniteSets

CONSTANTS
    Process,   \* the processes, all given the same csv_path
    Writes     \* writes of one PrintStats to dramsim3.json: the first is "{",
               \* then the channels' statistics and the commas between them,
               \* each in one or several writes, and "}"

ASSUME ProcessAssumption == IsFiniteSet(Process)

ASSUME WritesAssumption == Writes \in Nat /\ Writes > 1

VARIABLES
    pc,       \* the call process p makes next
    idx,      \* idx[p]: the number of its result directory
    dirs,     \* numbers of the directories that exist
    json,     \* json[d]: what dramsim3.json in directory d holds
    printed,  \* printed[p]: the writes p has made to it
    seen,     \* seen[p]: what the file held when p started to read it
    logged,   \* logged[p]: whose bandwidth and energy p has read, {} for none
    lock,     \* the lock file exists
    csv       \* lines of the csv file, each the sequence of rows put there

vars == <<pc, idx, dirs, json, printed, seen, logged, lock, csv>>

Directory == 0 .. Cardinality(Process)

\* A piece of dramsim3.json: the n-th write of a process.
Piece == [by : Process, n : 1 .. Writes]

Init ==
    /\ pc = [p \in Process |-> "stat"]
    /\ idx = [p \in Process |-> 0]
    /\ dirs = {}
    /\ json = [d \in Directory |-> <<>>]
    /\ printed = [p \in Process |-> 0]
    /\ seen = [p \in Process |-> <<>>]
    /\ logged = [p \in Process |-> {}]
    /\ lock = FALSE
    /\ csv = << <<>> >>

Goto(p, c, d) == pc[p] = c /\ pc' = [pc EXCEPT ![p] = d]

\* Mutant of Taken: the number is raised twice.
TakenTwice(p) ==
    /\ idx[p] \in dirs
    /\ Goto(p, "stat", "stat")
    /\ idx' = [idx EXCEPT ![p] = @ + 2]
    /\ UNCHANGED <<dirs, json, printed, seen, logged, lock, csv>>

\* The search for a directory that does not exist yet ...
Taken(p) ==
    /\ idx[p] \in dirs
    /\ Goto(p, "stat", "stat")
    /\ idx' = [idx EXCEPT ![p] = @ + 1]
    /\ UNCHANGED <<dirs, json, printed, seen, logged, lock, csv>>

Free(p) ==
    /\ idx[p] \notin dirs
    /\ Goto(p, "stat", "mkdir")
    /\ UNCHANGED <<idx, dirs, json, printed, seen, logged, lock, csv>>

\* ... and its creation, the result of which is not looked at.
MakeDirectory(p) ==
    /\ Goto(p, "mkdir", "simulate")
    /\ dirs' = dirs \cup {idx[p]}
    /\ UNCHANGED <<idx, json, printed, seen, logged, lock, csv>>

\* Inference; then PrintMemoryStats makes the DRAM simulator open its
\* statistics file, which empties it, whoever had written there.
Simulate(p) ==
    /\ Goto(p, "simulate", "print")
    /\ json' = [json EXCEPT ![idx[p]] = <<>>]
    /\ UNCHANGED <<idx, dirs, printed, seen, logged, lock, csv>>

\* File f after the n-th write of p.  The first one goes to the start of the
\* file: the same byte over the "{" of another process, else the spoilt start
\* of what is there.  The others go to the end.
Written(f, p, n) ==
    IF n > 1 THEN Append(f, [by |-> p, n |-> n])
    ELSE <<[by |-> p, n |-> 1]>> \o (IF f # <<>> /\ f[1].n = 1 THEN Tail(f) ELSE f)

\* Mutant of PrintStats: the file is taken to be finished before the last write.
PrintStatsShort(p) ==
    /\ Goto(p, "print", IF printed[p] + 2 = Writes THEN "read" ELSE "print")
    /\ json' = [json EXCEPT ![idx[p]] = Written(@, p, printed[p] + 1)]
    /\ printed' = [printed EXCEPT ![p] = @ + 1]
    /\ UNCHANGED <<idx, dirs, seen, logged, lock, csv>>

\* One write of PrintStats or of a channel's PrintFinalStats.
PrintStats(p) ==
    /\ Goto(p, "print", IF printed[p] + 1 = Writes THEN "read" ELSE "print")
    /\ json' = [json EXCEPT ![idx[p]] = Written(@, p, printed[p] + 1)]
    /\ printed' = [printed EXCEPT ![p] = @ + 1]
    /\ UNCHANGED <<idx, dirs, seen, logged, lock, csv>>

\* The file is longer than a stream's buffer: main reads its start ...
ReadJson(p) ==
    /\ Goto(p, "read", "parse")
    /\ seen' = [seen EXCEPT ![p] = json[idx[p]]]
    /\ UNCHANGED <<idx, dirs, json, printed, logged, lock, csv>>

Writers(f) == {f[k].by : k \in DOMAIN f}

\* f holds the statistics of q, complete and nothing else.
Whole(f, q) ==
    /\ Len(f) = Writes
    /\ f[1].n = 1
    /\ \A k \in 2 .. Writes : f[k] = [by |-> q, n |-> k]

\* p reads the complete statistics of q, which do not change meanwhile.
Intact(p, q) == json[idx[p]] = seen[p] /\ Whole(seen[p], q)

\* ... and its end, and parses it, without a look at the result.  What comes of
\* a file that is not intact depends on where the writes meet: a member that
\* is missing is read as 0, and a value that is there is of anyone who wrote.
ParseJson(p) ==
    /\ Goto(p, "parse", "exists")
    /\ \E of \in SUBSET (Writers(seen[p]) \cup Writers(json[idx[p]])) :
        /\ \A q \in Process : Intact(p, q) => of = {q}
        /\ logged' = [logged EXCEPT ![p] = of]
    /\ seen' = [seen EXCEPT ![p] = <<>>]
    /\ UNCHANGED <<idx, dirs, json, printed, lock, csv>>

\* The root of such a file may also be no object (the file starts with the
\* name of a channel if it was emptied after the "{"); then root["0"] throws,
\* nothing catches it, and the process ends.
Abort(p) ==
    /\ Writers(seen[p]) \cup Writers(json[idx[p]]) # {}
    /\ ~\E q \in Process : Intact(p, q)
    /\ Goto(p, "parse", "aborted")
    /\ seen' = [seen EXCEPT ![p] = <<>>]
    /\ UNCHANGED <<idx, dirs, json, printed, logged, lock, csv>>

\* One iteration of the loop on the lock file: while it exists, try again.
Exists(p) ==
    /\ Goto(p, "exists", IF lock THEN "exists" ELSE "create")
    /\ UNCHANGED <<idx, dirs, json, printed, seen, logged, lock, csv>>

CreateLock(p) ==
    /\ Goto(p, "create", "endl")
    /\ lock' = TRUE
    /\ UNCHANGED <<idx, dirs, json, printed, seen, logged, csv>>

\* A row starts with endl, which goes to the file at once ...
AppendLine(p) ==
    /\ Goto(p, "endl", "append")
    /\ csv' = Append(csv, <<>>)
    /\ UNCHANGED <<idx, dirs, json, printed, seen, logged, lock>>

\* ... while the rest is shorter than the stream's buffer and goes out when
\* the stream is closed, to the end of the file as it is then.
AppendRow(p) ==
    /\ Goto(p, "append", "remove")
    /\ csv' = [csv EXCEPT ![Len(csv)] = Append(@, [by |-> p, of |-> logged[p]])]
    /\ UNCHANGED <<idx, dirs, json, printed, seen, logged, lock>>

\* Mutant of RemoveLock: the lock file stays.
RemoveLockNot(p) ==
    /\ Goto(p, "remove", "done")
    /\ UNCHANGED <<idx, dirs, json, printed, seen, logged, lock, csv>>

RemoveLock(p) ==
    /\ Goto(p, "remove", "done")
    /\ lock' = FALSE
    /\ UNCHANGED <<idx, dirs, json, printed, seen, logged, csv>>

Step(p) ==
    \/ Taken(p) \/ Free(p) \/ MakeDirectory(p) \/ Simulate(p) \/ PrintStats(p)
    \/ ReadJson(p) \/ ParseJson(p) \/ Abort(p) \/ Exists(p) \/ CreateLock(p)
    \/ AppendLine(p) \/ AppendRow(p) \/ RemoveLock(p)

AllEnded == (\A p \in Process : pc[p] \in {"done", "aborted"}) /\ UNCHANGED vars

Next == (\E p \in Process : Step(p)) \/ AllEnded

Spec == Init /\ [][Next]_vars

\* The operating system schedules every process.
Fairness == \A p \in Process : WF_vars(Step(p))

-----------------------------------------------------------------------------

\* Types; a process never looks for more directories than there are processes.
TypeOK ==
    /\ pc \in [Process -> {"stat", "mkdir", "simulate", "print", "read", "parse",
                           "exists", "create", "endl", "append", "remove",
                           "done", "aborted"}]
    /\ idx \in [Process -> Directory]
    /\ dirs \subseteq Directory
    /\ json \in [Directory -> Seq(Piece)]
    /\ printed \in [Process -> 0 .. Writes]
    /\ seen \in [Process -> Seq(Piece)]
    /\ logged \in [Process -> SUBSET Process]
    /\ lock \in BOOLEAN

\* Rows do not run into each other: a line of the csv file holds at most one
\* row.  This is what the "Locking Mechanism for Large Scale Queueing"
\* (main.cc:82) around "Append for CSV" (main.cc:94) is for.
OneRowPerLine == \A k \in DOMAIN csv : Len(csv[k]) <= 1

Rows == UNION {{<<k, n>> : n \in DOMAIN csv[k]} : k \in DOMAIN csv}

\* The processes that have found directory d free ...
Users(d) == {q \in Process : idx[q] = d /\ pc[q] # "stat"}

\* ... and with it the directory of p.
Sharing(p) == Users(idx[p])

\* A finished process has added one row and no other row bears its name, also
\* when two of them held the lock at once (main.cc:93-115).  What it has
\* read back of the statistics (main.cc:78-81) comes from processes that found
\* the same directory free (main.cc:49-54), and if there was no other it is its
\* own, complete, although the file is written and read in many steps.  With
\* another it may be anything: the other's, a mixture, or 0.
RowsComplete ==
    /\ \A p \in Process :
        Cardinality({r \in Rows : csv[r[1]][r[2]].by = p})
            = IF pc[p] \in {"remove", "done"} THEN 1 ELSE 0
    /\ \A r \in Rows : LET row == csv[r[1]][r[2]] IN
        /\ row.of \subseteq Sharing(row.by)
        /\ Sharing(row.by) = {row.by} => row.of = {row.by}

\* When all processes have ended no lock file is left over to block the
\* next ones, although a process may remove the lock of another (main.cc:115)
\* and one that aborts never gets there.
LockReleased == (\A p \in Process : pc[p] \in {"done", "aborted"}) => ~lock

\* Every process gets its row in (main.cc:85-92: the loop ends), unless it had
\* to share its directory and could not make sense of the statistics there.
AllFinish ==
    <>(\A p \in Process : \/ pc[p] = "done"
                          \/ pc[p] = "aborted" /\ Sharing(p) # {p})

=============================================================================
