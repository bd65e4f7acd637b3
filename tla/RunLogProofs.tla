---------------------------- MODULE RunLogProofs ---------------------------
(***************************************************************************)
(* Proofs about RunLog, for any finite number of processes.                *)
(***************************************************************************)
EXTENDS RunLog, FiniteSetTheorems, TLAPS

Row == [by : Process, of : SUBSET Process]

CsvType == csv \in Seq(Seq(Row)) /\ Len(csv) > 0

\* Directories are taken from 0 on, each by a process that is past mkdir.
DirsSound ==
    /\ \A p \in Process : pc[p] \notin {"stat", "mkdir"} => idx[p] \in dirs
    /\ \A p \in Process : 0 .. idx[p] - 1 \subseteq dirs
    /\ \A d \in dirs : \E p \in Process : idx[p] = d /\ pc[p] \notin {"stat", "mkdir"}

\* What is in a statistics file was written by users of its directory.
FilesSound == \A d \in Directory : Writers(json[d]) \subseteq Users(d)

\* How far a process is with its writes.
PrintSound ==
    \A p \in Process :
        /\ pc[p] \in {"stat", "mkdir", "simulate"} => printed[p] = 0
        /\ pc[p] = "print" => printed[p] < Writes

\* The first n writes of p and nothing else.
Own(p, n) == [k \in 1 .. n |-> [by |-> p, n |-> k]]

\* A process that has its directory to itself finds there what it has written.
AloneSound ==
    \A p \in Process : Sharing(p) = {p} =>
        /\ pc[p] = "print" => json[idx[p]] = Own(p, printed[p])
        /\ pc[p] \in {"read", "parse"} => json[idx[p]] = Own(p, Writes)
        /\ pc[p] = "parse" => seen[p] = Own(p, Writes)

\* What is read and logged.
LoggedSound ==
    \A p \in Process :
        /\ pc[p] = "parse" => Writers(seen[p]) \subseteq Sharing(p)
        /\ pc[p] \in {"exists", "create", "endl", "append", "remove", "done"} =>
              /\ logged[p] \subseteq Sharing(p)
              /\ Sharing(p) = {p} => logged[p] = {p}

StatisticsSound == FilesSound /\ PrintSound /\ AloneSound /\ LoggedSound

\* The lock file belongs to someone who will remove it.
LockSound == lock => \E p \in Process : pc[p] \in {"endl", "append", "remove"}

RowsBy(p) == {r \in Rows : csv[r[1]][r[2]].by = p}

RowsSound ==
    /\ \A p \in Process :
        IF pc[p] \in {"remove", "done"} THEN \E r \in Rows : RowsBy(p) = {r} ELSE RowsBy(p) = {}
    /\ \A r \in Rows : LET row == csv[r[1]][r[2]]
                      IN  row.by \in Process /\ row.of = logged[row.by]

\* The inductive invariant.
IInv == TypeOK /\ CsvType /\ DirsSound /\ StatisticsSound /\ LockSound /\ RowsSound

-----------------------------------------------------------------------------

\* Before main starts there is neither a directory nor a lock nor a row.
LEMMA InitInv == Init => IInv
<1> SUFFICES ASSUME Init PROVE IInv
  OBVIOUS
<1>1. Cardinality(Process) \in Nat
  BY ProcessAssumption, FS_CardinalityType
<1>2. TypeOK
  <2>1. 0 \in Directory
    BY <1>1 DEF Directory
  <2>2. idx \in [Process -> Directory] /\ json \in [Directory -> Seq(Piece)]
        /\ printed \in [Process -> 0 .. Writes] /\ seen \in [Process -> Seq(Piece)]
    BY <2>1, WritesAssumption DEF Init
  <2> QED
    BY <2>2 DEF Init, TypeOK
<1>3. CsvType
  BY DEF Init, CsvType
<1>4. DirsSound
  BY DEF Init, DirsSound
<1>5. StatisticsSound
  <2>1. \A d \in Directory : json[d] = <<>>
    BY DEF Init
  <2>2. FilesSound
    BY <2>1 DEF FilesSound, Writers
  <2>3. PrintSound /\ AloneSound /\ LoggedSound
    BY DEF Init, PrintSound, AloneSound, LoggedSound
  <2> QED
    BY <2>2, <2>3 DEF StatisticsSound
<1>6. LockSound
  BY DEF Init, LockSound
<1>7. Rows = {}
  BY DEF Init, Rows
<1>8. RowsSound
  BY <1>7 DEF Init, RowsSound, RowsBy
<1> QED
  BY <1>2, <1>3, <1>4, <1>5, <1>6, <1>8 DEF IInv

\* Whoever wrote to a file is a process.
LEMMA WritersType ==
    ASSUME NEW f \in Seq(Piece) PROVE Writers(f) \subseteq Process
<1>1. \A k \in DOMAIN f : f[k] \in Piece
  OBVIOUS
<1>2. \A x \in Piece : x.by \in Process
  BY DEF Piece
<1> QED
  BY <1>1, <1>2 DEF Writers

\* What a write makes of a file (dram_system.cc:62-75, simple_stats.cc:121-123).
LEMMA WrittenFacts ==
    ASSUME NEW f \in Seq(Piece), NEW p \in Process, NEW n \in 1 .. Writes
    PROVE  /\ Written(f, p, n) \in Seq(Piece)
           /\ Writers(Written(f, p, n)) \subseteq Writers(f) \cup {p}
<1> DEFINE new == [by |-> p, n |-> n]
           rest == IF f # <<>> /\ f[1].n = 1 THEN Tail(f) ELSE f
<1>1. new \in Piece /\ new.by = p
  BY DEF Piece
<1>2. CASE n > 1
  <2>1. Written(f, p, n) = Append(f, new)
    BY <1>2 DEF Written
  <2> HIDE DEF new
  <2>2. /\ Append(f, new) \in Seq(Piece) /\ DOMAIN Append(f, new) = 1 .. Len(f) + 1
        /\ DOMAIN f = 1 .. Len(f) /\ Len(f) \in Nat
        /\ \A k \in 1 .. Len(f) : Append(f, new)[k] = f[k]
        /\ Append(f, new)[Len(f) + 1] = new
    BY <1>1
  <2>3. \A k \in 1 .. Len(f) + 1 : Append(f, new)[k].by \in Writers(f) \cup {p}
    BY <1>1, <2>2 DEF Writers
  <2> QED
    BY <2>1, <2>2, <2>3 DEF Writers
<1>3. CASE ~(n > 1)
  <2>1. Written(f, p, n) = <<new>> \o rest
    BY <1>3, WritesAssumption DEF Written
  <2>2. rest \in Seq(Piece) /\ Writers(rest) \subseteq Writers(f)
    <3>1. CASE f # <<>> /\ f[1].n = 1
      <4>1. /\ rest = Tail(f) /\ Tail(f) \in Seq(Piece) /\ Len(f) \in Nat /\ Len(f) > 0
            /\ DOMAIN Tail(f) = 1 .. Len(f) - 1 /\ DOMAIN f = 1 .. Len(f)
            /\ \A k \in 1 .. Len(f) - 1 : Tail(f)[k] = f[k + 1] /\ k + 1 \in 1 .. Len(f)
        BY <3>1
      <4> QED
        BY <4>1 DEF Writers
    <3> QED
      BY <3>1
  <2> HIDE DEF new, rest
  <2>3. /\ <<new>> \o rest \in Seq(Piece) /\ DOMAIN (<<new>> \o rest) = 1 .. Len(rest) + 1
        /\ DOMAIN rest = 1 .. Len(rest) /\ Len(rest) \in Nat
        /\ (<<new>> \o rest)[1] = new
        /\ \A k \in 1 .. Len(rest) + 1 :
               k # 1 => k - 1 \in 1 .. Len(rest) /\ (<<new>> \o rest)[k] = rest[k - 1]
    BY <1>1, <2>2
  <2>4. \A k \in 1 .. Len(rest) + 1 : (<<new>> \o rest)[k].by \in Writers(rest) \cup {p}
    BY <1>1, <2>3 DEF Writers
  <2> QED
    BY <2>1, <2>2, <2>3, <2>4 DEF Writers
<1> QED
  BY <1>2, <1>3

\* The writes of one process alone, one after the other.
LEMMA OwnFacts ==
    ASSUME NEW p \in Process
    PROVE  /\ Own(p, 0) = <<>>
           /\ \A n \in 1 .. Writes : Written(Own(p, n - 1), p, n) = Own(p, n)
           /\ Whole(Own(p, Writes), p) /\ Writers(Own(p, Writes)) = {p}
<1> USE WritesAssumption
<1>1. \A n \in Nat : n <= Writes => Own(p, n) \in Seq(Piece) /\ Len(Own(p, n)) = n
  BY DEF Own, Piece
<1>2. Own(p, 0) = <<>>
  BY <1>1
<1>3. ASSUME NEW n \in 1 .. Writes PROVE Written(Own(p, n - 1), p, n) = Own(p, n)
  <2>1. CASE n = 1
    BY <1>2, <2>1 DEF Written, Own
  <2>2. CASE n # 1
    <3> DEFINE f == Own(p, n - 1)
               g == Own(p, n)
               new == [by |-> p, n |-> n]
    <3>1. Written(f, p, n) = Append(f, new) /\ new \in Piece
      BY <2>2 DEF Written, Piece
    <3>2. f \in Seq(Piece) /\ Len(f) = n - 1 /\ g \in Seq(Piece) /\ Len(g) = n
      BY <1>1, <2>2
    <3>3. (\A k \in 1 .. n - 1 : f[k] = g[k]) /\ g[n] = new
      BY <2>2 DEF Own
    <3>4. Append(f, new) = g
      <4> HIDE DEF f, g, new
      <4>1. /\ Append(f, new) \in Seq(Piece) /\ Len(Append(f, new)) = n
            /\ \A k \in 1 .. n : Append(f, new)[k] = g[k]
        BY <3>1, <3>2, <3>3
      <4> QED
        BY <3>2, <4>1
    <3> QED
      BY <3>1, <3>4
  <2> QED
    BY <2>1, <2>2
<1>4. Whole(Own(p, Writes), p)
  <2>1. \A k \in 1 .. Writes : Own(p, Writes)[k] = [by |-> p, n |-> k]
    BY DEF Own
  <2>2. Own(p, Writes)[1] = [by |-> p, n |-> 1]
    BY <2>1
  <2>3. Own(p, Writes)[1].n = 1
    BY <2>2
  <2>4. Len(Own(p, Writes)) = Writes
    BY <1>1
  <2> QED
    BY <2>1, <2>3, <2>4 DEF Whole
<1>5. Writers(Own(p, Writes)) = {p}
  BY DEF Writers, Own
<1> QED
  BY <1>2, <1>3, <1>4, <1>5

\* The search in main.cc:49-52 meets at most one directory per process.
LEMMA FewDirectories ==
    ASSUME TypeOK, DirsSound, NEW p \in Process, idx[p] \in dirs
    PROVE  idx[p] + 1 \in Directory
<1>1. Cardinality(Process) \in Nat
  BY ProcessAssumption, FS_CardinalityType
<1>2. idx \in [Process -> Nat] /\ idx[p] \in Nat
  BY <1>1 DEF TypeOK, Directory
<1> DEFINE T == {idx[q] : q \in Process}
<1>3. idx \in Surjection(Process, T)
  BY <1>2 DEF Surjection
<1>4. IsFiniteSet(T) /\ Cardinality(T) <= Cardinality(Process)
  BY <1>3, ProcessAssumption, FS_Surjection
<1>5. 0 .. idx[p] \subseteq T
  <2> SUFFICES ASSUME NEW d \in 0 .. idx[p] PROVE d \in T
    OBVIOUS
  <2>1. d \in dirs
    BY <1>2 DEF DirsSound
  <2> QED
    BY <2>1 DEF DirsSound
<1>6. Cardinality(0 .. idx[p]) <= Cardinality(T)
  BY <1>4, <1>5, FS_Subset
<1>7. Cardinality(0 .. idx[p]) = idx[p] + 1
  BY <1>2, FS_Interval
<1>8. Cardinality(T) \in Nat
  BY <1>4, FS_CardinalityType
<1> HIDE DEF T
<1> QED
  BY <1>1, <1>2, <1>4, <1>6, <1>7, <1>8 DEF Directory

\* Every call of main keeps the types.
LEMMA TypeStep == IInv /\ [Next]_vars => TypeOK'
<1> SUFFICES ASSUME IInv, [Next]_vars PROVE TypeOK'
  OBVIOUS
<1> USE DEF TypeOK
<1>1. TypeOK /\ DirsSound /\ StatisticsSound
  BY DEF IInv
<1>2. CASE UNCHANGED vars
  BY <1>1, <1>2 DEF vars
<1>3. CASE AllEnded
  BY <1>1, <1>3 DEF vars, AllEnded
<1>4. ASSUME NEW p \in Process, Step(p) PROVE TypeOK'
  <2>1. CASE Taken(p)
    <3>1. idx[p] + 1 \in Directory
      BY <1>1, <2>1, FewDirectories DEF Taken
    <3> QED
      BY <1>1, <2>1, <3>1 DEF Taken, Goto
  <2>2. CASE Free(p)
    BY <1>1, <2>2 DEF Free, Goto
  <2>3. CASE MakeDirectory(p)
    BY <1>1, <2>3 DEF MakeDirectory, Goto
  <2>4. CASE Simulate(p)
    BY <1>1, <2>4 DEF Simulate, Goto
  <2>5. CASE PrintStats(p)
    <3>1. printed[p] \in Nat /\ printed[p] < Writes
      BY <1>1, <2>5 DEF PrintStats, Goto, StatisticsSound, PrintSound
    <3>2. printed[p] + 1 \in 1 .. Writes
      BY <3>1, WritesAssumption
    <3>3. Written(json[idx[p]], p, printed[p] + 1) \in Seq(Piece)
      BY <1>1, <3>2, WrittenFacts
    <3> QED
      BY <1>1, <2>5, <3>2, <3>3 DEF PrintStats, Goto
  <2>6. CASE ReadJson(p)
    BY <1>1, <2>6 DEF ReadJson, Goto
  <2>7. CASE ParseJson(p)
    <3>1. Writers(seen[p]) \cup Writers(json[idx[p]]) \subseteq Process
      BY <1>1, WritersType
    <3> QED
      BY <1>1, <2>7, <3>1 DEF ParseJson, Goto
  <2>8. CASE Abort(p)
    BY <1>1, <2>8 DEF Abort, Goto
  <2>9. CASE Exists(p)
    BY <1>1, <2>9 DEF Exists, Goto
  <2>10. CASE CreateLock(p)
    BY <1>1, <2>10 DEF CreateLock, Goto
  <2>11. CASE AppendLine(p)
    BY <1>1, <2>11 DEF AppendLine, Goto
  <2>12. CASE AppendRow(p)
    BY <1>1, <2>12 DEF AppendRow, Goto
  <2>13. CASE RemoveLock(p)
    BY <1>1, <2>13 DEF RemoveLock, Goto
  <2> QED
    BY <1>4, <2>1, <2>2, <2>3, <2>4, <2>5, <2>6, <2>7, <2>8, <2>9, <2>10, <2>11, <2>12, <2>13 DEF Step
<1> QED
  BY <1>2, <1>3, <1>4 DEF Next

\* A directory is not lost once made, and the next number is looked at only if
\* the one before is taken (main.cc:49-54).
LEMMA DirsStep == IInv /\ [Next]_vars => DirsSound'
<1> SUFFICES ASSUME IInv, [Next]_vars PROVE DirsSound'
  OBVIOUS
<1> USE DEF DirsSound
<1>1. TypeOK /\ DirsSound
  BY DEF IInv
<1>2. CASE UNCHANGED vars
  BY <1>1, <1>2 DEF vars
<1>3. CASE AllEnded
  BY <1>1, <1>3 DEF vars, AllEnded
<1>4. ASSUME NEW p \in Process, Step(p) PROVE DirsSound'
  <2>1. CASE Taken(p)
    <3>1. Cardinality(Process) \in Nat
      BY ProcessAssumption, FS_CardinalityType
    <3>2. idx[p] \in dirs /\ idx[p] \in Nat /\ dirs' = dirs /\ pc' = pc
      BY <1>1, <2>1, <3>1 DEF Taken, Goto, TypeOK, Directory
    <3>3. \A q \in Process : idx'[q] = IF q = p THEN idx[p] + 1 ELSE idx[q]
      BY <1>1, <2>1 DEF Taken, TypeOK
    <3>4. \A q \in Process : 0 .. idx'[q] - 1 \subseteq dirs
      BY <1>1, <3>2, <3>3
    <3>5. \A d \in dirs : \E q \in Process : idx[q] = d /\ pc[q] \notin {"stat", "mkdir"}
      BY <1>1
    <3> QED
      BY <1>1, <2>1, <3>2, <3>3, <3>4, <3>5 DEF Taken, Goto
  <2>2. CASE Free(p)
    BY <1>1, <2>2 DEF Free, Goto, TypeOK
  <2>3. CASE MakeDirectory(p)
    BY <1>1, <2>3 DEF MakeDirectory, Goto, TypeOK
  <2>4. CASE Simulate(p)
    BY <1>1, <2>4 DEF Simulate, Goto, TypeOK
  <2>5. CASE PrintStats(p)
    BY <1>1, <2>5 DEF PrintStats, Goto, TypeOK
  <2>6. CASE ReadJson(p)
    BY <1>1, <2>6 DEF ReadJson, Goto, TypeOK
  <2>7. CASE ParseJson(p)
    BY <1>1, <2>7 DEF ParseJson, Goto, TypeOK
  <2>8. CASE Abort(p)
    BY <1>1, <2>8 DEF Abort, Goto, TypeOK
  <2>9. CASE Exists(p)
    BY <1>1, <2>9 DEF Exists, Goto, TypeOK
  <2>10. CASE CreateLock(p)
    BY <1>1, <2>10 DEF CreateLock, Goto, TypeOK
  <2>11. CASE AppendLine(p)
    BY <1>1, <2>11 DEF AppendLine, Goto, TypeOK
  <2>12. CASE AppendRow(p)
    BY <1>1, <2>12 DEF AppendRow, Goto, TypeOK
  <2>13. CASE RemoveLock(p)
    BY <1>1, <2>13 DEF RemoveLock, Goto, TypeOK
  <2> QED
    BY <1>4, <2>1, <2>2, <2>3, <2>4, <2>5, <2>6, <2>7, <2>8, <2>9, <2>10, <2>11, <2>12, <2>13 DEF Step
<1> QED
  BY <1>2, <1>3, <1>4 DEF Next

\* A step is one of one process.
LEMMA OthersStay ==
    ASSUME TypeOK, NEW p \in Process, Step(p)
    PROVE  \A q \in Process : q # p =>
               /\ pc'[q] = pc[q] /\ idx'[q] = idx[q] /\ printed'[q] = printed[q]
               /\ seen'[q] = seen[q] /\ logged'[q] = logged[q]
BY DEF TypeOK, Step, Goto,
       Taken, Free, MakeDirectory, Simulate, PrintStats, ReadJson, ParseJson,
       Abort, Exists, CreateLock, AppendLine, AppendRow, RemoveLock

\* Once the number of a directory is found free it does not change.
LEMMA UsersStay ==
    ASSUME TypeOK, NEW p \in Process, Step(p)
    PROVE  \A d : Users(d) \subseteq Users(d)'
<1>1. pc[p] # "stat" => idx'[p] = idx[p] /\ pc'[p] # "stat"
  BY DEF TypeOK, Step, Goto,
         Taken, Free, MakeDirectory, Simulate, PrintStats, ReadJson, ParseJson,
         Abort, Exists, CreateLock, AppendLine, AppendRow, RemoveLock
<1> QED
  BY <1>1, OthersStay DEF Users

\* Nobody joins the users of a directory that exists (main.cc:49).
LEMMA NobodyJoins ==
    ASSUME TypeOK, DirsSound, NEW p \in Process, Step(p),
           NEW q \in Process, pc[q] \notin {"stat", "mkdir"}
    PROVE  /\ Sharing(q)' = Sharing(q) /\ idx'[q] = idx[q]
           /\ pc'[q] \notin {"stat", "mkdir"}
<1>1. pc[p] # "stat" => idx'[p] = idx[p] /\ pc'[p] # "stat"
  BY DEF TypeOK, Step, Goto,
         Taken, Free, MakeDirectory, Simulate, PrintStats, ReadJson, ParseJson,
         Abort, Exists, CreateLock, AppendLine, AppendRow, RemoveLock
<1>2. pc[p] \notin {"stat", "mkdir"} => pc'[p] \notin {"stat", "mkdir"}
  BY DEF TypeOK, Step, Goto,
         Taken, Free, MakeDirectory, Simulate, PrintStats, ReadJson, ParseJson,
         Abort, Exists, CreateLock, AppendLine, AppendRow, RemoveLock
<1>3. pc[p] = "stat" => pc'[p] = "stat" \/ (idx[p] \notin dirs /\ idx'[p] = idx[p])
  BY DEF TypeOK, Step, Goto,
         Taken, Free, MakeDirectory, Simulate, PrintStats, ReadJson, ParseJson,
         Abort, Exists, CreateLock, AppendLine, AppendRow, RemoveLock
<1>4. idx[q] \in dirs
  BY DEF DirsSound
<1>5. idx'[q] = idx[q] /\ pc'[q] \notin {"stat", "mkdir"}
  BY <1>1, <1>2, OthersStay
<1>6. \A r \in Process : (idx'[r] = idx[q] /\ pc'[r] # "stat") <=> (idx[r] = idx[q] /\ pc[r] # "stat")
  BY <1>1, <1>3, <1>4, OthersStay
<1> QED
  BY <1>5, <1>6 DEF Sharing, Users

\* Only users of a directory write to its file (dram_system.cc:62-75).
LEMMA FilesStep ==
    ASSUME IInv, NEW p \in Process, Step(p)
    PROVE  FilesSound'
<1>1. TypeOK /\ FilesSound /\ PrintSound
  BY DEF IInv, StatisticsSound
<1>2. idx[p] \in Directory /\ json \in [Directory -> Seq(Piece)]
  BY <1>1 DEF TypeOK
<1>3. SUFFICES ASSUME NEW d \in Directory PROVE Writers(json'[d]) \subseteq Users(d)'
  BY DEF FilesSound, Writers
<1>4. Users(d) \subseteq Users(d)' /\ Writers(json[d]) \subseteq Users(d)
  BY <1>1, UsersStay DEF FilesSound
<1>5. CASE json' = json
  BY <1>4, <1>5
<1>6. CASE Simulate(p)
  <2>1. json'[d] = IF d = idx[p] THEN <<>> ELSE json[d]
    BY <1>2, <1>6 DEF Simulate
  <2>2. Writers(<<>>) = {}
    BY DEF Writers
  <2> QED
    BY <1>4, <2>1, <2>2
<1>7. CASE PrintStats(p)
  <2>1. printed[p] + 1 \in 1 .. Writes
    BY <1>1, <1>7, WritesAssumption DEF PrintStats, Goto, PrintSound, TypeOK
  <2>2. json'[d] = IF d = idx[p] THEN Written(json[d], p, printed[p] + 1) ELSE json[d]
    BY <1>2, <1>7 DEF PrintStats
  <2>3. Writers(Written(json[d], p, printed[p] + 1)) \subseteq Writers(json[d]) \cup {p}
    BY <1>2, <2>1, WrittenFacts
  <2>4. p \in Users(idx[p])
    BY <1>7 DEF PrintStats, Goto, Users
  <2> QED
    BY <1>4, <2>2, <2>3, <2>4
<1>8. json' = json \/ Simulate(p) \/ PrintStats(p)
  BY DEF Step, Taken, Free, MakeDirectory, ReadJson, ParseJson,
         Abort, Exists, CreateLock, AppendLine, AppendRow, RemoveLock
<1> QED
  BY <1>5, <1>6, <1>7, <1>8

\* The writes of a process are counted (dram_system.cc:62-75).
LEMMA PrintStep ==
    ASSUME IInv, NEW p \in Process, Step(p)
    PROVE  PrintSound'
<1>1. TypeOK /\ PrintSound
  BY DEF IInv, StatisticsSound
<1>2. /\ pc'[p] \in {"stat", "mkdir", "simulate"} => printed'[p] = 0
      /\ pc'[p] = "print" => printed'[p] < Writes
  <2>1. CASE PrintStats(p)
    <3>1. printed[p] \in Nat /\ printed[p] < Writes /\ printed'[p] = printed[p] + 1
      BY <1>1, <2>1 DEF PrintStats, Goto, PrintSound, TypeOK
    <3>2. pc'[p] = IF printed[p] + 1 = Writes THEN "read" ELSE "print"
      BY <1>1, <2>1 DEF PrintStats, Goto, TypeOK
    <3> QED
      BY <3>1, <3>2, WritesAssumption
  <2>2. CASE ~PrintStats(p)
    <3>1. /\ printed' = printed
          /\ pc'[p] \in {"stat", "mkdir", "simulate"} => pc[p] \in {"stat", "mkdir"}
          /\ pc'[p] = "print" => pc[p] = "simulate"
      BY <1>1, <2>2 DEF TypeOK, Step, Goto, Taken, Free, MakeDirectory, Simulate, ReadJson,
             ParseJson, Abort, Exists, CreateLock, AppendLine, AppendRow, RemoveLock
    <3> QED
      BY <1>1, <3>1, WritesAssumption DEF PrintSound
  <2> QED
    BY <2>1, <2>2
<1> QED
  BY <1>1, <1>2, OthersStay DEF PrintSound

\* Nobody else touches the file of a process that is alone (main.cc:49-81).
LEMMA AloneStep ==
    ASSUME IInv, NEW p \in Process, Step(p)
    PROVE  AloneSound'
<1>1. TypeOK /\ DirsSound /\ PrintSound /\ AloneSound
  BY DEF IInv, StatisticsSound
<1>2. idx \in [Process -> Directory] /\ json \in [Directory -> Seq(Piece)]
  BY <1>1 DEF TypeOK
<1>3. SUFFICES ASSUME NEW q \in Process, Sharing(q)' = {q}
               PROVE  /\ pc'[q] = "print" => json'[idx'[q]] = Own(q, printed'[q])
                      /\ pc'[q] \in {"read", "parse"} => json'[idx'[q]] = Own(q, Writes)
                      /\ pc'[q] = "parse" => seen'[q] = Own(q, Writes)
  BY DEF AloneSound, Own
<1>4. SUFFICES ASSUME pc'[q] \in {"print", "read", "parse"}
               PROVE  /\ pc'[q] = "print" => json'[idx'[q]] = Own(q, printed'[q])
                      /\ pc'[q] \in {"read", "parse"} => json'[idx'[q]] = Own(q, Writes)
                      /\ pc'[q] = "parse" => seen'[q] = Own(q, Writes)
  OBVIOUS
<1>5. pc[q] \notin {"stat", "mkdir"}
  <2>1. pc[p] \in {"stat", "mkdir"} => pc'[p] \in {"stat", "mkdir", "simulate"}
    BY <1>1 DEF TypeOK, Step, Goto,
           Taken, Free, MakeDirectory, Simulate, PrintStats, ReadJson, ParseJson,
           Abort, Exists, CreateLock, AppendLine, AppendRow, RemoveLock
  <2> QED
    BY <1>1, <1>4, <2>1, OthersStay
<1>6. Sharing(q) = {q} /\ idx'[q] = idx[q] /\ idx[q] \in Directory
  BY <1>1, <1>2, <1>3, <1>5, NobodyJoins
<1>7. CASE q # p
  <2>1. idx[p] # idx[q] \/ pc[p] = "stat"
    BY <1>6, <1>7 DEF Sharing, Users
  <2>2. json'[idx[q]] = json[idx[q]]
    BY <1>2, <1>6, <2>1 DEF Step, Goto,
           Taken, Free, MakeDirectory, Simulate, PrintStats, ReadJson, ParseJson,
           Abort, Exists, CreateLock, AppendLine, AppendRow, RemoveLock
  <2> QED
    BY <1>1, <1>6, <1>7, <2>2, OthersStay DEF AloneSound
<1>8. CASE q = p
  <2>1. CASE Simulate(p)
    <3>1. pc'[p] = "print" /\ json'[idx[p]] = <<>> /\ printed'[p] = 0
      BY <1>1, <1>2, <2>1 DEF Simulate, Goto, TypeOK, PrintSound
    <3> QED
      BY <1>6, <1>8, <3>1, OwnFacts
  <2>2. CASE PrintStats(p)
    <3>1. /\ printed[p] \in Nat /\ printed[p] < Writes /\ printed'[p] = printed[p] + 1
          /\ json[idx[p]] = Own(p, printed[p])
      BY <1>1, <1>6, <1>8, <2>2 DEF PrintStats, Goto, PrintSound, TypeOK, AloneSound
    <3>2. json'[idx[p]] = Written(Own(p, printed[p]), p, printed[p] + 1)
      BY <1>2, <2>2, <3>1 DEF PrintStats
    <3>3. printed[p] + 1 \in 1 .. Writes /\ (printed[p] + 1) - 1 = printed[p]
      BY <3>1, WritesAssumption
    <3>4. Written(Own(p, (printed[p] + 1) - 1), p, printed[p] + 1) = Own(p, printed[p] + 1)
      BY <3>3, OwnFacts
    <3>5. pc'[p] = IF printed[p] + 1 = Writes THEN "read" ELSE "print"
      BY <1>1, <2>2 DEF PrintStats, Goto, TypeOK
    <3> QED
      BY <1>6, <1>8, <3>1, <3>2, <3>3, <3>4, <3>5
  <2>3. CASE ReadJson(p)
    <3>1. /\ pc[p] = "read" /\ pc'[p] = "parse" /\ json' = json
          /\ seen'[p] = json[idx[p]]
      BY <1>1, <2>3 DEF ReadJson, Goto, TypeOK
    <3> QED
      BY <1>1, <1>6, <1>8, <3>1 DEF AloneSound
  <2>4. CASE ~Simulate(p) /\ ~PrintStats(p) /\ ~ReadJson(p)
    BY <1>1, <1>4, <1>8, <2>4 DEF TypeOK, Step, Goto, Taken, Free, MakeDirectory, ParseJson,
           Abort, Exists, CreateLock, AppendLine, AppendRow, RemoveLock
  <2> QED
    BY <2>1, <2>2, <2>3, <2>4
<1> QED
  BY <1>7, <1>8

\* What a process reads was written by users of its directory, and is its own
\* if it is the only one (main.cc:78-81).
LEMMA LoggedStep ==
    ASSUME IInv, NEW p \in Process, Step(p)
    PROVE  LoggedSound'
<1> DEFINE Later == {"exists", "create", "endl", "append", "remove", "done"}
<1>1. TypeOK /\ DirsSound /\ FilesSound /\ AloneSound /\ LoggedSound
  BY DEF IInv, StatisticsSound
<1>2. SUFFICES ASSUME NEW q \in Process, pc'[q] \in Later \cup {"parse"}
               PROVE  /\ pc'[q] = "parse" => Writers(seen'[q]) \subseteq Sharing(q)'
                      /\ pc'[q] \in Later =>
                            /\ logged'[q] \subseteq Sharing(q)'
                            /\ Sharing(q)' = {q} => logged'[q] = {q}
  BY DEF LoggedSound, Writers
<1>3. pc[q] \notin {"stat", "mkdir"}
  <2>1. pc[p] \in {"stat", "mkdir"} => pc'[p] \in {"stat", "mkdir", "simulate"}
    BY <1>1 DEF TypeOK, Step, Goto,
           Taken, Free, MakeDirectory, Simulate, PrintStats, ReadJson, ParseJson,
           Abort, Exists, CreateLock, AppendLine, AppendRow, RemoveLock
  <2> QED
    BY <1>1, <1>2, <2>1, OthersStay
<1>4. Sharing(q)' = Sharing(q)
  BY <1>1, <1>3, NobodyJoins
<1>5. CASE q # p
  BY <1>1, <1>2, <1>4, <1>5, OthersStay DEF LoggedSound
<1>6. CASE q = p
  <2>1. CASE ReadJson(p)
    <3>1. pc'[p] = "parse" /\ seen'[p] = json[idx[p]] /\ idx[p] \in Directory
      BY <1>1, <2>1 DEF ReadJson, Goto, TypeOK
    <3>2. Writers(json[idx[p]]) \subseteq Sharing(p)
      BY <1>1, <3>1 DEF FilesSound, Sharing
    <3> QED
      BY <1>4, <1>6, <3>1, <3>2
  <2>2. CASE ParseJson(p)
    <3>1. /\ pc[p] = "parse" /\ pc'[p] = "exists" /\ idx[p] \in Directory
          /\ logged'[p] \subseteq Writers(seen[p]) \cup Writers(json[idx[p]])
          /\ \A r \in Process : Intact(p, r) => logged'[p] = {r}
      BY <1>1, <2>2 DEF ParseJson, Goto, TypeOK
    <3>2. Writers(json[idx[p]]) \subseteq Sharing(p) /\ Writers(seen[p]) \subseteq Sharing(p)
      BY <1>1, <3>1 DEF FilesSound, LoggedSound, Sharing
    <3>3. Sharing(p) = {p} => Intact(p, p)
      BY <1>1, <3>1, OwnFacts DEF AloneSound, Intact
    <3> QED
      BY <1>4, <1>6, <3>1, <3>2, <3>3
  <2>3. CASE ~ReadJson(p) /\ ~ParseJson(p)
    <3>1. logged' = logged /\ pc[p] \in Later /\ pc'[p] \in Later
      BY <1>1, <1>2, <1>6, <2>3 DEF TypeOK, Step, Goto, Taken, Free, MakeDirectory, Simulate,
             PrintStats, Abort, Exists, CreateLock, AppendLine, AppendRow, RemoveLock
    <3> QED
      BY <1>1, <1>4, <1>6, <3>1 DEF LoggedSound
  <2> QED
    BY <2>1, <2>2, <2>3
<1> QED
  BY <1>5, <1>6

\* Every call of main keeps what is known of the statistics.
LEMMA StatisticsStep == IInv /\ [Next]_vars => StatisticsSound'
<1> SUFFICES ASSUME IInv, [Next]_vars PROVE StatisticsSound'
  OBVIOUS
<1>1. StatisticsSound
  BY DEF IInv
<1>2. CASE UNCHANGED vars
  BY <1>1, <1>2 DEF vars, StatisticsSound, FilesSound, PrintSound, AloneSound, LoggedSound,
                    Sharing, Users, Writers, Own
<1>3. CASE AllEnded
  BY <1>1, <1>3 DEF AllEnded, vars, StatisticsSound, FilesSound, PrintSound, AloneSound,
                    LoggedSound, Sharing, Users, Writers, Own
<1>4. ASSUME NEW p \in Process, Step(p) PROVE StatisticsSound'
  BY <1>4, FilesStep, PrintStep, AloneStep, LoggedStep DEF StatisticsSound
<1> QED
  BY <1>2, <1>3, <1>4 DEF Next

\* Whoever creates the lock file removes one later (main.cc:86-115).
LEMMA LockStep == IInv /\ [Next]_vars => LockSound'
<1> SUFFICES ASSUME IInv, [Next]_vars PROVE LockSound'
  OBVIOUS
<1> USE DEF LockSound
<1>1. TypeOK /\ LockSound
  BY DEF IInv
<1>2. CASE UNCHANGED vars
  BY <1>1, <1>2 DEF vars
<1>3. CASE AllEnded
  BY <1>1, <1>3 DEF vars, AllEnded
<1>4. ASSUME NEW p \in Process, Step(p) PROVE LockSound'
  <2>1. CASE Taken(p)
    BY <1>1, <2>1 DEF Taken, Goto, TypeOK
  <2>2. CASE Free(p)
    BY <1>1, <2>2 DEF Free, Goto, TypeOK
  <2>3. CASE MakeDirectory(p)
    BY <1>1, <2>3 DEF MakeDirectory, Goto, TypeOK
  <2>4. CASE Simulate(p)
    BY <1>1, <2>4 DEF Simulate, Goto, TypeOK
  <2>5. CASE PrintStats(p)
    BY <1>1, <2>5 DEF PrintStats, Goto, TypeOK
  <2>6. CASE ReadJson(p)
    BY <1>1, <2>6 DEF ReadJson, Goto, TypeOK
  <2>7. CASE ParseJson(p)
    BY <1>1, <2>7 DEF ParseJson, Goto, TypeOK
  <2>8. CASE Abort(p)
    BY <1>1, <2>8 DEF Abort, Goto, TypeOK
  <2>9. CASE Exists(p)
    BY <1>1, <2>9 DEF Exists, Goto, TypeOK
  <2>10. CASE CreateLock(p)
    BY <1>1, <2>10 DEF CreateLock, Goto, TypeOK
  <2>11. CASE AppendLine(p)
    BY <1>1, <2>11 DEF AppendLine, Goto, TypeOK
  <2>12. CASE AppendRow(p)
    BY <1>1, <2>12 DEF AppendRow, Goto, TypeOK
  <2>13. CASE RemoveLock(p)
    BY <1>1, <2>13 DEF RemoveLock, Goto, TypeOK
  <2> QED
    BY <1>4, <2>1, <2>2, <2>3, <2>4, <2>5, <2>6, <2>7, <2>8, <2>9, <2>10, <2>11, <2>12, <2>13 DEF Step
<1> QED
  BY <1>2, <1>3, <1>4 DEF Next

\* The csv file only grows (main.cc:95-114).
LEMMA CsvStep == IInv /\ [Next]_vars => CsvType'
<1> SUFFICES ASSUME IInv, [Next]_vars PROVE CsvType'
  OBVIOUS
<1> USE DEF CsvType
<1>1. TypeOK /\ CsvType
  BY DEF IInv
<1>2. CASE UNCHANGED vars
  BY <1>1, <1>2 DEF vars
<1>3. CASE AllEnded
  BY <1>1, <1>3 DEF vars, AllEnded
<1>4. ASSUME NEW p \in Process, Step(p) PROVE CsvType'
  <2>1. CASE Taken(p)
    BY <1>1, <2>1 DEF Taken, Goto
  <2>2. CASE Free(p)
    BY <1>1, <2>2 DEF Free, Goto
  <2>3. CASE MakeDirectory(p)
    BY <1>1, <2>3 DEF MakeDirectory, Goto
  <2>4. CASE Simulate(p)
    BY <1>1, <2>4 DEF Simulate, Goto
  <2>5. CASE PrintStats(p)
    BY <1>1, <2>5 DEF PrintStats, Goto
  <2>6. CASE ReadJson(p)
    BY <1>1, <2>6 DEF ReadJson, Goto
  <2>7. CASE ParseJson(p)
    BY <1>1, <2>7 DEF ParseJson, Goto
  <2>8. CASE Abort(p)
    BY <1>1, <2>8 DEF Abort, Goto
  <2>9. CASE Exists(p)
    BY <1>1, <2>9 DEF Exists, Goto
  <2>10. CASE CreateLock(p)
    BY <1>1, <2>10 DEF CreateLock, Goto
  <2>11. CASE AppendLine(p)
    BY <1>1, <2>11 DEF AppendLine, Goto
  <2>12. CASE AppendRow(p)
    <3>1. csv[Len(csv)] \in Seq(Row) /\ [by |-> p, of |-> logged[p]] \in Row
      BY <1>1 DEF TypeOK, Row
    <3> QED
      BY <1>1, <2>12, <3>1 DEF AppendRow
  <2>13. CASE RemoveLock(p)
    BY <1>1, <2>13 DEF RemoveLock, Goto
  <2> QED
    BY <1>4, <2>1, <2>2, <2>3, <2>4, <2>5, <2>6, <2>7, <2>8, <2>9, <2>10, <2>11, <2>12, <2>13 DEF Step
<1> QED
  BY <1>2, <1>3, <1>4 DEF Next

\* A row of the csv file is a line and a place in it.
LEMMA Places ==
    ASSUME NEW c \in Seq(Seq(Row))
    PROVE  \A r : r \in UNION {{<<k, n>> : n \in DOMAIN c[k]} : k \in DOMAIN c} <=>
               \E k \in 1 .. Len(c) : \E n \in 1 .. Len(c[k]) : r = <<k, n>>
<1>1. \A k \in DOMAIN c : DOMAIN c[k] = 1 .. Len(c[k])
  OBVIOUS
<1>2. DOMAIN c = 1 .. Len(c)
  OBVIOUS
<1>3. \A r : r \in UNION {{<<k, n>> : n \in DOMAIN c[k]} : k \in DOMAIN c} <=>
               \E k \in DOMAIN c : \E n \in DOMAIN c[k] : r = <<k, n>>
  <2> SUFFICES ASSUME NEW r
               PROVE  r \in UNION {{<<k, n>> : n \in DOMAIN c[k]} : k \in DOMAIN c} <=>
                          \E k \in DOMAIN c : \E n \in DOMAIN c[k] : r = <<k, n>>
    OBVIOUS
  <2>1. r \in UNION {{<<k, n>> : n \in DOMAIN c[k]} : k \in DOMAIN c} <=>
            \E k \in DOMAIN c : r \in {<<k, n>> : n \in DOMAIN c[k]}
    BY Zenon
  <2>2. \A k \in DOMAIN c : r \in {<<k, n>> : n \in DOMAIN c[k]} <=>
                                \E n \in DOMAIN c[k] : r = <<k, n>>
    BY Zenon
  <2> QED
    BY <2>1, <2>2, Zenon
<1> QED
  BY <1>1, <1>2, <1>3, Zenon

\* The same for the csv file as it is (main.cc:95-114) ...
LEMMA RowsMember ==
    ASSUME CsvType
    PROVE  \A r : r \in Rows <=>
               \E k \in 1 .. Len(csv) : \E n \in 1 .. Len(csv[k]) : r = <<k, n>>
BY Places DEF CsvType, Rows

\* ... and as it will be.
LEMMA RowsMemberNext ==
    ASSUME CsvType'
    PROVE  \A r : r \in Rows' <=>
               \E k \in 1 .. Len(csv') : \E n \in 1 .. Len(csv'[k]) : r = <<k, n>>
<1>1. csv' \in Seq(Seq(Row))
  BY DEF CsvType, Row
<1> QED
  BY <1>1, Places DEF Rows

\* Who has a row, and what is in it, where the file does not change.
LEMMA RowsSame ==
    ASSUME RowsSound, Rows' = Rows,
           \A r \in Rows : csv'[r[1]][r[2]] = csv[r[1]][r[2]],
           \A q \in Process : pc'[q] \in {"remove", "done"} <=> pc[q] \in {"remove", "done"},
           \A q \in Process : pc[q] \in {"remove", "done"} => logged'[q] = logged[q]
    PROVE  RowsSound'
<1>1. \A q \in Process : RowsBy(q)' = RowsBy(q)
  BY DEF RowsBy
<1>2. \A q \in Process :
         IF pc'[q] \in {"remove", "done"} THEN \E r \in Rows' : RowsBy(q)' = {r} ELSE RowsBy(q)' = {}
  BY <1>1 DEF RowsSound
<1>3. ASSUME NEW r \in Rows'
      PROVE  /\ csv'[r[1]][r[2]].by \in Process
             /\ csv'[r[1]][r[2]].of = logged'[csv'[r[1]][r[2]].by]
  <2> DEFINE q == csv[r[1]][r[2]].by
  <2>1. q \in Process /\ csv[r[1]][r[2]].of = logged[q] /\ r \in RowsBy(q)
    BY DEF RowsSound, RowsBy
  <2>2. pc[q] \in {"remove", "done"}
    BY <2>1 DEF RowsSound
  <2> QED
    BY <2>1, <2>2
<1> QED
  BY <1>2, <1>3 DEF RowsSound

\* An empty line adds no row (main.cc:96).
LEMMA AppendLineRows ==
    ASSUME IInv, NEW p \in Process, AppendLine(p)
    PROVE  RowsSound'
<1>1. TypeOK /\ CsvType /\ RowsSound /\ CsvType'
  BY CsvStep DEF IInv, Next, Step
<1>2. csv' = Append(csv, <<>>) /\ csv \in Seq(Seq(Row))
  BY <1>1 DEF AppendLine, CsvType
<1>3. /\ Len(csv') = Len(csv) + 1 /\ Len(csv) \in Nat
      /\ \A k \in 1 .. Len(csv) : csv'[k] = csv[k]
      /\ csv'[Len(csv) + 1] = <<>>
  BY <1>2
<1>4. Rows' = Rows
  <2>1. \A r : r \in Rows' <=>
               \E k \in 1 .. Len(csv') : \E n \in 1 .. Len(csv'[k]) : r = <<k, n>>
    BY <1>1, RowsMemberNext
  <2>2. \A k \in 1 .. Len(csv') : k \in 1 .. Len(csv) \/ (k = Len(csv) + 1 /\ Len(csv'[k]) = 0)
    BY <1>3
  <2>3. ASSUME NEW r \in Rows' PROVE r \in Rows
    <3>1. PICK k \in 1 .. Len(csv'), n \in Nat : n \in 1 .. Len(csv'[k]) /\ r = <<k, n>>
      BY <2>1
    <3>2. k \in 1 .. Len(csv) /\ n \in 1 .. Len(csv[k])
      BY <1>3, <2>2, <3>1
    <3> QED
      BY <1>1, <3>1, <3>2, RowsMember
  <2>4. ASSUME NEW r \in Rows PROVE r \in Rows'
    <3>1. PICK k \in 1 .. Len(csv), n \in Nat : n \in 1 .. Len(csv[k]) /\ r = <<k, n>>
      BY <1>1, RowsMember
    <3>2. k \in 1 .. Len(csv') /\ n \in 1 .. Len(csv'[k])
      BY <1>3, <3>1
    <3> QED
      BY <2>1, <3>1, <3>2
  <2> QED
    BY <2>3, <2>4
<1>5. \A r \in Rows : csv'[r[1]][r[2]] = csv[r[1]][r[2]]
  BY <1>1, <1>3, RowsMember
<1>6. \A q \in Process : pc'[q] \in {"remove", "done"} <=> pc[q] \in {"remove", "done"}
  BY <1>1 DEF TypeOK, AppendLine, Goto
<1> QED
  BY <1>1, <1>4, <1>5, <1>6, RowsSame DEF AppendLine

\* A process adds its row once (main.cc:96-114).
LEMMA AppendRowRows ==
    ASSUME IInv, NEW p \in Process, AppendRow(p)
    PROVE  RowsSound'
<1> DEFINE L == Len(csv)
           M == Len(csv[L])
           new == <<L, M + 1>>
           row == [by |-> p, of |-> logged[p]]
<1>1. TypeOK /\ CsvType /\ RowsSound /\ CsvType'
  BY CsvStep DEF IInv, Next, Step
<1>2. /\ csv \in Seq(Seq(Row)) /\ L \in Nat /\ L > 0 /\ csv[L] \in Seq(Row) /\ M \in Nat
      /\ row \in Row
  BY <1>1 DEF CsvType, TypeOK, Row
<1>3. csv' = [csv EXCEPT ![L] = Append(csv[L], row)]
  BY DEF AppendRow
<1>4. /\ Len(csv') = L
      /\ \A k \in 1 .. L : k # L => csv'[k] = csv[k]
      /\ csv'[L] = Append(csv[L], row)
  BY <1>2, <1>3
<1>5. /\ Len(csv'[L]) = M + 1
      /\ \A n \in 1 .. M : csv'[L][n] = csv[L][n]
      /\ csv'[L][M + 1] = row
  BY <1>2, <1>4
<1>6. Rows' = Rows \cup {new}
  <2>1. \A r : r \in Rows' <=>
               \E k \in 1 .. Len(csv') : \E n \in 1 .. Len(csv'[k]) : r = <<k, n>>
    BY <1>1, RowsMemberNext
  <2> HIDE DEF row
  <2>2. ASSUME NEW r \in Rows' PROVE r \in Rows \cup {new}
    <3>1. PICK k \in 1 .. L, n \in Nat : n \in 1 .. Len(csv'[k]) /\ r = <<k, n>>
      BY <1>4, <2>1
    <3>2. CASE k = L /\ n = M + 1
      BY <3>1, <3>2
    <3>3. CASE ~(k = L /\ n = M + 1)
      <4>1. n \in 1 .. Len(csv[k])
        BY <1>2, <1>4, <1>5, <3>1, <3>3
      <4> QED
        BY <1>1, <3>1, <4>1, RowsMember
    <3> QED
      BY <3>2, <3>3
  <2>3. ASSUME NEW r \in Rows PROVE r \in Rows'
    <3>1. PICK k \in 1 .. L, n \in Nat : n \in 1 .. Len(csv[k]) /\ r = <<k, n>>
      BY <1>1, RowsMember
    <3>2. n \in 1 .. Len(csv'[k])
      BY <1>2, <1>4, <1>5, <3>1
    <3> QED
      BY <1>4, <2>1, <3>1, <3>2
  <2>4. new \in Rows'
    <3>1. L \in 1 .. Len(csv') /\ M + 1 \in 1 .. Len(csv'[L])
      BY <1>2, <1>4, <1>5
    <3> QED
      BY <2>1, <3>1
  <2> QED
    BY <2>2, <2>3, <2>4
<1>7. new \notin Rows
  BY <1>1, <1>2, RowsMember
<1>8. \A r \in Rows : csv'[r[1]][r[2]] = csv[r[1]][r[2]]
  <2> SUFFICES ASSUME NEW r \in Rows PROVE csv'[r[1]][r[2]] = csv[r[1]][r[2]]
    OBVIOUS
  <2>1. PICK k \in 1 .. L, n \in Nat : n \in 1 .. Len(csv[k]) /\ r = <<k, n>>
    BY <1>1, RowsMember
  <2> QED
    BY <1>2, <1>4, <1>5, <2>1
<1>9. csv'[new[1]][new[2]] = row
  BY <1>5
<1>10. \A q \in Process : RowsBy(q)' = IF q = p THEN RowsBy(p) \cup {new} ELSE RowsBy(q)
  <2> HIDE DEF new
  <2> QED
    BY <1>6, <1>7, <1>8, <1>9 DEF RowsBy
<1>11. /\ pc[p] = "append"
       /\ \A q \in Process : pc'[q] = IF q = p THEN "remove" ELSE pc[q]
  BY <1>1 DEF AppendRow, Goto, TypeOK
<1>12. RowsBy(p) = {} /\ logged' = logged
  BY <1>1, <1>11 DEF RowsSound, AppendRow
<1> HIDE DEF new
<1>13. \A q \in Process :
         IF pc'[q] \in {"remove", "done"} THEN \E r \in Rows' : RowsBy(q)' = {r} ELSE RowsBy(q)' = {}
  BY <1>1, <1>6, <1>10, <1>11, <1>12 DEF RowsSound
<1>14. \A r \in Rows' : /\ csv'[r[1]][r[2]].by \in Process
                        /\ csv'[r[1]][r[2]].of = logged'[csv'[r[1]][r[2]].by]
  BY <1>1, <1>6, <1>8, <1>9, <1>12 DEF RowsSound
<1> QED
  BY <1>13, <1>14 DEF RowsSound

\* Every call of main keeps what is known of the rows.
LEMMA RowsStep == IInv /\ [Next]_vars => RowsSound'
<1> SUFFICES ASSUME IInv, [Next]_vars PROVE RowsSound'
  OBVIOUS
<1>1. TypeOK /\ RowsSound
  BY DEF IInv
<1>2. CASE UNCHANGED vars
  BY <1>1, <1>2, RowsSame DEF vars, Rows
<1>3. CASE AllEnded
  BY <1>1, <1>3, RowsSame DEF vars, AllEnded, Rows
<1>4. ASSUME NEW p \in Process, Step(p) PROVE RowsSound'
  <2>1. CASE Taken(p)
    <3>1. /\ csv' = csv
          /\ \A q \in Process : pc'[q] \in {"remove", "done"} <=> pc[q] \in {"remove", "done"}
          /\ \A q \in Process : pc[q] \in {"remove", "done"} => logged'[q] = logged[q]
      BY <1>1, <2>1 DEF Taken, Goto, TypeOK
    <3> QED
      BY <1>1, <3>1, RowsSame DEF Rows
  <2>2. CASE Free(p)
    <3>1. /\ csv' = csv
          /\ \A q \in Process : pc'[q] \in {"remove", "done"} <=> pc[q] \in {"remove", "done"}
          /\ \A q \in Process : pc[q] \in {"remove", "done"} => logged'[q] = logged[q]
      BY <1>1, <2>2 DEF Free, Goto, TypeOK
    <3> QED
      BY <1>1, <3>1, RowsSame DEF Rows
  <2>3. CASE MakeDirectory(p)
    <3>1. /\ csv' = csv
          /\ \A q \in Process : pc'[q] \in {"remove", "done"} <=> pc[q] \in {"remove", "done"}
          /\ \A q \in Process : pc[q] \in {"remove", "done"} => logged'[q] = logged[q]
      BY <1>1, <2>3 DEF MakeDirectory, Goto, TypeOK
    <3> QED
      BY <1>1, <3>1, RowsSame DEF Rows
  <2>4. CASE Simulate(p)
    <3>1. /\ csv' = csv
          /\ \A q \in Process : pc'[q] \in {"remove", "done"} <=> pc[q] \in {"remove", "done"}
          /\ \A q \in Process : pc[q] \in {"remove", "done"} => logged'[q] = logged[q]
      BY <1>1, <2>4 DEF Simulate, Goto, TypeOK
    <3> QED
      BY <1>1, <3>1, RowsSame DEF Rows
  <2>5. CASE PrintStats(p)
    <3>1. /\ csv' = csv
          /\ \A q \in Process : pc'[q] \in {"remove", "done"} <=> pc[q] \in {"remove", "done"}
          /\ \A q \in Process : pc[q] \in {"remove", "done"} => logged'[q] = logged[q]
      BY <1>1, <2>5 DEF PrintStats, Goto, TypeOK
    <3> QED
      BY <1>1, <3>1, RowsSame DEF Rows
  <2>6. CASE ReadJson(p)
    <3>1. /\ csv' = csv
          /\ \A q \in Process : pc'[q] \in {"remove", "done"} <=> pc[q] \in {"remove", "done"}
          /\ \A q \in Process : pc[q] \in {"remove", "done"} => logged'[q] = logged[q]
      BY <1>1, <2>6 DEF ReadJson, Goto, TypeOK
    <3> QED
      BY <1>1, <3>1, RowsSame DEF Rows
  <2>7. CASE ParseJson(p)
    <3>1. /\ csv' = csv
          /\ \A q \in Process : pc'[q] \in {"remove", "done"} <=> pc[q] \in {"remove", "done"}
          /\ \A q \in Process : pc[q] \in {"remove", "done"} => logged'[q] = logged[q]
      BY <1>1, <2>7 DEF ParseJson, Goto, TypeOK
    <3> QED
      BY <1>1, <3>1, RowsSame DEF Rows
  <2>8. CASE Abort(p)
    <3>1. /\ csv' = csv
          /\ \A q \in Process : pc'[q] \in {"remove", "done"} <=> pc[q] \in {"remove", "done"}
          /\ \A q \in Process : pc[q] \in {"remove", "done"} => logged'[q] = logged[q]
      BY <1>1, <2>8 DEF Abort, Goto, TypeOK
    <3> QED
      BY <1>1, <3>1, RowsSame DEF Rows
  <2>9. CASE Exists(p)
    <3>1. /\ csv' = csv
          /\ \A q \in Process : pc'[q] \in {"remove", "done"} <=> pc[q] \in {"remove", "done"}
          /\ \A q \in Process : pc[q] \in {"remove", "done"} => logged'[q] = logged[q]
      BY <1>1, <2>9 DEF Exists, Goto, TypeOK
    <3> QED
      BY <1>1, <3>1, RowsSame DEF Rows
  <2>10. CASE CreateLock(p)
    <3>1. /\ csv' = csv
          /\ \A q \in Process : pc'[q] \in {"remove", "done"} <=> pc[q] \in {"remove", "done"}
          /\ \A q \in Process : pc[q] \in {"remove", "done"} => logged'[q] = logged[q]
      BY <1>1, <2>10 DEF CreateLock, Goto, TypeOK
    <3> QED
      BY <1>1, <3>1, RowsSame DEF Rows
  <2>11. CASE AppendLine(p)
    BY <2>11, AppendLineRows
  <2>12. CASE AppendRow(p)
    BY <2>12, AppendRowRows
  <2>13. CASE RemoveLock(p)
    <3>1. /\ csv' = csv
          /\ \A q \in Process : pc'[q] \in {"remove", "done"} <=> pc[q] \in {"remove", "done"}
          /\ \A q \in Process : pc[q] \in {"remove", "done"} => logged'[q] = logged[q]
      BY <1>1, <2>13 DEF RemoveLock, Goto, TypeOK
    <3> QED
      BY <1>1, <3>1, RowsSame DEF Rows
  <2> QED
    BY <1>4, <2>1, <2>2, <2>3, <2>4, <2>5, <2>6, <2>7, <2>8, <2>9, <2>10, <2>11, <2>12, <2>13 DEF Step
<1> QED
  BY <1>2, <1>3, <1>4 DEF Next

\* The inductive invariant holds whatever the interleaving of the processes.
THEOREM LogInvariant == Spec => []IInv
<1>1. IInv /\ [Next]_vars => IInv'
  BY TypeStep, DirsStep, StatisticsStep, LockStep, CsvStep, RowsStep DEF IInv
<1> QED
  BY InitInv, <1>1, PTL DEF Spec

\* However many processes search at once, none tries more numbers than there
\* are processes (main.cc:49-52).
THEOREM LogTypeOK == Spec => []TypeOK
<1>1. IInv => TypeOK
  BY DEF IInv
<1> QED
  BY <1>1, LogInvariant, PTL

\* No lock file is left over (main.cc:85-115), although it does not exclude.
THEOREM LockReleasedHolds == Spec => []LockReleased
<1>1. IInv => LockReleased
  BY DEF IInv, LockSound, LockReleased
<1> QED
  BY <1>1, LogInvariant, PTL

\* Every finished process has one row, also if several write at once, and its
\* statistics are those of users of its directory, its own if it is the only one
\* (main.cc:49-54, 78-81 and 93-115).
THEOREM RowsCompleteHolds == Spec => []RowsComplete
<1>1. IInv => RowsComplete
  <2> SUFFICES ASSUME IInv PROVE RowsComplete
    OBVIOUS
  <2>1. RowsSound /\ LoggedSound
    BY DEF IInv, StatisticsSound
  <2>2. \A p \in Process : Cardinality(RowsBy(p)) = IF pc[p] \in {"remove", "done"} THEN 1 ELSE 0
    <3>1. \A p \in Process :
             IF pc[p] \in {"remove", "done"} THEN \E r \in Rows : RowsBy(p) = {r} ELSE RowsBy(p) = {}
      BY <2>1 DEF RowsSound
    <3> QED
      BY <3>1, FS_Singleton, FS_EmptySet
  <2>3. ASSUME NEW r \in Rows
        PROVE  LET row == csv[r[1]][r[2]] IN
                 /\ row.of \subseteq Sharing(row.by)
                 /\ Sharing(row.by) = {row.by} => row.of = {row.by}
    <3> DEFINE q == csv[r[1]][r[2]].by
    <3>1. q \in Process /\ csv[r[1]][r[2]].of = logged[q] /\ r \in RowsBy(q)
      BY <2>1 DEF RowsSound, RowsBy
    <3>2. pc[q] \in {"remove", "done"}
      BY <2>1, <3>1 DEF RowsSound
    <3> QED
      BY <2>1, <3>1, <3>2 DEF LoggedSound
  <2> QED
    BY <2>2, <2>3 DEF RowsComplete, RowsBy
<1> QED
  BY <1>1, LogInvariant, PTL

=============================================================================
