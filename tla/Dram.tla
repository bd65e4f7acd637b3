-------------------------------- MODULE Dram -------------------------------
(***************************************************************************)
(* What the simulator expects of the DRAM: each transaction it has         *)
(* accepted is reported complete once, in any order and after any delay.   *)
(* Memory is written against this; JedecDram implements it.                *)
(***************************************************************************)
EXTENDS Integers

VARIABLE dram    \* dram[t]: how many transactions t are in flight

DramInit == dram = [t \in {} |-> 0]

Copies(t) == IF t \in DOMAIN dram THEN dram[t] ELSE 0

\* more[t] transactions t are accepted.
Accept(more) ==
    dram' = [t \in DOMAIN dram \cup DOMAIN more |->
                Copies(t) + IF t \in DOMAIN more THEN more[t] ELSE 0]

\* One transaction is reported.
Report(t) ==
    /\ t \in DOMAIN dram
    /\ dram' = [u \in {v \in DOMAIN dram : v # t \/ dram[v] > 1} |->
                   IF u = t THEN dram[u] - 1 ELSE dram[u]]

\* One step of the DRAM: its client adds a transaction, or is told of one.
DramNext ==
    \/ \E t \in DOMAIN dram' : Accept([u \in {t} |-> 1])
    \/ \E t \in DOMAIN dram : Report(t)

DramSpec == DramInit /\ [][DramNext]_dram

=============================================================================
