------------------------------ MODULE MCRunLog -----------------------------
(***************************************************************************)
(* Three simulator processes.  One was started earlier: it has taken the   *)
(* first directory, written and read its statistics, and now wants the     *)
(* lock.  The other two start side by side.  This is enough for two        *)
(* processes to share a directory, and for one to remove the lock of       *)
(* another while a third one waits.                                        *)
(***************************************************************************)
EXTENDS RunLog

CONSTANTS p1, p2, p3

MCProcess == {p1, p2, p3}

MCInit ==
    /\ pc = [p \in Process |-> IF p = p3 THEN "exists" ELSE "stat"]
    /\ idx = [p \in Process |-> 0]
    /\ dirs = {0}
    /\ json = [d \in Directory |->
                  IF d = 0 THEN [n \in 1 .. Writes |-> [by |-> p3, n |-> n]] ELSE <<>>]
    /\ printed = [p \in Process |-> IF p = p3 THEN Writes ELSE 0]
    /\ seen = [p \in Process |-> <<>>]
    /\ logged = [p \in Process |-> IF p = p3 THEN {p3} ELSE {}]
    /\ lock = FALSE
    /\ csv = << <<>> >>

MCSpec == MCInit /\ [][Next]_vars

MCFairSpec == MCSpec /\ Fairness

=============================================================================
