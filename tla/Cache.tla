------------------------------- MODULE Cache -------------------------------
(***************************************************************************)
(* The class Cache (src/src/cache.cc): set associative, least recently     *)
(* used out.  A cache is a function from sets to the lines in them, the    *)
(* most recently used one first.  Insert does not look whether the line is *)
(* there already.                                                          *)
(***************************************************************************)
EXTENDS AddressMap, FiniteSetsExt, Queues

CONSTANTS cache_set, cache_way

ASSUME CacheAssumption ==
    /\ cache_set \in Nat \ {0}
    /\ cache_way \in Nat \ {0}

NewCache == [s \in 0 .. cache_set - 1 |-> <<>>]

FindSet(address) == (address - xw_ele_addr_start) % cache_set

\* What Access returns.
Hit(c, address) == \E w \in DOMAIN c[FindSet(address)] : c[FindSet(address)][w] = address

\* The first way that holds the line.
FindWay(c, address) ==
    Min({w \in DOMAIN c[FindSet(address)] : c[FindSet(address)][w] = address})

\* Mutant of Accessed: the line is not taken from its old place.
AccessedTwice(c, address) ==
    IF Hit(c, address)
    THEN [c EXCEPT ![FindSet(address)] = <<address>> \o @]
    ELSE c

\* The cache after Access.
Accessed(c, address) ==
    IF Hit(c, address)
    THEN [c EXCEPT ![FindSet(address)] = <<address>> \o Erase(@, FindWay(c, address))]
    ELSE c

\* The cache after Insert.
Inserted(c, address) ==
    [c EXCEPT ![FindSet(address)] =
        <<address>> \o (IF Len(@) = cache_way THEN SubSeq(@, 1, cache_way - 1) ELSE @)]

\* The cache after Insert of every address of a queue.
InsertedAll(c, q) ==
    LET cache[n \in 0 .. Len(q)] ==
            IF n = 0 THEN c ELSE Inserted(cache[n - 1], q[n])
    IN  cache[Len(q)]

=============================================================================
