------------------------------- MODULE Lru -------------------------------
(***************************************************************************)
(* geecache/lru: a cache with a bound on its bytes, as the record          *)
(*     [ll |-> its list, most recently used first, nBytes |-> counter].    *)
(* The map from keys to list elements is the list's inverse.               *)
(***************************************************************************)
EXTENDS Integers, Sequences, SequencesExt

CONSTANTS MaxBytes,   \* Cache.maxBytes, 0 for no limit
          SizeOf      \* bytes of an entry, key and value, by its value

New == [ll |-> <<>>, nBytes |-> 0]

\* Entries are their values: a value of the model names its key.
KeyOf(val) == val[1]
Has(c, key) == \E i \in DOMAIN c.ll : KeyOf(c.ll[i]) = key
Index(c, key) == CHOOSE i \in DOMAIN c.ll : KeyOf(c.ll[i]) = key
ValueAt(c, key) == c.ll[Index(c, key)]
Others(c, key) == IF Has(c, key) THEN RemoveAt(c.ll, Index(c, key)) ELSE c.ll

\* Get of a key that is there: it becomes the most recently used one.
Touch(c, key) == [c EXCEPT !.ll = <<ValueAt(c, key)>> \o Others(c, key)]

RemoveOldest(c) ==
    IF c.ll = <<>> THEN c
    ELSE [ll |-> Front(c.ll), nBytes |-> c.nBytes - SizeOf[Last(c.ll)]]

\* Mutant: the value that is replaced stays counted.
PutKeepsCount(c, val) ==
    [ll |-> <<val>> \o Others(c, KeyOf(val)), nBytes |-> c.nBytes + SizeOf[val]]

\* The first half of Add: the key's value is replaced, or a new entry made.
Put(c, val) ==
    [ll |-> <<val>> \o Others(c, KeyOf(val)),
     nBytes |-> c.nBytes + SizeOf[val]
                - (IF Has(c, KeyOf(val)) THEN SizeOf[ValueAt(c, KeyOf(val))] ELSE 0)]

\* Add: over the limit, one entry is evicted, and only one.
Add(c, val) ==
    LET put == Put(c, val)
    IN IF MaxBytes # 0 /\ put.nBytes > MaxBytes THEN RemoveOldest(put) ELSE put
=============================================================================
