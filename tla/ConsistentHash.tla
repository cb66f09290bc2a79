--------------------------- MODULE ConsistentHash ---------------------------
(***************************************************************************)
(* geecache/consistenthash: the ring of virtual nodes.  hash is the hash   *)
(* function, on virtual nodes <<i, node>> and on keys; list is what Add    *)
(* was given, in that order.                                               *)
(***************************************************************************)
EXTENDS Naturals, FiniteSets, Sequences

CONSTANT Replicas   \* Map.replicas

ASSUME ReplicasAssumption == Replicas \in Nat \ {0}

\* Map.keys: a repeated position changes nothing for the search.
Positions(hash, list) ==
    {hash[<<i, list[j]>>] : i \in 0 .. Replicas - 1, j \in DOMAIN list}

\* Map.hashmap: of the nodes that hash to one position, the last one added.
NodeAt(hash, list, p) ==
    LET here == {j \in DOMAIN list :
                    \E i \in 0 .. Replicas - 1 : hash[<<i, list[j]>>] = p}
    IN list[CHOOSE j \in here : \A l \in here : l <= j]

\* Map.Get: the first position at or after the key's, or the first one of all.
RingGet(hash, list, key) ==
    LET all == Positions(hash, list)
        after == {p \in all : p >= hash[key]}
        from == IF after = {} THEN all ELSE after
    IN NodeAt(hash, list, CHOOSE p \in from : \A q \in from : p <= q)
=============================================================================
