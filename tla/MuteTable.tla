------------------------------ MODULE MuteTable ------------------------------
(****************************************************************************)
(* The client's hash set of muted users: buckets of chained nodes, a new    *)
(* node in front, no key twice.  The table is passed as a value; whoever    *)
(* owns it calls these under messages_mutex.                                *)
(****************************************************************************)
EXTENDS Integers, Sequences

CONSTANTS Key,         \* user names, told apart only by identity
          TABLE_SIZE,  \* 100 in the code
          Hash         \* the bucket of each key

ASSUME HashAssumption == /\ TABLE_SIZE \in Nat \ {0}
                         /\ Hash \in [Key -> 0 .. TABLE_SIZE - 1]

Bucket == 0 .. TABLE_SIZE - 1
Table == [Bucket -> Seq(Key)]

EmptyTable == [b \in Bucket |-> <<>>]

Contains(t, k) == \E i \in DOMAIN t[Hash[k]] : t[Hash[k]][i] = k

Insert(t, k) == IF Contains(t, k) THEN t ELSE [t EXCEPT ![Hash[k]] = <<k>> \o @]

\* Unlinks the node at i: its predecessor, or the bucket, now leads to its next.
Unlink(chain, i) == [j \in 1 .. Len(chain) - 1 |-> IF j < i THEN chain[j] ELSE chain[j + 1]]

Position(chain, k) == CHOOSE i \in DOMAIN chain : chain[i] = k

RemoveKey_Rest(t, k) ==
  IF Contains(t, k) THEN [t EXCEPT ![Hash[k]] = SubSeq(@, 1, Position(@, k) - 1)] ELSE t
RemoveKey(t, k) ==
  IF Contains(t, k) THEN [t EXCEPT ![Hash[k]] = Unlink(@, Position(@, k))] ELSE t

-----------------------------------------------------------------------------
\* The set that a table stands for.
Keys(t) == {k \in Key : Contains(t, k)}

\* Every node is in the bucket of its key, and no key has two nodes.
WellChained(t) ==
  \A b \in Bucket : \A i, j \in DOMAIN t[b] : Hash[t[b][i]] = b /\ (t[b][i] = t[b][j] => i = j)
=============================================================================
