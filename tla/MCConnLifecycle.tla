-------------------------- MODULE MCConnLifecycle --------------------------
(* Instances of ConnLifecycle for TLC. *)
EXTENDS ConnLifecycle, TLC

CONSTANTS c1, c2, b1, b2

(* Both cids in one bucket, or c2 in a bucket of its own. *)
OneBucket == [c \in Cid |-> b1]
TwoBuckets == [c \in Cid |-> IF c = c2 THEN b2 ELSE b1]

(* Structs are interchangeable, and so are the cids of one bucket; not     *)
(* used by the run with liveness properties.                               *)
SymmetricObj == Permutations(Obj)
Symmetric == Permutations(Cid) \union Permutations(Obj)
=============================================================================
