-------------------------- MODULE MCRemoteDelivery --------------------------
(* Instances of RemoteDelivery for TLC: answers a1, a2 for client c1, and  *)
(* a3 for nobody, broadcasts s1 of k1 and s2 of both keys, which also has  *)
(* data for c1 alone, pushes p1, p2.                                       *)
EXTENDS RemoteDelivery

CONSTANTS a1, a2, a3, s1, s2, p1, p2, k1, k2, c1, c2, b1, b2

KindMC == [m \in Msg |-> IF m \in {a1, a2, a3} THEN "answer"
                         ELSE IF m \in {s1, s2} THEN "broadcast" ELSE "push"]
TargetMC == [m \in Msg |-> IF m \in {a1, a2, s2} THEN c1 ELSE None]
KeysMC == [m \in Msg |-> CASE m = s1 -> {k1} [] m = s2 -> Key [] OTHER -> {}]
BucketMC == [c \in Cid |-> IF c = c1 THEN b1 ELSE b2]
=============================================================================
