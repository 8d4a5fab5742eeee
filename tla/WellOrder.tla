------------------------------ MODULE WellOrder ------------------------------
(***************************************************************************)
(* Induction and recursion for the proofs about the loops of the code.     *)
(* Sets and functions take the place of predicates and operators: what is  *)
(* proved for every number is that a set of numbers contains it.           *)
(***************************************************************************)
EXTENDS Integers, WellFoundedInduction, TLAPS

(* A nonempty set of numbers has a least one. *)
LEMMA LeastNumber ==
  ASSUME NEW Z \in SUBSET Nat, Z # {}
  PROVE  \E x \in Z : \A e \in Z : x <= e
<1>1. PICK x \in Z : \A y \in Z : ~(<<y, x>> \in OpToRel(<, Nat))
  BY NatLessThanWellFounded, WFMin
<1>2. ASSUME NEW y \in Z PROVE x <= y
  <2>1. x \in Nat /\ y \in Nat  OBVIOUS
  <2>2. <<y, x>> \notin OpToRel(<, Nat)  BY <1>1
  <2>3. ~(y < x)  BY <2>1, <2>2 DEF OpToRel
  <2>4. QED  BY <2>1, <2>3
<1>3. QED  BY <1>1, <1>2

(* A set that contains zero and with a number the next has every number. *)
LEMMA Induction ==
  ASSUME NEW Z, 0 \in Z, \A n \in Nat : n \in Z => n + 1 \in Z
  PROVE  \A n \in Nat : n \in Z
<1> DEFINE Rest == {n \in Nat : n \notin Z}
<1>1. SUFFICES ASSUME Rest # {} PROVE FALSE  OBVIOUS
<1>2. PICK x \in Rest : \A e \in Rest : x <= e  BY <1>1, LeastNumber
<1>3. x \in Nat /\ x # 0  OBVIOUS
<1>4. x - 1 \in Nat /\ x - 1 \in Z  BY <1>2, <1>3
<1>5. (x - 1) + 1 \in Z  BY <1>4
<1>6. QED  BY <1>3, <1>5

(* And as far as a bound, with the steps below it. *)
LEMMA InductionTo ==
  ASSUME NEW N \in Nat, NEW Z, 0 \in Z, \A n \in 1..N : n - 1 \in Z => n \in Z
  PROVE  \A n \in 0..N : n \in Z
<1> DEFINE Y == {n \in Nat : n <= N => n \in Z}
<1>1. 0 \in Y  OBVIOUS
<1>2. ASSUME NEW n \in Nat, n \in Y PROVE n + 1 \in Y
  <2>1. SUFFICES ASSUME n + 1 <= N PROVE n + 1 \in Z  OBVIOUS
  <2>2. n \in Z /\ n + 1 \in 1..N /\ (n + 1) - 1 = n  BY <1>2, <2>1
  <2>3. QED  BY <2>2
<1> HIDE DEF Y
<1>3. \A n \in Nat : n \in Y  BY <1>1, <1>2, Induction
<1>4. QED  BY <1>3 DEF Y

(* A function defined by what it is at zero and, at another number, in     *)
(* terms of what it is at a smaller one.                                   *)
Calls(f, S, N, b, h, G) ==
    /\ f \in [0..N -> S] /\ f[0] = b
    /\ \A i \in 1..N : f[i] = G[<<i, f[h[i]]>>]

LEMMA RecursionBelow ==
  ASSUME NEW S, NEW N \in Nat, NEW b \in S, NEW G \in [(1..N) \X S -> S],
         NEW h \in [1..N -> Nat], \A i \in 1..N : h[i] < i
  PROVE  \E f : Calls(f, S, N, b, h, G)
<1> DEFINE Good(n, f) == /\ f \in [0..n -> S] /\ f[0] = b
                         /\ \A i \in 1..n : f[i] = G[<<i, f[h[i]]>>]
<1> DEFINE Z == {n \in 0..N : \E f : Good(n, f)}
<1>1. 0 \in Z
  <2> DEFINE f == [i \in 0..0 |-> b]
  <2>1. f \in [0..0 -> S] /\ f[0] = b  OBVIOUS
  <2>2. \A i \in 1..0 : f[i] = G[<<i, f[h[i]]>>]  OBVIOUS
  <2>3. Good(0, f)  BY <2>1, <2>2
  <2> HIDE DEF Good, f
  <2>4. QED  BY <2>3
<1>2. ASSUME NEW n \in 1..N, n - 1 \in Z PROVE n \in Z
  <2>1. PICK f : Good(n - 1, f)  BY <1>2
  <2>2. h[n] \in 0..(n - 1) /\ \A i \in 1..n : i \in 1..N /\ h[i] \in 0..(i - 1)
    OBVIOUS
  <2> DEFINE g == [i \in 0..n |-> IF i = n THEN G[<<n, f[h[n]]>>] ELSE f[i]]
  <2>3. f[h[n]] \in S  BY <2>1, <2>2
  <2>4. G[<<n, f[h[n]]>>] \in S  BY <2>3
  <2>5. g \in [0..n -> S]  BY <2>1, <2>4
  <2>6. g[0] = b  BY <2>1
  <2>7. ASSUME NEW i \in 1..n PROVE g[i] = G[<<i, g[h[i]]>>]
    <3>1. g[h[i]] = f[h[i]]
      <4> DEFINE k == h[i]
      <4>1. k \in 0..(i - 1) /\ i \in 1..n  BY <2>2
      <4> HIDE DEF k
      <4>2. k \in 0..n /\ k # n  BY <4>1
      <4>3. g[k] = f[k]  BY <4>2
      <4>4. QED  BY <4>3 DEF k
    <3>2. CASE i = n
      <4>1. g[n] = G[<<n, f[h[n]]>>]  OBVIOUS
      <4> HIDE DEF g
      <4>2. QED  BY <3>1, <3>2, <4>1
    <3>3. CASE i # n
      <4>1. i \in 1..(n - 1)  BY <3>3
      <4>2. f[i] = G[<<i, f[h[i]]>>]  BY <2>1, <4>1
      <4>3. g[i] = f[i]  BY <3>3
      <4> HIDE DEF g
      <4>4. QED  BY <3>1, <4>2, <4>3
    <3>4. QED  BY <3>2, <3>3
  <2>8. Good(n, g)  BY <2>5, <2>6, <2>7
  <2> HIDE DEF Good, g
  <2>9. QED  BY <2>8
<1> HIDE DEF Z
<1>3. N \in Z
  <2>1. \A n \in 0..N : n \in Z  BY ONLY N \in Nat, <1>1, <1>2, InductionTo
  <2>2. QED  BY <2>1
<1>4. PICK f : Good(N, f)  BY <1>3 DEF Z
<1>5. QED  BY <1>4 DEF Calls

(* In terms of what it is at the number before: a loop.                    *)
Loop(f, S, N, b, G) ==
    /\ f \in [0..N -> S] /\ f[0] = b
    /\ \A i \in 1..N : f[i] = G[<<i, f[i - 1]>>]

LEMMA Recursion ==
  ASSUME NEW S, NEW N \in Nat, NEW b \in S, NEW G \in [(1..N) \X S -> S]
  PROVE  \E f : Loop(f, S, N, b, G)
<1> DEFINE h == [i \in 1..N |-> i - 1]
<1>1. h \in [1..N -> Nat] /\ \A i \in 1..N : h[i] < i  OBVIOUS
<1>2. \A i \in 1..N : h[i] = i - 1  OBVIOUS
<1> HIDE DEF h
<1>3. PICK f : Calls(f, S, N, b, h, G)
  BY ONLY N \in Nat, b \in S, G \in [(1..N) \X S -> S], <1>1, RecursionBelow
<1>4. Loop(f, S, N, b, G)  BY <1>2, <1>3 DEF Calls, Loop
<1>5. QED  BY <1>4
=============================================================================
