--------------------------- MODULE RoutingProofs ---------------------------
(***************************************************************************)
(* Theorems about LoadBalance, for every set of servers, files, calls and  *)
(* hashes; about Codec, for every number of clients and every dictionary,  *)
(* id and route; about Backend, for every number of pushes, users and      *)
(* connectors, and every capacity.                                         *)
(***************************************************************************)
EXTENDS LoadBalance, Codec, Backend, WellOrder, SequenceTheorems

----------------------------------------------------------------------------
(* The places of a list, and the calls that have read one.  The type a     *)
(* place has been grouped under stays `home`, whatever is decoded into it. *)

PlacesOf(home, t) == {p \in Place : home[p] = t}
TypeThere(home, p) == \E s \in EntriesAt(p[2]) : home[p] = TypeOf[s]
HomesFit(home) == /\ home \in [Place -> ServerType]
                  /\ \A p \in Place : TypeThere(home, p)
HasRead(c) == seen[c] # <<>>
Untouched(t) == \A c \in Choice : TypeAsked[c] = t => ~HasRead(c)

(* An entry is decoded into the struct of its position.                    *)
InPosition(L) == \A i \in DOMAIN L : L[i][2] = i
ContentFits ==
    /\ \A p \in Place : element[p] \in EntriesAt(p[2])
    /\ InPosition(conf.servers)

(* The servers are grouped once, before the first call.                    *)
GroupedOnce(home) ==
    /\ startup # "done" => conf.types = NoTypes /\ \A c \in Choice : at[c] = "new"
    /\ \A t \in DOMAIN conf.types : conf.types[t] \in Seq(PlacesOf(home, t))

(* So that all calls of a type which read a list read the same one.        *)
OneListEach(home) ==
    \A c \in Choice :
        /\ seen[c] \in Seq(PlacesOf(home, TypeAsked[c]))
        /\ at[c] = "new" => ~HasRead(c)
        /\ at[c] = "listed" => HasRead(c)
        /\ HasRead(c) /\ TypeAsked[c] \in DOMAIN conf.types
             => conf.types[TypeAsked[c]] = seen[c]
        /\ \A d \in Choice : HasRead(c) /\ HasRead(d) /\ TypeAsked[c] = TypeAsked[d]
             => seen[c] = seen[d]

(* What is kept of a type was made for that list.                          *)
MadeOf(ring, L) ==
    /\ ring \in Seq(Server) /\ DOMAIN ring = DOMAIN L
    /\ \A i \in DOMAIN L : ring[i] \in EntriesAt(L[i][2])
StateFitsList ==
    /\ \A t \in ServerType : hashRing[t] # Unset =>
           \E c \in Choice : TypeAsked[c] = t /\ HasRead(c) /\ MadeOf(hashRing[t], seen[c])
    /\ \A c \in Choice : HasRead(c) => roundRobinIdx[TypeAsked[c]] < Len(seen[c])
    /\ \A t \in ServerType : Untouched(t) => roundRobinIdx[t] = 0

ListInv(home) ==
    /\ ContentFits
    /\ GroupedOnce(home)
    /\ OneListEach(home)
    /\ StateFitsList
    /\ DestinationIsListed

(* A list holds no place twice.                                            *)
Once(L) == \A i, j \in DOMAIN L : L[i] = L[j] => i = j

ListsOnce ==
    /\ \A t \in DOMAIN conf.types : Once(conf.types[t])
    /\ \A c \in Choice : Once(seen[c])

(* The places up to the index have had one turn more than the others.      *)
Extra(t, i) == IF i <= roundRobinIdx[t] THEN 1 ELSE 0
TurnsFollowIndex ==
    \A c \in Choice : \A i, j \in DOMAIN seen[c] :
        turns[seen[c][i]] - turns[seen[c][j]]
            = Extra(TypeAsked[c], i) - Extra(TypeAsked[c], j)
NoTurnUnread(home) == \A p \in Place : Untouched(home[p]) => turns[p] = 0

BalanceInv(home) == ListsOnce /\ TurnsFollowIndex /\ NoTurnUnread(home)

ConfShape == conf = [servers |-> conf.servers, types |-> conf.types]
RoutingHolds(home) == HomesFit(home) /\ LBTypeOK /\ ConfShape /\ ListInv(home)
RoutingInv == \E home \in [Place -> ServerType] : RoutingHolds(home)
BalancedInv ==
    \E home \in [Place -> ServerType] : RoutingHolds(home) /\ BalanceInv(home)

----------------------------------------------------------------------------
(* The loops of the code. *)

LEMMA ListShape ==
  ASSUME NEW S, NEW L \in Seq(S)
  PROVE  /\ Len(L) \in Nat /\ DOMAIN L = 1..Len(L)
         /\ \A i \in DOMAIN L : L[i] \in S
         /\ L # <<>> => Len(L) > 0
<1>1. Len(L) \in Nat /\ DOMAIN L = 1..Len(L) /\ L \in [1..Len(L) -> S]
  BY LenProperties
<1>2. L # <<>> => Len(L) > 0  BY EmptySeq
<1>3. QED  BY <1>1, <1>2

(* The entries of the file and the structs made for them.                  *)
LEMMA Positions ==
  /\ \A k \in DOMAIN Files : \A i \in DOMAIN Files[k] :
        /\ <<k, i>> \in Place /\ Files[k][i] \in Server /\ Files[k][i] \in EntriesAt(i)
  /\ \A p \in Place : /\ p[1] \in DOMAIN Files /\ p[2] \in DOMAIN Files[p[1]]
                       /\ Files[p[1]][p[2]] \in Server
                       /\ Files[p[1]][p[2]] \in EntriesAt(p[2])
  /\ \A i : EntriesAt(i) \subseteq Server
<1>1. \A k \in DOMAIN Files : Files[k] \in Seq(Server)
  BY ServerAssumption, ListShape
<1>2. \A k \in DOMAIN Files : \A i \in DOMAIN Files[k] : Files[k][i] \in Server
  BY <1>1, ListShape
<1>3. \A k \in DOMAIN Files : \A i \in DOMAIN Files[k] : Files[k][i] \in EntriesAt(i)
  BY DEF EntriesAt
<1>4. \A k \in DOMAIN Files : \A i \in DOMAIN Files[k] : <<k, i>> \in Place  BY DEF Place
<1>5. \A p \in Place : p[1] \in DOMAIN Files /\ p[2] \in DOMAIN Files[p[1]]  BY DEF Place
<1>6. \A i : EntriesAt(i) \subseteq Server  BY <1>2 DEF EntriesAt
<1>7. QED  BY <1>2, <1>3, <1>4, <1>5, <1>6

LEMMA Appended ==
  ASSUME NEW S, NEW L \in Seq(S), NEW e \in S
  PROVE  /\ Append(L, e) \in Seq(S)
         /\ DOMAIN Append(L, e) = DOMAIN L \union {Len(L) + 1}
         /\ \A i \in DOMAIN L : Append(L, e)[i] = L[i]
         /\ Append(L, e)[Len(L) + 1] = e
<1>1. /\ Append(L, e) \in Seq(S) /\ Len(Append(L, e)) = Len(L) + 1
      /\ \A i \in 1..Len(L) : Append(L, e)[i] = L[i]
      /\ Append(L, e)[Len(L) + 1] = e
  BY AppendProperties
<1>2. DOMAIN Append(L, e) = 1..(Len(L) + 1)  BY <1>1, ListShape
<1>3. QED  BY <1>1, <1>2, ListShape

(* What typeServersConfig appends for a type is of that type and of the    *)
(* list, and what the list has once it appends once.                       *)
HasType(t) == {p \in Place : TypeOf[element[p]] = t}
LEMMA OfTypeLists ==
  ASSUME NEW L \in Seq(Place), NEW t
  PROVE  /\ OfType(L, t) \in Seq(HasType(t))
         /\ Once(L) => Once(OfType(L, t))
<1> DEFINE N == Len(L)
<1> DEFINE Next1(i, l) == IF TypeOf[element[L[i]]] = t THEN Append(l, L[i]) ELSE l
<1> DEFINE Runs(f) == f = [i \in 0..N |-> IF i = 0 THEN <<>> ELSE Next1(i, f[i - 1])]
<1>1. N \in Nat /\ DOMAIN L = 1..N /\ \A i \in 1..N : L[i] \in Place
  BY ListShape
<1> HIDE DEF N
<1>2. \E f : Runs(f)
  <2> DEFINE Lists == Seq(Place)
  <2> DEFINE G == [x \in (1..N) \X Seq(Place) |-> Next1(x[1], x[2])]
  <2>1. ASSUME NEW x \in (1..N) \X Seq(Place) PROVE Next1(x[1], x[2]) \in Seq(Place)
    <3>1. x[2] \in Seq(Place) /\ L[x[1]] \in Place  BY <1>1
    <3>2. Append(x[2], L[x[1]]) \in Seq(Place)  BY <3>1, AppendProperties
    <3>3. QED  BY <3>1, <3>2
  <2>2. G \in [(1..N) \X Seq(Place) -> Seq(Place)]  BY <2>1
  <2>3. <<>> \in Seq(Place)  BY EmptySeq
  <2> HIDE DEF G, Lists
  <2>4. PICK f \in [0..N -> Lists] :
           f[0] = <<>> /\ \A i \in 1..N : f[i] = G[<<i, f[i - 1]>>]
    <3> DEFINE b == <<>>
    <3>1. N \in Nat /\ b \in Lists /\ G \in [(1..N) \X Lists -> Lists]
      BY <1>1, <2>2, <2>3 DEF Lists
    <3> HIDE DEF b
    <3>2. PICK f : Loop(f, Lists, N, b, G)  BY ONLY <3>1, Recursion
    <3>3. QED  BY <3>2 DEF b, Loop
  <2>5. ASSUME NEW i \in 1..N PROVE f[i] = Next1(i, f[i - 1])
    <3>1. i - 1 \in 0..N  BY <1>1
    <3>2. f[i - 1] \in Lists  BY <2>4, <3>1
    <3> DEFINE l == f[i - 1]
    <3> HIDE DEF l
    <3>3. <<i, l>> \in (1..N) \X Seq(Place)  BY <3>2 DEF l, Lists
    <3>4. G[<<i, l>>] = Next1(i, l)  BY <3>3 DEF G
    <3>5. f[i] = G[<<i, l>>]  BY <2>4 DEF l
    <3>6. QED  BY <3>4, <3>5 DEF l
  <2>6. f = [i \in 0..N |-> IF i = 0 THEN <<>> ELSE Next1(i, f[i - 1])]
    <3> HIDE DEF Next1
    <3>1. \A i \in 0..N : f[i] = IF i = 0 THEN <<>> ELSE Next1(i, f[i - 1])
      BY <1>1, <2>4, <2>5
    <3>2. QED  BY <2>4, <3>1
  <2>7. QED  BY <2>6
<1>3. PICK f : Runs(f) /\ OfType(L, t) = f[N]
  BY <1>2 DEF OfType, N
<1> DEFINE Z == {n \in 0..N : /\ f[n] \in Seq(HasType(t))
                              /\ \A i \in DOMAIN f[n] : \E j \in 1..n : f[n][i] = L[j]
                              /\ Once(L) => Once(f[n])}
<1>4. 0 \in Z
  <2>1. f[0] = <<>>  BY <1>1, <1>3
  <2>2. <<>> \in Seq(HasType(t)) /\ DOMAIN <<>> = {}  BY EmptySeq
  <2>3. /\ f[0] \in Seq(HasType(t)) /\ Once(f[0])
        /\ \A i \in DOMAIN f[0] : \E j \in 1..0 : f[0][i] = L[j]
    BY <2>1, <2>2 DEF Once
  <2>4. 0 \in 0..N  BY <1>1
  <2>5. QED  BY <2>3, <2>4
<1>5. ASSUME NEW n \in 1..N, n - 1 \in Z PROVE n \in Z
  <2> DEFINE l == f[n - 1]
  <2>1. f[n] = Next1(n, l)
    <3> HIDE DEF Next1
    <3>1. n \in 0..N /\ n # 0  BY <1>1
    <3>2. QED  BY <1>3, <3>1
  <2>2. /\ l \in Seq(HasType(t))
        /\ \A i \in DOMAIN l : \E j \in 1..(n - 1) : l[i] = L[j]
        /\ Once(L) => Once(l)
    BY <1>5
  <2>3. \A j \in 1..(n - 1) : j \in 1..n /\ j # n  BY <1>1
  <2> HIDE DEF l
  <2>4. CASE TypeOf[element[L[n]]] # t
    <3>1. f[n] = l  BY <2>1, <2>4
    <3>2. QED  BY <2>2, <2>3, <3>1
  <2>5. CASE TypeOf[element[L[n]]] = t
    <3>1. f[n] = Append(l, L[n]) /\ L[n] \in HasType(t)
      BY <1>1, <2>1, <2>5 DEF HasType
    <3>2. /\ f[n] \in Seq(HasType(t))
          /\ DOMAIN f[n] = DOMAIN l \union {Len(l) + 1}
          /\ \A i \in DOMAIN l : f[n][i] = l[i]
          /\ f[n][Len(l) + 1] = L[n]
      BY <2>2, <3>1, Appended
    <3>3. \A i \in DOMAIN f[n] : \E j \in 1..n : f[n][i] = L[j]
      BY <2>2, <2>3, <3>2
    <3>4. ASSUME Once(L) PROVE Once(f[n])
      <4>1. \A i \in DOMAIN l : l[i] # L[n]
        <5>1. SUFFICES ASSUME NEW i \in DOMAIN l, l[i] = L[n] PROVE FALSE  OBVIOUS
        <5>2. PICK j \in 1..(n - 1) : l[i] = L[j]  BY <2>2
        <5>3. j \in DOMAIN L /\ n \in DOMAIN L /\ j # n  BY <1>1, ListShape
        <5>4. QED  BY <3>4, <5>1, <5>2, <5>3 DEF Once
      <4>2. QED  BY <2>2, <3>2, <3>4, <4>1 DEF Once
    <3>5. QED  BY <3>2, <3>3, <3>4
  <2>6. QED  BY <2>4, <2>5
<1> HIDE DEF Z
<1>6. N \in Z
  <2>1. \A n \in 0..N : n \in Z  BY ONLY <1>1, <1>4, <1>5, InductionTo
  <2>2. QED  BY <1>1, <2>1
<1>7. QED  BY <1>3, <1>6 DEF Z

(* A server of the list is picked, whatever the loads: the first one is    *)
(* always better than none.                                                *)
LEMMA LeastLoadedListed ==
  ASSUME NEW L \in Seq(Server), L # <<>>
  PROVE  LeastLoaded(L) \in Elements(L)
<1> DEFINE N == Len(L)
<1> DEFINE Mins == {-1} \union {Load(s) : s \in Server}
<1> DEFINE Picks == [min : Mins, server : {Unset} \union Server]
<1> DEFINE Better(i, p) == \/ L[i] \notin DOMAIN serverLoads
                           \/ p.min = -1
                           \/ Load(L[i]) < p.min
<1> DEFINE Pick(i) == [min |-> Load(L[i]), server |-> L[i]]
<1> DEFINE Next1(i, p) == IF Better(i, p) THEN Pick(i) ELSE p
<1> DEFINE none == [min |-> -1, server |-> Unset]
<1> DEFINE Runs(f) == f = [i \in 0..N |-> IF i = 0 THEN none ELSE Next1(i, f[i - 1])]
<1>1. /\ N \in Nat /\ N > 0 /\ DOMAIN L = 1..N
      /\ \A i \in 1..N : L[i] \in Server
  BY ListShape
<1> HIDE DEF N, Better
<1>2. /\ \A i \in 1..N : Pick(i) \in Picks
      /\ none \in Picks
  BY <1>1
<1> HIDE DEF Mins, Picks
<1>3. \E f : Runs(f)
  <2> DEFINE G == [x \in (1..N) \X Picks |-> Next1(x[1], x[2])]
  <2>1. G \in [(1..N) \X Picks -> Picks]
    <3> HIDE DEF Pick
    <3>1. \A x \in (1..N) \X Picks : Next1(x[1], x[2]) \in Picks  BY <1>2
    <3> HIDE DEF Next1
    <3>2. QED  BY <3>1
  <2> HIDE DEF G, none
  <2>2. PICK f : Loop(f, Picks, N, none, G)  BY ONLY <1>1, <1>2, <2>1, Recursion
  <2>3. ASSUME NEW i \in 1..N PROVE f[i] = Next1(i, f[i - 1])
    <3> DEFINE p == f[i - 1]
    <3>1. p \in Picks /\ f[i] = G[<<i, p>>]  BY <1>1, <2>2 DEF Loop
    <3> HIDE DEF p, Next1
    <3>2. G[<<i, p>>] = Next1(i, p)  BY <3>1 DEF G
    <3>3. QED  BY <3>1, <3>2 DEF p
  <2>4. Runs(f)
    <3> HIDE DEF Next1
    <3>1. f \in [0..N -> Picks] /\ f[0] = none  BY <2>2 DEF Loop
    <3>2. \A i \in 0..N : f[i] = IF i = 0 THEN none ELSE Next1(i, f[i - 1])
      BY <1>1, <2>3, <3>1
    <3>3. QED  BY <3>1, <3>2
  <2>5. QED  BY <2>4
<1>4. PICK f : Runs(f) /\ LeastLoaded(L) = f[N].server
  BY <1>3 DEF LeastLoaded, N, Better
<1> DEFINE Z == {n \in 0..N : IF n = 0 THEN f[n] = none
                              ELSE f[n].server \in Elements(L)}
<1>5. 0 \in Z
  <2> HIDE DEF Next1, none
  <2>1. QED  BY <1>1, <1>4
<1>6. ASSUME NEW n \in 1..N, n - 1 \in Z PROVE n \in Z
  <2>1. f[n] = Next1(n, f[n - 1])
    <3> HIDE DEF Next1, none
    <3>1. n \in 0..N /\ n # 0  BY <1>1
    <3>2. QED  BY <1>4, <3>1
  <2>2. L[n] \in Elements(L)  BY <1>1 DEF Elements
  <2>3. CASE Better(n, f[n - 1])
    <3>1. f[n] = Pick(n)  BY <2>1, <2>3
    <3>2. f[n].server = L[n]  BY <3>1
    <3>3. QED  BY <1>1, <2>2, <3>2
  <2>4. CASE ~Better(n, f[n - 1])
    <3>1. f[n] = f[n - 1]  BY <2>1, <2>4
    <3>2. n - 1 # 0
      <4>1. SUFFICES ASSUME n - 1 = 0 PROVE FALSE  OBVIOUS
      <4>2. f[n - 1].min = -1  BY <1>6, <4>1
      <4>3. QED  BY <2>4, <4>2 DEF Better
    <3>3. QED  BY <1>1, <1>6, <3>1, <3>2
  <2>5. QED  BY <2>3, <2>4
<1> HIDE DEF Z
<1>7. N \in Z
  <2>1. \A n \in 0..N : n \in Z  BY ONLY <1>1, <1>5, <1>6, InductionTo
  <2>2. QED  BY <1>1, <2>1
<1>8. QED  BY <1>1, <1>4, <1>7 DEF Z

(* Of the servers that share a point of a ring one is the last.            *)
LEMMA OwnerListed ==
  ASSUME NEW L \in Seq(Server), NEW p \in RingPoints(L)
  PROVE  OwnerOf(L, p) \in Elements(L)
<1> DEFINE Owns(i) == i \in DOMAIN L /\ p \in Points[L[i]]
<1> DEFINE Distances == {Len(L) - i : i \in {k \in DOMAIN L : Owns(k)}}
<1>1. Len(L) \in Nat /\ DOMAIN L = 1..Len(L)  BY ListShape
<1>2. \E i \in DOMAIN L : Owns(i)  BY DEF RingPoints, Elements
<1>3. Distances \in SUBSET Nat /\ Distances # {}  BY <1>1, <1>2
<1>4. PICK x \in Distances : \A e \in Distances : x <= e
  <2> HIDE DEF Distances
  <2>1. QED  BY <1>3, LeastNumber
<1>5. PICK i \in DOMAIN L : Owns(i) /\ x = Len(L) - i  BY <1>4
<1>6. \A j \in DOMAIN L : p \in Points[L[j]] => j <= i
  <2>1. SUFFICES ASSUME NEW j \in DOMAIN L, p \in Points[L[j]] PROVE j <= i
    OBVIOUS
  <2>2. Len(L) - j \in Distances  BY <2>1
  <2>3. x <= Len(L) - j
    <3> HIDE DEF Distances
    <3>1. QED  BY <1>4, <2>2
  <2>4. QED  BY <1>1, <1>5, <2>3
<1>7. QED  BY <1>5, <1>6 DEF OwnerOf, Elements

(* A ring made of a list leads every key to a server of the list.          *)
LEMMA HashListed ==
  ASSUME NEW L \in Seq(Server), L # <<>>, NEW key
  PROVE  ConsistentHash(L, key) \in Elements(L)
<1> DEFINE after == {p \in RingPoints(L) : p >= KeyHash[key]}
<1> DEFINE from == IF after = {} THEN RingPoints(L) ELSE after
<1>1. /\ 1 \in DOMAIN L
      /\ \A i \in DOMAIN L : Points[L[i]] \subseteq Nat /\ Points[L[i]] # {}
  BY ListShape, HashAssumption
<1>2. RingPoints(L) \subseteq Nat /\ RingPoints(L) # {}
  BY <1>1 DEF RingPoints, Elements
<1>3. from \in SUBSET Nat /\ from # {} /\ from \subseteq RingPoints(L)  BY <1>2
<1>4. PointOf(L, key) = CHOOSE p \in from : \A q \in from : p <= q  BY DEF PointOf
<1> HIDE DEF from
<1>5. \E p \in from : \A q \in from : p <= q  BY <1>3, LeastNumber
<1>6. PointOf(L, key) \in RingPoints(L)  BY <1>3, <1>4, <1>5
<1>7. QED  BY <1>6, OwnerListed DEF ConsistentHash

(* What typeServersConfig makes of a list.                                 *)
LEMMA GroupedLists ==
  ASSUME NEW L \in Seq(Place), element \in [Place -> Server]
  PROVE  /\ DOMAIN Grouped(NoTypes, L) \subseteq ServerType
         /\ \A t \in DOMAIN Grouped(NoTypes, L) :
               /\ Grouped(NoTypes, L)[t] \in Seq(HasType(t))
               /\ Once(L) => Once(Grouped(NoTypes, L)[t])
<1> DEFINE types == {TypeOf[element[p]] : p \in Elements(L)}
<1>1. \A p \in Elements(L) : p \in Place  BY ListShape DEF Elements
<1>2. types \subseteq ServerType  BY <1>1, ServerAssumption
<1>3. \A t \in types : <<>> \o OfType(L, t) = OfType(L, t)
  BY OfTypeLists, ConcatEmptySeq
<1>4. Grouped(NoTypes, L) = [t \in types |-> <<>> \o OfType(L, t)]
  BY DEF Grouped, NoTypes
<1>5. DOMAIN Grouped(NoTypes, L) = types  BY <1>4
<1>6. \A t \in types : Grouped(NoTypes, L)[t] = OfType(L, t)  BY <1>3, <1>4
<1> HIDE DEF types
<1>7. QED  BY <1>2, <1>5, <1>6, OfTypeLists

----------------------------------------------------------------------------
(* The server a call gets.                                                 *)

routingState == <<conf, element, hashRing, roundRobinIdx, at, seen, chosen>>

LEMMA RoutingInit == LBInit => RoutingInv
<1> SUFFICES ASSUME LBInit PROVE RoutingInv  OBVIOUS
<1> USE DEF LBInit
<1>1. /\ \A S : <<>> \in Seq(S)
      /\ 1 \in DOMAIN Files /\ Len(Files[1]) \in Nat /\ Unset \notin Server
  BY EmptySeq, ListShape, ServerAssumption, UnsetAssumption
<1>2. DOMAIN NoTypes = {} /\ DOMAIN <<>> = {}  BY DEF NoTypes
<1>3. element \in [Place -> Server] /\ \A p \in Place : element[p] \in EntriesAt(p[2])
  BY Positions
<1>4. PICK home : home = [p \in Place |-> TypeOf[element[p]]]  OBVIOUS
<1>5. HomesFit(home)
  <2>1. home \in [Place -> ServerType]  BY <1>3, <1>4, ServerAssumption
  <2>2. \A p \in Place : home[p] = TypeOf[element[p]]  BY <1>4
  <2>3. QED  BY <1>3, <2>1, <2>2 DEF HomesFit, TypeThere
<1>6. LBTypeOK
  <2>1. DOMAIN conf.types = {} /\ conf.servers = <<>>  BY <1>2
  <2>2. DOMAIN serverLoads = {}  OBVIOUS
  <2>3. strategy \in Strategies  BY DEF Strategies
  <2>4. QED  BY <1>1, <1>3, <2>1, <2>2, <2>3 DEF LBTypeOK
<1>7. ContentFits  BY <1>2, <1>3 DEF ContentFits, InPosition
<1>8. GroupedOnce(home)  BY <1>2 DEF GroupedOnce
<1>9. OneListEach(home)  BY <1>1, <1>2 DEF OneListEach, HasRead
<1>10. StateFitsList  BY DEF StateFitsList, HasRead
<1>11. DestinationIsListed  BY DEF DestinationIsListed
<1>12. ConfShape  BY DEF ConfShape
<1>13. RoutingHolds(home)
  BY <1>5, <1>6, <1>7, <1>8, <1>9, <1>10, <1>11, <1>12 DEF RoutingHolds, ListInv
<1>14. QED  BY <1>5, <1>13 DEF RoutingInv, HomesFit

(* A change of the list as a whole disturbs no call.                       *)
LEMMA NewList ==
  ASSUME NEW old, RoutingHolds(old), NEW home, HomesFit(home),
         home = old \/ \A c \in Choice : at[c] = "new",
         NEW L \in Seq(Place), InPosition(L), NEW types,
         conf' = [servers |-> L, types |-> types],
         UNCHANGED <<element, hashRing, roundRobinIdx, at, seen, chosen>>,
         types = NoTypes \/ \A c \in Choice : at[c] = "new",
         DOMAIN types \subseteq ServerType,
         \A t \in DOMAIN types : types[t] \in Seq(PlacesOf(home, t)),
         startup' # "done" => types = NoTypes /\ \A c \in Choice : at[c] = "new"
  PROVE  ListInv(home)' /\ ConfShape' /\ conf'.servers \in Seq(Place)
         /\ DOMAIN conf'.types \subseteq ServerType
<1>1. conf'.servers = L /\ conf'.types = types /\ ConfShape'  BY DEF ConfShape
<1>2. DOMAIN NoTypes = {} /\ \A S : <<>> \in Seq(S)  BY EmptySeq DEF NoTypes
<1>3. GroupedOnce(home)'  BY <1>1 DEF GroupedOnce
<1>4. OneListEach(home)'
  <2>1. CASE home = old
    BY <1>1, <1>2, <2>1 DEF RoutingHolds, ListInv, OneListEach, HasRead
  <2>2. CASE \A c \in Choice : at[c] = "new"
    BY <1>1, <1>2, <2>2 DEF RoutingHolds, ListInv, OneListEach, HasRead
  <2>3. QED  BY <2>1, <2>2
<1>5. StateFitsList'
  BY DEF RoutingHolds, ListInv, StateFitsList, HasRead, Untouched
<1>6. DestinationIsListed'
  BY DEF RoutingHolds, ListInv, DestinationIsListed, Elements
<1>7. ContentFits'
  BY <1>1 DEF RoutingHolds, ListInv, ContentFits, InPosition
<1>8. QED  BY <1>1, <1>3, <1>4, <1>5, <1>6, <1>7 DEF ListInv

LEMMA ReadKeepsLists ==
  ASSUME NEW home, RoutingHolds(home), ReadServersConfig
  PROVE  RoutingHolds(home)'
<1> USE DEF ReadServersConfig, lbState, calls
<1> DEFINE L == [i \in DOMAIN Files[file] |-> <<file, i>>]
<1>1. file \in DOMAIN Files /\ HomesFit(home)  BY DEF RoutingHolds, LBTypeOK
<1>2. Files[file] \in Seq(Server)  BY <1>1, ListShape, ServerAssumption
<1>3. Len(Files[file]) \in Nat /\ DOMAIN Files[file] = 1..Len(Files[file])
  BY <1>2, ListShape
<1>4. L \in Seq(Place)
  <2>1. L \in [1..Len(Files[file]) -> Place]  BY <1>1, <1>3, Positions
  <2>2. QED  BY <1>3, <2>1, SeqDef
<1>5. InPosition(L)  BY DEF InPosition
<1>6. DOMAIN NoTypes = {}  BY DEF NoTypes
<1>7. \A c \in Choice : at[c] = "new"  BY DEF RoutingHolds, ListInv, GroupedOnce
<1>8. conf' = [servers |-> L, types |-> NoTypes]  OBVIOUS
<1> HIDE DEF L
<1>9. /\ ListInv(home)' /\ ConfShape' /\ conf'.servers \in Seq(Place)
      /\ DOMAIN conf'.types \subseteq ServerType
  BY <1>1, <1>4, <1>5, <1>6, <1>7, <1>8, NewList
<1>10. decoding' \in 0..(Len(Files[parsed']) + 1)
  BY <1>3 DEF RoutingHolds, LBTypeOK, ListInv, GroupedOnce
<1>11. LBTypeOK'  BY <1>9, <1>10 DEF RoutingHolds, LBTypeOK
<1>12. QED  BY <1>1, <1>9, <1>11 DEF RoutingHolds, HomesFit, TypeThere

(* A list is grouped by what its places hold at that moment.               *)
LEMMA GroupKeepsLists ==
  ASSUME NEW old, RoutingHolds(old), TypeServersConfig,
         NEW home, home = [p \in Place |-> TypeOf[element[p]]]
  PROVE  RoutingHolds(home)' /\ home \in [Place -> ServerType]
<1> USE DEF TypeServersConfig, lbState, calls
<1> DEFINE L == conf.servers
<1> DEFINE types == Grouped(NoTypes, L)
<1>1. /\ L \in Seq(Place) /\ InPosition(L) /\ element \in [Place -> Server]
      /\ \A p \in Place : element[p] \in EntriesAt(p[2])
      /\ conf.types = NoTypes /\ \A c \in Choice : at[c] = "new"
  BY DEF RoutingHolds, LBTypeOK, ListInv, GroupedOnce, ContentFits
<1>2. conf' = [servers |-> L, types |-> types]  BY <1>1 DEF RoutingHolds, ConfShape
<1>3. HomesFit(home)
  <2>1. home \in [Place -> ServerType]  BY <1>1, ServerAssumption
  <2>2. \A p \in Place : home[p] = TypeOf[element[p]]  OBVIOUS
  <2>3. QED  BY <1>1, <2>1, <2>2 DEF HomesFit, TypeThere
<1>4. \A t : HasType(t) = PlacesOf(home, t)  BY DEF HasType, PlacesOf
<1>5. /\ DOMAIN types \subseteq ServerType
      /\ \A t \in DOMAIN types : types[t] \in Seq(PlacesOf(home, t))
  BY <1>1, <1>4, GroupedLists
<1> HIDE DEF types, L
<1>6. /\ ListInv(home)' /\ ConfShape' /\ conf'.servers \in Seq(Place)
      /\ DOMAIN conf'.types \subseteq ServerType
  BY <1>1, <1>2, <1>3, <1>5, NewList
<1>7. LBTypeOK'  BY <1>6 DEF RoutingHolds, LBTypeOK
<1>8. QED  BY <1>3, <1>6, <1>7 DEF RoutingHolds, HomesFit, TypeThere

(* Where an entry is decoded to.                                           *)
LEMMA PlaceShape ==
  ASSUME NEW home, RoutingHolds(home), NEW i \in DOMAIN Files[parsed]
  PROVE  PlaceOf(i) \in Place /\ PlaceOf(i)[2] = i
<1>1. /\ conf.servers \in Seq(Place) /\ parsed \in DOMAIN Files /\ InPosition(conf.servers)
  BY DEF RoutingHolds, LBTypeOK, ListInv, ContentFits
<1>2. \A j \in DOMAIN conf.servers : conf.servers[j] \in Place  BY <1>1, ListShape
<1>3. QED  BY <1>1, <1>2, Positions DEF PlaceOf, InPosition

LEMMA ReloadKeepsLists ==
  ASSUME NEW home, RoutingHolds(home), OnConfigChange
  PROVE  RoutingHolds(home)'
<1> USE DEF OnConfigChange, lbState, calls
<1>1. parsed \in DOMAIN Files /\ HomesFit(home)  BY DEF RoutingHolds, LBTypeOK
<1>2. Files[parsed] \in Seq(Server)  BY <1>1, ListShape, ServerAssumption
<1>3. Len(Files[parsed]) \in Nat /\ DOMAIN Files[parsed] = 1..Len(Files[parsed])
  BY <1>2, ListShape
<1>4. Decoded \in Seq(Place) /\ InPosition(Decoded)
  <2>1. Decoded \in [1..Len(Files[parsed]) -> Place]  BY <1>3, PlaceShape DEF Decoded
  <2>2. Decoded \in Seq(Place)  BY <1>3, <2>1, SeqDef
  <2>3. QED  BY <2>2, PlaceShape DEF Decoded, InPosition
<1>5. DOMAIN NoTypes = {}  BY DEF NoTypes
<1>6. startup # "done" => \A c \in Choice : at[c] = "new"
  BY DEF RoutingHolds, ListInv, GroupedOnce
<1>7. /\ ListInv(home)' /\ ConfShape' /\ conf'.servers \in Seq(Place)
      /\ DOMAIN conf'.types \subseteq ServerType
  BY <1>1, <1>4, <1>5, <1>6, NewList
<1>8. LBTypeOK'  BY <1>3, <1>7 DEF RoutingHolds, LBTypeOK
<1>9. QED  BY <1>1, <1>7, <1>8 DEF RoutingHolds, HomesFit, TypeThere

(* Neither does what a step outside the calls and the list changes.        *)
LEMMA SettingsKeepLists ==
  ASSUME NEW home, RoutingHolds(home), LBTypeOK', UNCHANGED <<routingState, startup>>
  PROVE  RoutingHolds(home)'
<1> USE DEF routingState
<1>1. ConfShape' /\ HomesFit(home)'
  BY DEF RoutingHolds, ConfShape, HomesFit, TypeThere
<1>2. GroupedOnce(home)'  BY DEF RoutingHolds, ListInv, GroupedOnce
<1>3. OneListEach(home)'  BY DEF RoutingHolds, ListInv, OneListEach, HasRead
<1>4. StateFitsList'  BY DEF RoutingHolds, ListInv, StateFitsList, HasRead, Untouched
<1>5. DestinationIsListed'
  BY DEF RoutingHolds, ListInv, DestinationIsListed, Elements
<1>6. ContentFits'  BY DEF RoutingHolds, ListInv, ContentFits, InPosition
<1>7. QED  BY <1>1, <1>2, <1>3, <1>4, <1>5, <1>6 DEF RoutingHolds, ListInv

LEMMA DecodeKeepsLists ==
  ASSUME NEW home, RoutingHolds(home), DecodeServer
  PROVE  RoutingHolds(home)'
<1> USE DEF DecodeServer, lbState, calls
<1> DEFINE s == Files[parsed][decoding]
<1>1. /\ element \in [Place -> Server] /\ parsed \in DOMAIN Files
      /\ HomesFit(home) /\ ContentFits
      /\ startup # "reading" /\ decoding \in DOMAIN Files[parsed]
  <2>1. Files[parsed] \in Seq(Server)
    BY ListShape, ServerAssumption DEF RoutingHolds, LBTypeOK
  <2>2. DOMAIN Files[parsed] = 1..Len(Files[parsed]) /\ Len(Files[parsed]) \in Nat
    BY <2>1, ListShape
  <2>3. QED  BY <2>2 DEF RoutingHolds, LBTypeOK, ListInv
<1>2. /\ PlaceOf(decoding) \in Place /\ PlaceOf(decoding)[2] = decoding
      /\ s \in Server /\ s \in EntriesAt(decoding)
  BY <1>1, PlaceShape, Positions
<1>3. element' \in [Place -> Server]  BY <1>1, <1>2
<1>4. decoding' \in 0..(Len(Files[parsed']) + 1)
  <2>1. Files[parsed] \in Seq(Server)  BY <1>1, ListShape, ServerAssumption
  <2>2. DOMAIN Files[parsed] = 1..Len(Files[parsed]) /\ Len(Files[parsed]) \in Nat
    BY <2>1, ListShape
  <2>3. QED  BY <1>1, <2>2
<1>5. LBTypeOK'  BY <1>1, <1>3, <1>4 DEF RoutingHolds, LBTypeOK
<1>6. ContentFits'
  <2>1. \A p \in Place : \/ element'[p] = element[p]
                         \/ p = PlaceOf(decoding) /\ element'[p] = s
    BY <1>1, <1>2
  <2>2. \A p \in Place : element[p] \in EntriesAt(p[2])  BY <1>1 DEF ContentFits
  <2> HIDE DEF s
  <2>3. \A p \in Place : element'[p] \in EntriesAt(p[2])  BY <1>2, <2>1, <2>2
  <2>4. InPosition(conf.servers)'  BY <1>1 DEF ContentFits, InPosition
  <2>5. QED  BY <2>3, <2>4 DEF ContentFits
<1>7. ConfShape' /\ HomesFit(home)'
  BY <1>1 DEF RoutingHolds, ConfShape, HomesFit, TypeThere
<1>8. GroupedOnce(home)'  BY DEF RoutingHolds, ListInv, GroupedOnce
<1>9. OneListEach(home)'  BY DEF RoutingHolds, ListInv, OneListEach, HasRead
<1>10. StateFitsList'  BY DEF RoutingHolds, ListInv, StateFitsList, HasRead, Untouched
<1>11. DestinationIsListed'
  BY DEF RoutingHolds, ListInv, DestinationIsListed, Elements
<1>12. QED
  BY <1>5, <1>6, <1>7, <1>8, <1>9, <1>10, <1>11 DEF RoutingHolds, ListInv

(* A call reads the list that every call of its type before it has read.   *)
LEMMA ReadList ==
  ASSUME NEW home, RoutingHolds(home), NEW c \in Choice, ListServers(c)
  PROVE  /\ seen'[c] # <<>> => /\ TypeAsked[c] \in DOMAIN conf.types
                               /\ seen'[c] = conf.types[TypeAsked[c]]
         /\ seen'[c] \in Seq(PlacesOf(home, TypeAsked[c]))
         /\ ~HasRead(c) /\ seen' = [seen EXCEPT ![c] = seen'[c]]
         /\ \A d \in Choice : HasRead(d) /\ TypeAsked[d] = TypeAsked[c]
               => d # c /\ (seen'[c] # <<>> => seen'[c] = seen[d])
<1> DEFINE t == TypeAsked[c]
<1> DEFINE L == IF t \in DOMAIN conf.types THEN conf.types[t] ELSE <<>>
<1>1. seen \in [Choice -> Seq(Place)]  BY DEF RoutingHolds, LBTypeOK
<1>2. seen' = [seen EXCEPT ![c] = L] /\ at[c] = "new"  BY DEF ListServers
<1>3. L \in Seq(PlacesOf(home, t))
  BY EmptySeq DEF RoutingHolds, ListInv, GroupedOnce
<1>4. ~HasRead(c)  BY <1>2 DEF RoutingHolds, ListInv, OneListEach
<1>5. ASSUME NEW d \in Choice, HasRead(d), TypeAsked[d] = t, t \in DOMAIN conf.types
      PROVE  conf.types[t] = seen[d]
  BY <1>5 DEF RoutingHolds, ListInv, OneListEach
<1>6. QED  BY <1>1, <1>2, <1>3, <1>4, <1>5

LEMMA ListingKeepsLists ==
  ASSUME NEW home, RoutingHolds(home), NEW c \in Choice, ListServers(c)
  PROVE  RoutingHolds(home)'
<1> DEFINE t == TypeAsked[c]
<1> DEFINE L == seen'[c]
<1>1. /\ L # <<>> => t \in DOMAIN conf.types /\ L = conf.types[t]
      /\ L \in Seq(PlacesOf(home, t)) /\ ~HasRead(c)
      /\ seen' = [seen EXCEPT ![c] = L]
      /\ \A d \in Choice : HasRead(d) /\ TypeAsked[d] = t
            => d # c /\ (L # <<>> => L = seen[d])
  BY ReadList
<1>2. /\ startup = "done" /\ at[c] = "new"
      /\ at' = [at EXCEPT ![c] = IF L = <<>> THEN "done" ELSE "listed"]
      /\ UNCHANGED <<configVars, lbState, currentContext, chosen, turns>>
  BY DEF RoutingHolds, LBTypeOK, ListServers
<1> HIDE DEF L
<1> USE DEF configVars
<1>3. /\ seen \in [Choice -> Seq(Place)] /\ t \in ServerType
      /\ at \in [Choice -> {"new", "listed", "done"}]
  BY ServerAssumption DEF RoutingHolds, LBTypeOK
<1>4. /\ \A d \in Choice : d # c => seen'[d] = seen[d] /\ at'[d] = at[d]
      /\ seen'[c] = L /\ at'[c] = (IF L = <<>> THEN "done" ELSE "listed")
  BY <1>1, <1>2, <1>3
<1>5. /\ Len(L) \in Nat /\ DOMAIN L = 1..Len(L) /\ (L # <<>> => Len(L) > 0)
      /\ L \in Seq(Place)
  <2>1. PlacesOf(home, t) \subseteq Place  BY DEF PlacesOf
  <2>2. L \in Seq(Place)  BY <1>1, <2>1, SeqMonotonic
  <2>3. QED  BY <2>2, ListShape
<1>6. /\ conf' = conf /\ hashRing' = hashRing /\ roundRobinIdx' = roundRobinIdx
      /\ startup' = startup /\ element' = element
  BY <1>2 DEF lbState
<1>7. \A d \in Choice : d # c => (HasRead(d)' <=> HasRead(d))
  BY <1>4 DEF HasRead
<1>8. HasRead(c)' <=> L # <<>>  BY <1>4 DEF HasRead
<1>9. LBTypeOK'
  BY <1>1, <1>2, <1>3, <1>5 DEF RoutingHolds, LBTypeOK, lbState
<1>10. ConfShape' /\ HomesFit(home)' /\ ContentFits'
  BY <1>6 DEF RoutingHolds, ConfShape, HomesFit, TypeThere, ListInv, ContentFits, InPosition
<1>11. GroupedOnce(home)'  BY <1>2, <1>6 DEF RoutingHolds, ListInv, GroupedOnce
<1>12. OneListEach(home)'
  <2> SUFFICES ASSUME NEW d \in Choice
               PROVE  /\ seen'[d] \in Seq(PlacesOf(home, TypeAsked[d]))
                      /\ at'[d] = "new" => ~HasRead(d)'
                      /\ at'[d] = "listed" => HasRead(d)'
                      /\ HasRead(d)' /\ TypeAsked[d] \in DOMAIN conf'.types
                           => conf'.types[TypeAsked[d]] = seen'[d]
                      /\ \A e \in Choice :
                            HasRead(d)' /\ HasRead(e)' /\ TypeAsked[d] = TypeAsked[e]
                              => seen'[d] = seen'[e]
    BY DEF OneListEach
  <2>1. CASE d = c
    <3>1. \A e \in Choice : HasRead(d)' /\ HasRead(e)' /\ TypeAsked[d] = TypeAsked[e]
             => seen'[d] = seen'[e]
      BY <1>1, <1>4, <1>7, <1>8, <2>1
    <3>2. QED  BY <1>1, <1>4, <1>5, <1>6, <1>8, <2>1, <3>1
  <2>2. CASE d # c
    <3>1. /\ seen[d] \in Seq(PlacesOf(home, TypeAsked[d]))
          /\ at[d] = "new" => ~HasRead(d)
          /\ at[d] = "listed" => HasRead(d)
          /\ HasRead(d) /\ TypeAsked[d] \in DOMAIN conf.types
               => conf.types[TypeAsked[d]] = seen[d]
          /\ \A e \in Choice : HasRead(d) /\ HasRead(e) /\ TypeAsked[d] = TypeAsked[e]
               => seen[d] = seen[e]
      BY DEF RoutingHolds, ListInv, OneListEach
    <3>2. ASSUME NEW e \in Choice, HasRead(d)', HasRead(e)', TypeAsked[d] = TypeAsked[e]
          PROVE  seen'[d] = seen'[e]
      <4>1. CASE e = c  BY <1>1, <1>4, <1>7, <1>8, <2>2, <3>2, <4>1
      <4>2. CASE e # c  BY <1>4, <1>7, <2>2, <3>1, <3>2, <4>2
      <4>3. QED  BY <4>1, <4>2
    <3>3. QED  BY <1>4, <1>6, <1>7, <2>2, <3>1, <3>2
  <2>3. QED  BY <2>1, <2>2
<1>13. StateFitsList'
  <2>1. ASSUME NEW u \in ServerType, hashRing[u] # Unset
        PROVE  \E d \in Choice : TypeAsked[d] = u /\ HasRead(d)' /\ MadeOf(hashRing[u], seen'[d])
    <3>1. PICK d \in Choice : TypeAsked[d] = u /\ HasRead(d) /\ MadeOf(hashRing[u], seen[d])
      BY <2>1 DEF RoutingHolds, ListInv, StateFitsList
    <3>2. QED  BY <1>1, <1>4, <1>7, <3>1
  <2>2. ASSUME NEW u \in ServerType, Untouched(u)' PROVE Untouched(u)
    BY <1>1, <1>7, <2>2 DEF Untouched
  <2>3. ASSUME NEW d \in Choice, HasRead(d)'
        PROVE  roundRobinIdx[TypeAsked[d]] < Len(seen'[d])
    <3>1. CASE HasRead(d)
      BY <1>1, <1>4, <3>1 DEF RoutingHolds, ListInv, StateFitsList
    <3>2. CASE ~HasRead(d)
      <4>1. d = c /\ L # <<>>  BY <1>7, <1>8, <2>3, <3>2
      <4>2. CASE Untouched(t)
        BY <1>3, <1>4, <1>5, <4>1, <4>2 DEF RoutingHolds, ListInv, StateFitsList
      <4>3. CASE ~Untouched(t)
        <5>1. PICK e \in Choice : TypeAsked[e] = t /\ HasRead(e)  BY <4>3 DEF Untouched
        <5>2. seen[e] = L /\ roundRobinIdx[t] < Len(seen[e])
          BY <1>1, <4>1, <5>1 DEF RoutingHolds, ListInv, StateFitsList
        <5>3. QED  BY <1>4, <4>1, <5>2
      <4>4. QED  BY <4>2, <4>3
    <3>3. QED  BY <3>1, <3>2
  <2>4. ASSUME NEW u \in ServerType, Untouched(u)' PROVE roundRobinIdx[u] = 0
    BY <2>2, <2>4 DEF RoutingHolds, ListInv, StateFitsList
  <2>5. QED  BY <1>6, <2>1, <2>3, <2>4 DEF StateFitsList, MadeOf
<1>14. DestinationIsListed'
  <2>1. chosen[c] = Unset \/ HasRead(c)
    <3>1. ASSUME chosen[c] # Unset PROVE HasRead(c)
      <4>1. \E p \in Elements(seen[c]) : TRUE
        BY <3>1 DEF RoutingHolds, ListInv, DestinationIsListed
      <4>2. QED  BY <4>1 DEF Elements, HasRead
    <3>2. QED  BY <3>1
  <2>2. chosen[c] = Unset  BY <1>1, <2>1
  <2> SUFFICES ASSUME NEW d \in Choice, chosen'[d] # Unset
               PROVE  /\ \E p \in Elements(seen'[d]) : chosen'[d] \in EntriesAt(p[2])
                      /\ TypesKept => TypeOf[chosen'[d]] = TypeAsked[d]
    BY DEF DestinationIsListed
  <2>3. d # c /\ chosen'[d] = chosen[d] /\ seen'[d] = seen[d]  BY <1>2, <1>4, <2>2
  <2>4. QED  BY <2>3 DEF RoutingHolds, ListInv, DestinationIsListed
<1>15. QED
  BY <1>9, <1>10, <1>11, <1>12, <1>13, <1>14 DEF RoutingHolds, ListInv

(* What is kept of a list at the moment of a selection.                    *)
LEMMA ValuesMade ==
  ASSUME NEW home, RoutingHolds(home), NEW L \in Seq(Place)
  PROVE  MadeOf(Values(L), L)
<1>1. /\ element \in [Place -> Server]
      /\ \A p \in Place : element[p] \in EntriesAt(p[2])
  BY DEF RoutingHolds, LBTypeOK, ListInv, ContentFits
<1>2. /\ DOMAIN L = 1..Len(L) /\ Len(L) \in Nat
      /\ \A i \in DOMAIN L : L[i] \in Place
  BY ListShape
<1>3. Values(L) \in [1..Len(L) -> Server]  BY <1>1, <1>2 DEF Values
<1>4. Values(L) \in Seq(Server)  BY <1>2, <1>3, SeqDef
<1>5. QED  BY <1>1, <1>2, <1>4 DEF MadeOf, Values

(* What was made of the list of a call is an answer to it.                 *)
Answers(c, s) == \E p \in Elements(seen[c]) : s \in EntriesAt(p[2])

LEMMA MadeAnswers ==
  ASSUME NEW c, NEW ring, MadeOf(ring, seen[c]), NEW s \in Elements(ring)
  PROVE  Answers(c, s)
BY DEF MadeOf, Elements, Answers

LEMMA AnswerFits ==
  ASSUME NEW home, RoutingHolds(home), NEW c \in Choice, NEW s, Answers(c, s)
  PROVE  s \in Server /\ (TypesKept => TypeOf[s] = TypeAsked[c])
<1>1. PICK p \in Elements(seen[c]) : s \in EntriesAt(p[2])  BY DEF Answers
<1>2. p \in PlacesOf(home, TypeAsked[c])
  <2>1. seen[c] \in Seq(PlacesOf(home, TypeAsked[c]))
    BY DEF RoutingHolds, ListInv, OneListEach
  <2>2. QED  BY <1>1, <2>1, ListShape DEF Elements
<1>3. PICK r \in EntriesAt(p[2]) : TypeAsked[c] = TypeOf[r]
  BY <1>2 DEF RoutingHolds, HomesFit, TypeThere, PlacesOf
<1>4. ASSUME TypesKept PROVE TypeOf[s] = TypeOf[r]
  <2>1. PICK k \in DOMAIN Files : p[2] \in DOMAIN Files[k] /\ r = Files[k][p[2]]
    BY <1>3 DEF EntriesAt
  <2>2. QED  BY <1>1, <1>4, <2>1 DEF TypesKept
<1>5. QED  BY <1>1, <1>3, <1>4, Positions

(* An answer from the list that was read leaves the lists as they are.     *)
LEMMA AnswerKeepsLists ==
  ASSUME NEW home, RoutingHolds(home), NEW c \in Choice, NEW s, Answers(c, s),
         at[c] = "listed", Answer(c, s), StateFitsList',
         roundRobinIdx' \in [ServerType -> Nat],
         hashRing' \in [ServerType -> {Unset} \union Seq(Server)],
         turns' \in [Place -> Nat]
  PROVE  RoutingHolds(home)'
<1> USE DEF Answer, configVars
<1>1. s \in Server /\ (TypesKept => TypeOf[s] = TypeAsked[c])  BY AnswerFits
<1>2. LBTypeOK'  BY <1>1 DEF RoutingHolds, LBTypeOK
<1>3. ConfShape' /\ HomesFit(home)' /\ ContentFits'
  BY DEF RoutingHolds, ConfShape, HomesFit, TypeThere, ListInv, ContentFits, InPosition
<1>4. GroupedOnce(home)'
  <2>1. startup # "done" => at[c] = "new"  BY DEF RoutingHolds, ListInv, GroupedOnce
  <2>2. QED  BY <2>1 DEF RoutingHolds, ListInv, GroupedOnce
<1>5. OneListEach(home)'
  <2>1. \A d \in Choice : at'[d] = "new" => at[d] = "new"
    BY DEF RoutingHolds, LBTypeOK
  <2>2. \A d \in Choice : at'[d] = "listed" => at[d] = "listed"
    BY DEF RoutingHolds, LBTypeOK
  <2>3. QED  BY <2>1, <2>2 DEF RoutingHolds, ListInv, OneListEach, HasRead
<1>6. DestinationIsListed'
  <2>1. chosen'[c] = s /\ \A d \in Choice : d # c => chosen'[d] = chosen[d]
    BY DEF RoutingHolds, LBTypeOK
  <2> SUFFICES ASSUME NEW d \in Choice, chosen'[d] # Unset
               PROVE  /\ \E p \in Elements(seen'[d]) : chosen'[d] \in EntriesAt(p[2])
                      /\ TypesKept => TypeOf[chosen'[d]] = TypeAsked[d]
    BY DEF DestinationIsListed
  <2>2. seen'[d] = seen[d]  OBVIOUS
  <2>3. CASE d = c  BY <1>1, <2>1, <2>2, <2>3 DEF Answers
  <2>4. CASE d # c  BY <2>1, <2>2, <2>4 DEF RoutingHolds, ListInv, DestinationIsListed
  <2>5. QED  BY <2>3, <2>4
<1>7. QED  BY <1>2, <1>3, <1>4, <1>5, <1>6 DEF RoutingHolds, ListInv

LEMMA ListedCall ==
  ASSUME NEW home, RoutingHolds(home), NEW c \in Choice, at[c] = "listed"
  PROVE  /\ seen[c] \in Seq(Place) /\ Len(seen[c]) \in Nat /\ Len(seen[c]) > 0
         /\ DOMAIN seen[c] = 1..Len(seen[c]) /\ HasRead(c)
         /\ \A i \in DOMAIN seen[c] : seen[c][i] \in Place
         /\ TypeAsked[c] \in ServerType
         /\ roundRobinIdx[TypeAsked[c]] \in 0..(Len(seen[c]) - 1)
<1>1. seen[c] \in Seq(Place) /\ HasRead(c)
  BY DEF RoutingHolds, LBTypeOK, ListInv, OneListEach
<1>2. /\ Len(seen[c]) \in Nat /\ DOMAIN seen[c] = 1..Len(seen[c]) /\ Len(seen[c]) > 0
      /\ \A i \in DOMAIN seen[c] : seen[c][i] \in Place
  BY <1>1, ListShape DEF HasRead
<1>3. TypeAsked[c] \in ServerType  BY ServerAssumption
<1>4. /\ roundRobinIdx[TypeAsked[c]] \in Nat
      /\ roundRobinIdx[TypeAsked[c]] < Len(seen[c])
  BY <1>1, <1>3 DEF RoutingHolds, LBTypeOK, ListInv, StateFitsList
<1>5. QED  BY <1>1, <1>2, <1>3, <1>4

LEMMA PlainSelection ==
  ASSUME NEW home, RoutingHolds(home), NEW c \in Choice, NEW s, Answers(c, s),
         at[c] = "listed", Answer(c, s),
         UNCHANGED <<roundRobinIdx, hashRing, turns>>
  PROVE  RoutingHolds(home)'
<1>1. StateFitsList'
  BY DEF Answer, RoutingHolds, ListInv, StateFitsList, HasRead, Untouched
<1>2. /\ roundRobinIdx' \in [ServerType -> Nat]
      /\ hashRing' \in [ServerType -> {Unset} \union Seq(Server)]
      /\ turns' \in [Place -> Nat]
  BY DEF RoutingHolds, LBTypeOK
<1>3. QED  BY <1>1, <1>2, AnswerKeepsLists

(* The content of a place of the list, whenever it is read.                *)
LEMMA ElementAnswers ==
  ASSUME NEW home, RoutingHolds(home), NEW c \in Choice, at[c] = "listed",
         NEW p \in Elements(seen[c])
  PROVE  Answers(c, element[p])
<1>1. p \in Place  BY ListedCall DEF Elements
<1>2. QED  BY <1>1 DEF Answers, RoutingHolds, ListInv, ContentFits

LEMMA OnlyKeepsLists ==
  ASSUME NEW home, RoutingHolds(home), NEW c \in Choice, SelectOnlyServer(c)
  PROVE  RoutingHolds(home)'
<1> USE DEF SelectOnlyServer
<1>1. at[c] = "listed" /\ Answer(c, element[seen[c][1]])
      /\ UNCHANGED <<roundRobinIdx, hashRing, turns>>
  OBVIOUS
<1>2. seen[c][1] \in Elements(seen[c])  BY <1>1, ListedCall DEF Elements
<1>3. QED  BY <1>1, <1>2, ElementAnswers, PlainSelection

LEMMA RandomKeepsLists ==
  ASSUME NEW home, RoutingHolds(home), NEW c \in Choice, SelectRandomServer(c)
  PROVE  RoutingHolds(home)'
<1>1. at[c] = "listed" /\ UNCHANGED <<roundRobinIdx, hashRing, turns>>
  BY DEF SelectRandomServer, Asking
<1>2. PICK p \in Elements(seen[c]) : Answer(c, element[p])  BY DEF SelectRandomServer
<1>3. QED  BY <1>1, <1>2, ElementAnswers, PlainSelection

LEMMA LeastConnectionKeepsLists ==
  ASSUME NEW home, RoutingHolds(home), NEW c \in Choice, SelectLeastConnectionServer(c)
  PROVE  RoutingHolds(home)'
<1> USE DEF SelectLeastConnectionServer, Asking
<1> DEFINE V == Values(seen[c])
<1>1. seen[c] \in Seq(Place) /\ DOMAIN seen[c] # {}  BY ListedCall
<1>2. MadeOf(V, seen[c])  BY <1>1, ValuesMade
<1>3. V \in Seq(Server) /\ V # <<>>
  <2>1. DOMAIN <<>> = {}  OBVIOUS
  <2>2. QED  BY <1>1, <1>2, <2>1 DEF MadeOf
<1> HIDE DEF V
<1>4. LeastLoaded(V) \in Elements(V)  BY <1>3, LeastLoadedListed
<1>5. Answers(c, LeastLoaded(V))  BY <1>2, <1>4, MadeAnswers
<1>6. QED  BY <1>5, PlainSelection DEF V

LEMMA NextOfCircle ==
  ASSUME NEW n \in Nat, NEW k \in 1..n
  PROVE  k % n = IF k = n THEN 0 ELSE k
<1>1. n \in Nat \ {0} /\ k \in Nat  OBVIOUS
<1>2. CASE k = n
  <2>1. n % n = 0  BY <1>1
  <2>2. QED  BY <1>2, <2>1
<1>3. CASE k < n
  <2>1. k % n = k  BY <1>1, <1>3
  <2>2. QED  BY <1>3, <2>1
<1>4. QED  BY <1>1, <1>2, <1>3

(* The index of round robin fits the list of every call of the type.       *)
LEMMA RoundRobinStep ==
  ASSUME NEW home, RoutingHolds(home), NEW c \in Choice, SelectRoundRobinServer(c)
  PROVE  LET t == TypeAsked[c]
             L == seen[c]
             k == roundRobinIdx[t] + 1
         IN /\ at[c] = "listed" /\ k \in DOMAIN L /\ k \in Nat /\ L[k] \in Place
            /\ Answer(c, element[L[k]])
            /\ turns' = [turns EXCEPT ![L[k]] = @ + 1]
            /\ roundRobinIdx' = [roundRobinIdx EXCEPT ![t] = IF k = Len(L) THEN 0 ELSE k]
            /\ UNCHANGED hashRing
<1> USE DEF SelectRoundRobinServer, Asking, NextIndex
<1> DEFINE t == TypeAsked[c]
<1> DEFINE L == seen[c]
<1> DEFINE k == roundRobinIdx[t] + 1
<1>1. /\ L \in Seq(Place) /\ Len(L) \in Nat /\ Len(L) > 1 /\ DOMAIN L = 1..Len(L)
      /\ roundRobinIdx[t] \in 0..(Len(L) - 1)
  BY ListedCall
<1>2. k \in DOMAIN L /\ k \in Nat /\ L[k] \in Place  BY <1>1, ListShape
<1>3. k % Len(L) = IF k = Len(L) THEN 0 ELSE k
  <2>1. k \in 1..Len(L) /\ Len(L) \in Nat  BY <1>1
  <2> HIDE DEF k, L
  <2>2. QED  BY <2>1, NextOfCircle
<1>4. QED  BY <1>2, <1>3

LEMMA RoundRobinKeepsLists ==
  ASSUME NEW home, RoutingHolds(home), NEW c \in Choice, SelectRoundRobinServer(c)
  PROVE  RoutingHolds(home)'
<1> DEFINE t == TypeAsked[c]
<1> DEFINE L == seen[c]
<1> DEFINE k == roundRobinIdx[t] + 1
<1>1. /\ at[c] = "listed" /\ k \in DOMAIN L /\ k \in Nat /\ L[k] \in Place
      /\ Answer(c, element[L[k]])
      /\ turns' = [turns EXCEPT ![L[k]] = @ + 1]
      /\ roundRobinIdx' = [roundRobinIdx EXCEPT ![t] = IF k = Len(L) THEN 0 ELSE k]
      /\ UNCHANGED hashRing
  BY RoundRobinStep
<1>2. /\ Len(L) \in Nat /\ Len(L) > 0 /\ DOMAIN L = 1..Len(L) /\ HasRead(c)
      /\ t \in ServerType
  BY <1>1, ListedCall
<1>3. /\ roundRobinIdx \in [ServerType -> Nat] /\ turns \in [Place -> Nat]
      /\ hashRing \in [ServerType -> {Unset} \union Seq(Server)]
  BY DEF RoutingHolds, LBTypeOK
<1>4. seen' = seen  BY <1>1 DEF Answer
<1>5. Answers(c, element[L[k]])
  <2>1. L[k] \in Elements(seen[c])  BY <1>1 DEF Elements
  <2>2. QED  BY <1>1, <2>1, ElementAnswers
<1> HIDE DEF k
<1>6. /\ roundRobinIdx' \in [ServerType -> Nat] /\ turns' \in [Place -> Nat]
      /\ hashRing' \in [ServerType -> {Unset} \union Seq(Server)]
      /\ roundRobinIdx'[t] < Len(L)
      /\ \A u \in ServerType : u # t => roundRobinIdx'[u] = roundRobinIdx[u]
  BY <1>1, <1>2, <1>3
<1>7. StateFitsList'
  <2>1. \A d \in Choice : HasRead(d)' <=> HasRead(d)  BY <1>4 DEF HasRead
  <2>2. \A u \in ServerType : hashRing'[u] # Unset =>
           \E d \in Choice : TypeAsked[d] = u /\ HasRead(d)' /\ MadeOf(hashRing'[u], seen'[d])
    BY <1>1, <1>4, <2>1 DEF RoutingHolds, ListInv, StateFitsList
  <2>3. ASSUME NEW d \in Choice, HasRead(d)'
        PROVE  roundRobinIdx'[TypeAsked[d]] < Len(seen'[d])
    <3>1. CASE TypeAsked[d] = t
      <4>1. seen[d] = L
        BY <1>2, <2>1, <2>3, <3>1 DEF RoutingHolds, ListInv, OneListEach
      <4>2. QED  BY <1>4, <1>6, <3>1, <4>1
    <3>2. CASE TypeAsked[d] # t
      BY <1>4, <1>6, <2>1, <2>3, <3>2, ServerAssumption
        DEF RoutingHolds, ListInv, StateFitsList
    <3>3. QED  BY <3>1, <3>2
  <2>4. ASSUME NEW u \in ServerType, Untouched(u)' PROVE roundRobinIdx'[u] = 0
    <3>1. Untouched(u)  BY <2>1, <2>4 DEF Untouched
    <3>2. u # t  BY <1>2, <3>1 DEF Untouched
    <3>3. QED  BY <1>6, <3>1, <3>2 DEF RoutingHolds, ListInv, StateFitsList
  <2>5. QED  BY <2>2, <2>3, <2>4 DEF StateFitsList, MadeOf
<1>8. QED  BY <1>1, <1>5, <1>6, <1>7, AnswerKeepsLists

(* A ring was made of the list of some call of the type, and that is the   *)
(* list of this one.                                                       *)
LEMMA HashKeepsLists ==
  ASSUME NEW home, RoutingHolds(home), NEW c \in Choice, SelectConsistentHashServer(c)
  PROVE  RoutingHolds(home)'
<1> DEFINE t == TypeAsked[c]
<1> DEFINE ring == RingFor(t, seen[c])
<1> DEFINE s == ConsistentHash(ring, currentContext)
<1>1. /\ at[c] = "listed" /\ Answer(c, s) /\ UNCHANGED <<roundRobinIdx, turns>>
      /\ hashRing' = [hashRing EXCEPT ![t] = ring]
  BY DEF SelectConsistentHashServer, Asking
<1>2. /\ seen[c] \in Seq(Place) /\ DOMAIN seen[c] # {} /\ HasRead(c) /\ t \in ServerType
  BY <1>1, ListedCall
<1>3. MadeOf(ring, seen[c])
  <2>1. CASE hashRing[t] = Unset  BY <1>2, <2>1, ValuesMade DEF RingFor
  <2>2. CASE hashRing[t] # Unset
    <3>1. PICK d \in Choice : TypeAsked[d] = t /\ HasRead(d) /\ MadeOf(hashRing[t], seen[d])
      BY <1>2, <2>2 DEF RoutingHolds, ListInv, StateFitsList
    <3>2. seen[d] = seen[c]  BY <1>2, <3>1 DEF RoutingHolds, ListInv, OneListEach
    <3>3. QED  BY <2>2, <3>1, <3>2 DEF RingFor
  <2>3. QED  BY <2>1, <2>2
<1> HIDE DEF ring
<1>4. ring \in Seq(Server) /\ ring # <<>>
  <2>1. DOMAIN <<>> = {}  OBVIOUS
  <2>2. QED  BY <1>2, <1>3, <2>1 DEF MadeOf
<1>5. Answers(c, s)
  <2>1. s \in Elements(ring)  BY <1>4, HashListed
  <2> HIDE DEF s
  <2>2. QED  BY <1>3, <2>1, MadeAnswers
<1> HIDE DEF s
<1>6. seen' = seen  BY <1>1 DEF Answer
<1>7. /\ roundRobinIdx' \in [ServerType -> Nat] /\ turns' \in [Place -> Nat]
      /\ hashRing' \in [ServerType -> {Unset} \union Seq(Server)]
      /\ hashRing'[t] = ring
      /\ \A u \in ServerType : u # t => hashRing'[u] = hashRing[u]
  BY <1>1, <1>2, <1>4 DEF RoutingHolds, LBTypeOK
<1>8. StateFitsList'
  <2>1. \A d \in Choice : HasRead(d)' <=> HasRead(d)  BY <1>6 DEF HasRead
  <2>2. \A u \in ServerType : Untouched(u)' <=> Untouched(u)
    BY <2>1 DEF Untouched
  <2>3. ASSUME NEW u \in ServerType, hashRing'[u] # Unset
        PROVE  \E d \in Choice : TypeAsked[d] = u /\ HasRead(d)' /\ MadeOf(hashRing'[u], seen'[d])
    <3>1. CASE u = t  BY <1>2, <1>3, <1>6, <1>7, <2>1, <3>1
    <3>2. CASE u # t
      <4>1. PICK d \in Choice : TypeAsked[d] = u /\ HasRead(d) /\ MadeOf(hashRing[u], seen[d])
        BY <1>7, <2>3, <3>2 DEF RoutingHolds, ListInv, StateFitsList
      <4>2. QED  BY <1>6, <1>7, <2>1, <3>2, <4>1
    <3>3. QED  BY <3>1, <3>2
  <2>4. \A d \in Choice : HasRead(d)' => roundRobinIdx'[TypeAsked[d]] < Len(seen'[d])
    BY <1>1, <1>6, <2>1 DEF RoutingHolds, ListInv, StateFitsList
  <2>5. \A u \in ServerType : Untouched(u)' => roundRobinIdx'[u] = 0
    BY <1>1, <2>2 DEF RoutingHolds, ListInv, StateFitsList
  <2>6. QED  BY <2>3, <2>4, <2>5 DEF StateFitsList, MadeOf
<1>9. QED  BY <1>1, <1>5, <1>7, <1>8, AnswerKeepsLists

(* Every step but the grouping leaves the places their types.              *)
LEMMA RoutingKept ==
  ASSUME NEW home, RoutingHolds(home), [LBNext]_lbVars, ~TypeServersConfig
  PROVE  RoutingHolds(home)'
<1> USE DEF lbState, calls, configVars, routingState
<1>1. CASE ReadServersConfig  BY <1>1, ReadKeepsLists
<1>2. CASE DecodeServer  BY <1>2, DecodeKeepsLists
<1>3. CASE OnConfigChange  BY <1>3, ReloadKeepsLists
<1>4. CASE EditFile
  <2>1. file' \in DOMAIN Files
    BY <1>4, ListShape, ServerAssumption DEF EditFile, RoutingHolds, LBTypeOK
  <2>2. LBTypeOK' /\ UNCHANGED <<routingState, startup>>
    BY <1>4, <2>1 DEF EditFile, RoutingHolds, LBTypeOK
  <2>3. QED  BY <2>2, SettingsKeepLists
<1>5. CASE WatchConfig
  <2>1. /\ parsed' \in DOMAIN Files
        /\ \A k \in DOMAIN Files : Len(Files[k]) \in Nat
    <3>1. \A k \in DOMAIN Files : Files[k] \in Seq(Server)
      BY ListShape, ServerAssumption
    <3>2. QED  BY <1>5, <3>1, ListShape DEF WatchConfig, RoutingHolds, LBTypeOK
  <2>2. decoding' \in 0..(Len(Files[parsed']) + 1)  BY <1>5, <2>1 DEF WatchConfig
  <2>3. LBTypeOK' /\ UNCHANGED <<routingState, startup>>
    BY <1>5, <2>1, <2>2 DEF WatchConfig, RoutingHolds, LBTypeOK
  <2>4. QED  BY <2>3, SettingsKeepLists
<1>6. CASE \E s \in Strategies : SetLoadBalanceStrategy(s)
  <2>1. LBTypeOK' /\ UNCHANGED <<routingState, startup>>
    BY <1>6 DEF SetLoadBalanceStrategy, RoutingHolds, LBTypeOK
  <2>2. QED  BY <2>1, SettingsKeepLists
<1>7. CASE \E p \in Reports : UpdateServerLoad(p[1], p[2])
  <2>1. PICK p \in Reports : UpdateServerLoad(p[1], p[2])  BY <1>7
  <2>2. p[1] \in Server  BY ReportAssumption
  <2>3. LBTypeOK' /\ UNCHANGED <<routingState, startup>>
    BY <2>1, <2>2 DEF UpdateServerLoad, RoutingHolds, LBTypeOK
  <2>4. QED  BY <2>3, SettingsKeepLists
<1>8. CASE \E k \in HashKey : SetRequestContext(k)
  <2>1. LBTypeOK' /\ UNCHANGED <<routingState, startup>>
    BY <1>8 DEF SetRequestContext, RoutingHolds, LBTypeOK
  <2>2. QED  BY <2>1, SettingsKeepLists
<1>9. ASSUME NEW c \in Choice,
             \/ ListServers(c) \/ SelectOnlyServer(c) \/ SelectRandomServer(c)
             \/ SelectRoundRobinServer(c) \/ SelectLeastConnectionServer(c)
             \/ SelectConsistentHashServer(c)
      PROVE  RoutingHolds(home)'
  BY <1>9, ListingKeepsLists, OnlyKeepsLists, RandomKeepsLists, RoundRobinKeepsLists,
     LeastConnectionKeepsLists, HashKeepsLists
<1>10. CASE UNCHANGED lbVars
  <2>1. LBTypeOK' /\ UNCHANGED <<routingState, startup>>
    BY <1>10 DEF lbVars, RoutingHolds, LBTypeOK
  <2>2. QED  BY <2>1, SettingsKeepLists
<1>11. QED
  BY <1>1, <1>2, <1>3, <1>4, <1>5, <1>6, <1>7, <1>8, <1>9, <1>10 DEF LBNext

LEMMA RoutingStep == RoutingInv /\ [LBNext]_lbVars => RoutingInv'
<1> SUFFICES ASSUME RoutingInv, [LBNext]_lbVars PROVE RoutingInv'  OBVIOUS
<1>1. PICK home \in [Place -> ServerType] : RoutingHolds(home)  BY DEF RoutingInv
<1>2. CASE TypeServersConfig
  <2>1. PICK g : g = [p \in Place |-> TypeOf[element[p]]]  OBVIOUS
  <2>2. RoutingHolds(g)' /\ g \in [Place -> ServerType]
    BY <1>1, <1>2, <2>1, GroupKeepsLists
  <2>3. QED  BY <2>2 DEF RoutingInv
<1>3. CASE ~TypeServersConfig
  <2>1. RoutingHolds(home)'  BY <1>1, <1>3, RoutingKept
  <2>2. QED  BY <1>1, <2>1 DEF RoutingInv
<1>4. QED  BY <1>2, <1>3

LEMMA RoutingAlways == LBSpec => []RoutingInv
BY RoutingInit, RoutingStep, PTL DEF LBSpec

(* The list, the structs, the state of the strategies and the calls keep   *)
(* their types.                                                            *)
THEOREM LBTypeCorrect == LBSpec => []LBTypeOK
<1>1. RoutingInv => LBTypeOK  BY DEF RoutingInv, RoutingHolds
<1>2. QED  BY <1>1, RoutingAlways, PTL

(* Whatever the strategy, the loads, the file and the interleaving of the  *)
(* calls with one another and with the entries being decoded, selectDst    *)
(* answers with a server that the file has or had at a place of the list   *)
(* the call has read: the index of round robin is never out of range, and  *)
(* no ring leads anywhere else.  If no change gives an entry another type, *)
(* it is a server of the type asked for.                                   *)
THEOREM DestinationsListed == LBSpec => []DestinationIsListed
<1>1. RoutingInv => DestinationIsListed  BY DEF RoutingInv, RoutingHolds, ListInv
<1>2. QED  BY <1>1, RoutingAlways, PTL

----------------------------------------------------------------------------
(* The turns of round robin.                                               *)

LEMMA BalanceInit ==
  ASSUME LBInit, NEW home
  PROVE  BalanceInv(home)
<1> USE DEF LBInit
<1>1. DOMAIN NoTypes = {}  BY DEF NoTypes
<1>2. DOMAIN <<>> = {}  OBVIOUS
<1>3. ListsOnce  BY <1>1, <1>2 DEF ListsOnce, Once
<1>4. TurnsFollowIndex  BY <1>2 DEF TurnsFollowIndex
<1>5. NoTurnUnread(home)  BY DEF NoTurnUnread
<1>6. QED  BY <1>3, <1>4, <1>5 DEF BalanceInv

(* Steps that take no turn and read no list.                               *)
LEMMA NoTurnTaken ==
  ASSUME NEW home, BalanceInv(home), UNCHANGED <<seen, turns, roundRobinIdx>>, ListsOnce'
  PROVE  BalanceInv(home)'
<1>1. TurnsFollowIndex'  BY DEF BalanceInv, TurnsFollowIndex, Extra
<1>2. NoTurnUnread(home)'  BY DEF BalanceInv, NoTurnUnread, Untouched, HasRead
<1>3. QED  BY <1>1, <1>2 DEF BalanceInv

(* The places of a list are apart, as their positions are.                 *)
LEMMA ListsStayOnce ==
  ASSUME NEW home, RoutingHolds(home), BalanceInv(home), [LBNext]_lbVars, UNCHANGED seen
  PROVE  ListsOnce'
<1> USE DEF lbState, calls, configVars
<1>1. \A c \in Choice : Once(seen'[c])  BY DEF BalanceInv, ListsOnce
<1>2. \A t \in DOMAIN conf.types : Once(conf.types[t])  BY DEF BalanceInv, ListsOnce
<1>3. DOMAIN NoTypes = {}  BY DEF NoTypes
<1>4. CASE ReadServersConfig \/ OnConfigChange
  <2>1. conf'.types = NoTypes  BY <1>4 DEF ReadServersConfig, OnConfigChange
  <2>2. QED  BY <1>1, <1>3, <2>1 DEF ListsOnce
<1>5. CASE TypeServersConfig
  <2> DEFINE L == conf.servers
  <2>1. /\ L \in Seq(Place) /\ InPosition(L) /\ conf.types = NoTypes
        /\ element \in [Place -> Server]
    BY <1>5 DEF TypeServersConfig, RoutingHolds, LBTypeOK, ListInv, GroupedOnce, ContentFits
  <2>2. conf'.types = Grouped(NoTypes, L)
    BY <1>5, <2>1 DEF TypeServersConfig, RoutingHolds, ConfShape
  <2> HIDE DEF L
  <2>3. Once(L)  BY <2>1 DEF Once, InPosition
  <2>4. \A t \in DOMAIN Grouped(NoTypes, L) : Once(Grouped(NoTypes, L)[t])
    BY <2>1, <2>3, GroupedLists
  <2>5. QED  BY <1>1, <2>2, <2>4 DEF ListsOnce
<1>6. CASE UNCHANGED conf  BY <1>1, <1>2, <1>6 DEF ListsOnce
<1>7. QED
  BY <1>4, <1>5, <1>6
  DEF LBNext, EditFile, WatchConfig, DecodeServer, SetLoadBalanceStrategy,
      UpdateServerLoad, SetRequestContext, ListServers, SelectOnlyServer,
      SelectRandomServer, SelectRoundRobinServer, SelectLeastConnectionServer,
      SelectConsistentHashServer, Answer, lbVars

(* Before the servers are grouped nobody has had a turn.                   *)
LEMMA GroupingKeepsTurns ==
  ASSUME NEW old, RoutingHolds(old), BalanceInv(old), TypeServersConfig, NEW home
  PROVE  BalanceInv(home)'
<1> USE DEF TypeServersConfig, lbState, calls
<1>1. ListsOnce'  BY ListsStayOnce DEF LBNext
<1>2. \A c \in Choice : ~HasRead(c)
  BY DEF RoutingHolds, ListInv, GroupedOnce, OneListEach
<1>3. \A p \in Place : turns[p] = 0  BY <1>2 DEF BalanceInv, NoTurnUnread, Untouched
<1>4. NoTurnUnread(home)'  BY <1>3 DEF NoTurnUnread
<1>5. TurnsFollowIndex'  BY DEF BalanceInv, TurnsFollowIndex, Extra
<1>6. QED  BY <1>1, <1>4, <1>5 DEF BalanceInv

(* A call that reads a list finds the turns as its index says, whether it  *)
(* is the first one of its type or not.                                    *)
LEMMA ListingKeepsTurns ==
  ASSUME NEW home, RoutingHolds(home), BalanceInv(home), NEW c \in Choice, ListServers(c)
  PROVE  BalanceInv(home)'
<1> DEFINE t == TypeAsked[c]
<1> DEFINE L == seen'[c]
<1>1. /\ L # <<>> => t \in DOMAIN conf.types /\ L = conf.types[t]
      /\ L \in Seq(PlacesOf(home, t)) /\ ~HasRead(c)
      /\ seen' = [seen EXCEPT ![c] = L]
      /\ \A d \in Choice : HasRead(d) /\ TypeAsked[d] = t
            => d # c /\ (L # <<>> => L = seen[d])
  BY ReadList
<1>2. UNCHANGED <<conf, roundRobinIdx, turns>>  BY DEF ListServers, lbState, configVars
<1> HIDE DEF L
<1>3. \A d \in Choice : d # c => seen'[d] = seen[d]  BY <1>1
<1>4. DOMAIN <<>> = {} /\ Once(<<>>)  BY DEF Once
<1>5. Once(L)  BY <1>1, <1>4 DEF BalanceInv, ListsOnce
<1>6. ListsOnce'
  <2>1. \A d \in Choice : Once(seen'[d])
    BY <1>3, <1>5 DEF BalanceInv, ListsOnce, L
  <2>2. QED  BY <1>2, <2>1 DEF BalanceInv, ListsOnce
<1>7. /\ roundRobinIdx \in [ServerType -> Nat] /\ t \in ServerType
      /\ DOMAIN L = 1..Len(L) /\ Len(L) \in Nat
      /\ \A i \in DOMAIN L : L[i] \in Place /\ home[L[i]] = t
  <2>1. /\ DOMAIN L = 1..Len(L) /\ Len(L) \in Nat
        /\ \A i \in DOMAIN L : L[i] \in PlacesOf(home, t)
    BY <1>1, ListShape
  <2>2. \A i \in DOMAIN L : L[i] \in Place /\ home[L[i]] = t
    BY <2>1 DEF PlacesOf
  <2>3. QED  BY <2>1, <2>2, ServerAssumption DEF RoutingHolds, LBTypeOK
<1>8. ASSUME NEW i \in DOMAIN L, NEW j \in DOMAIN L
      PROVE  turns[L[i]] - turns[L[j]] = Extra(t, i) - Extra(t, j)
  <2>1. L # <<>>  BY <1>4
  <2>2. CASE Untouched(t)
    <3>1. turns[L[i]] = 0 /\ turns[L[j]] = 0
      BY <1>7, <2>2 DEF BalanceInv, NoTurnUnread
    <3>2. roundRobinIdx[t] = 0  BY <1>7, <2>2 DEF RoutingHolds, ListInv, StateFitsList
    <3>3. Extra(t, i) = 0 /\ Extra(t, j) = 0  BY <1>7, <3>2 DEF Extra
    <3>4. QED  BY <3>1, <3>3
  <2>3. CASE ~Untouched(t)
    <3>1. PICK d \in Choice : TypeAsked[d] = t /\ HasRead(d)  BY <2>3 DEF Untouched
    <3>2. L = seen[d]  BY <1>1, <2>1, <3>1
    <3>3. QED  BY <3>1, <3>2 DEF BalanceInv, TurnsFollowIndex
  <2>4. QED  BY <2>2, <2>3
<1>9. TurnsFollowIndex'
  <2> SUFFICES ASSUME NEW d \in Choice, NEW i \in DOMAIN seen'[d], NEW j \in DOMAIN seen'[d]
               PROVE  turns'[seen'[d][i]] - turns'[seen'[d][j]]
                        = Extra(TypeAsked[d], i)' - Extra(TypeAsked[d], j)'
    BY DEF TurnsFollowIndex
  <2>1. /\ Extra(TypeAsked[d], i)' = Extra(TypeAsked[d], i)
        /\ Extra(TypeAsked[d], j)' = Extra(TypeAsked[d], j)
    BY <1>2 DEF Extra
  <2>2. CASE d = c  BY <1>2, <1>8, <2>1, <2>2 DEF L
  <2>3. CASE d # c  BY <1>2, <1>3, <2>1, <2>3 DEF BalanceInv, TurnsFollowIndex
  <2>4. QED  BY <2>2, <2>3
<1>10. NoTurnUnread(home)'
  <2>1. ASSUME NEW u, Untouched(u)' PROVE Untouched(u)
    <3>1. \A d \in Choice : d # c => (HasRead(d)' <=> HasRead(d))
      BY <1>3 DEF HasRead
    <3>2. QED  BY <1>1, <2>1, <3>1 DEF Untouched
  <2>2. QED  BY <1>2, <2>1 DEF BalanceInv, NoTurnUnread
<1>11. QED  BY <1>6, <1>9, <1>10 DEF BalanceInv

(* The turn goes to the server after the index, and after the last one all *)
(* have had as many.                                                       *)
LEMMA TurnKeepsBalance ==
  ASSUME NEW home, RoutingHolds(home), BalanceInv(home), NEW c \in Choice, SelectRoundRobinServer(c),
         ListsOnce'
  PROVE  BalanceInv(home)'
<1> DEFINE t == TypeAsked[c]
<1> DEFINE L == seen[c]
<1> DEFINE k == roundRobinIdx[t] + 1
<1>1. /\ at[c] = "listed" /\ k \in DOMAIN L /\ k \in Nat /\ L[k] \in Place
      /\ Answer(c, element[L[k]])
      /\ turns' = [turns EXCEPT ![L[k]] = @ + 1]
      /\ roundRobinIdx' = [roundRobinIdx EXCEPT ![t] = IF k = Len(L) THEN 0 ELSE k]
  BY RoundRobinStep
<1>2. /\ Len(L) \in Nat /\ DOMAIN L = 1..Len(L) /\ HasRead(c) /\ t \in ServerType
  BY <1>1, ListedCall
<1>3. roundRobinIdx \in [ServerType -> Nat] /\ turns \in [Place -> Nat] /\ seen' = seen
  BY <1>1 DEF RoutingHolds, LBTypeOK, Answer
<1>4. \A d \in Choice : \A i \in DOMAIN seen[d] :
         seen[d][i] \in Place /\ home[seen[d][i]] = TypeAsked[d]
  <2>1. \A d \in Choice : seen[d] \in Seq(PlacesOf(home, TypeAsked[d]))
    BY DEF RoutingHolds, ListInv, OneListEach
  <2>2. \A d \in Choice : \A i \in DOMAIN seen[d] :
           seen[d][i] \in PlacesOf(home, TypeAsked[d])
    BY <2>1, ListShape
  <2>3. QED  BY <2>2 DEF PlacesOf
<1>5. home[L[k]] = t  BY <1>1, <1>4
<1>6. ASSUME NEW i \in DOMAIN L
      PROVE  /\ turns'[L[i]] = turns[L[i]] + (IF i = k THEN 1 ELSE 0)
             /\ turns[L[i]] \in Int
             /\ Extra(t, i)' = Extra(t, i) + (IF i = k THEN 1 ELSE 0)
                                 - (IF k = Len(L) THEN 1 ELSE 0)
  <2>1. L[i] \in Place /\ (L[i] = L[k] <=> i = k)
    BY <1>1, <1>4 DEF BalanceInv, ListsOnce, Once
  <2>2. turns'[L[i]] = turns[L[i]] + (IF i = k THEN 1 ELSE 0) /\ turns[L[i]] \in Int
    BY <1>1, <1>3, <2>1
  <2>3. /\ roundRobinIdx'[t] = IF k = Len(L) THEN 0 ELSE k
        /\ roundRobinIdx[t] = k - 1 /\ i \in 1..Len(L) /\ k \in 1..Len(L)
    BY <1>1, <1>2, <1>3
  <2> HIDE DEF k
  <2>4. Extra(t, i)' = Extra(t, i) + (IF i = k THEN 1 ELSE 0)
                                 - (IF k = Len(L) THEN 1 ELSE 0)
    BY <1>2, <2>3 DEF Extra
  <2>5. QED  BY <2>2, <2>4
<1>7. TurnsFollowIndex'
  <2> SUFFICES ASSUME NEW d \in Choice, NEW i \in DOMAIN seen[d], NEW j \in DOMAIN seen[d]
               PROVE  turns'[seen[d][i]] - turns'[seen[d][j]]
                        = Extra(TypeAsked[d], i)' - Extra(TypeAsked[d], j)'
    BY <1>3 DEF TurnsFollowIndex
  <2>1. turns[seen[d][i]] - turns[seen[d][j]] = Extra(TypeAsked[d], i) - Extra(TypeAsked[d], j)
    BY DEF BalanceInv, TurnsFollowIndex
  <2>2. CASE TypeAsked[d] = t
    <3>1. HasRead(d)
      <4>1. DOMAIN <<>> = {}  OBVIOUS
      <4>2. QED  BY <4>1 DEF HasRead
    <3>2. seen[d] = L  BY <1>2, <2>2, <3>1 DEF RoutingHolds, ListInv, OneListEach
    <3>3. i \in DOMAIN L /\ j \in DOMAIN L  BY <3>2
    <3>4. Extra(t, i) \in Int /\ Extra(t, j) \in Int  BY DEF Extra
    <3> DEFINE ti == turns[L[i]]
    <3> DEFINE tj == turns[L[j]]
    <3> DEFINE ei == Extra(t, i)
    <3> DEFINE ej == Extra(t, j)
    <3> DEFINE full == IF k = Len(L) THEN 1 ELSE 0
    <3> DEFINE oi == IF i = k THEN 1 ELSE 0
    <3> DEFINE oj == IF j = k THEN 1 ELSE 0
    <3> DEFINE ni == turns'[L[i]]
    <3> DEFINE nj == turns'[L[j]]
    <3> DEFINE mi == Extra(t, i)'
    <3> DEFINE mj == Extra(t, j)'
    <3>5. /\ ni = ti + oi /\ nj = tj + oj
          /\ mi = ei + oi - full /\ mj = ej + oj - full
          /\ ti \in Int /\ tj \in Int /\ ei \in Int /\ ej \in Int
          /\ oi \in Int /\ oj \in Int /\ full \in Int
          /\ ti - tj = ei - ej
      BY <1>6, <2>1, <2>2, <3>2, <3>3, <3>4
    <3> HIDE DEF ti, tj, ei, ej, full, oi, oj, ni, nj, mi, mj
    <3>6. ni - nj = mi - mj  BY ONLY <3>5
    <3>7. QED  BY <2>2, <3>2, <3>6 DEF ni, nj, mi, mj
  <2>3. CASE TypeAsked[d] # t
    <3>1. turns'[seen[d][i]] = turns[seen[d][i]] /\ turns'[seen[d][j]] = turns[seen[d][j]]
      BY <1>1, <1>3, <1>4, <1>5, <2>3
    <3>2. roundRobinIdx'[TypeAsked[d]] = roundRobinIdx[TypeAsked[d]]
      BY <1>1, <1>3, <2>3, ServerAssumption
    <3>3. QED  BY <2>1, <3>1, <3>2 DEF Extra
  <2>4. QED  BY <2>2, <2>3
<1>8. NoTurnUnread(home)'
  <2> SUFFICES ASSUME NEW p \in Place, Untouched(home[p])' PROVE turns'[p] = 0
    BY DEF NoTurnUnread
  <2>1. Untouched(home[p])  BY <1>3 DEF Untouched, HasRead
  <2>2. home[p] # t  BY <1>2, <2>1 DEF Untouched
  <2>3. p # L[k]  BY <1>5, <2>2
  <2>4. QED  BY <1>1, <1>3, <2>1, <2>3 DEF BalanceInv, NoTurnUnread
<1>9. QED  BY <1>7, <1>8 DEF BalanceInv

LEMMA BalanceKept ==
  ASSUME NEW home, RoutingHolds(home), BalanceInv(home), [LBNext]_lbVars, ~TypeServersConfig
  PROVE  BalanceInv(home)'
<1> USE DEF lbState, calls, configVars
<1>1. CASE UNCHANGED lbVars
  <2>1. UNCHANGED <<seen, turns, roundRobinIdx>>  BY <1>1 DEF lbVars
  <2>2. QED  BY <2>1, ListsStayOnce, NoTurnTaken
<1>2. ASSUME NEW c \in Choice, ListServers(c) PROVE BalanceInv(home)'
  BY <1>2, ListingKeepsTurns
<1>3. ASSUME NEW c \in Choice, SelectRoundRobinServer(c) PROVE BalanceInv(home)'
  <2>1. seen' = seen  BY <1>3, RoundRobinStep DEF Answer
  <2>2. QED  BY <1>3, <2>1, ListsStayOnce, TurnKeepsBalance
<1>4. CASE UNCHANGED <<seen, turns, roundRobinIdx>>
  BY <1>4, ListsStayOnce, NoTurnTaken
<1>5. QED
  BY <1>1, <1>2, <1>3, <1>4
  DEF LBNext, ReadServersConfig, OnConfigChange, EditFile, WatchConfig, DecodeServer,
      SetLoadBalanceStrategy, UpdateServerLoad, SetRequestContext, SelectOnlyServer,
      SelectRandomServer, SelectLeastConnectionServer, SelectConsistentHashServer, Answer

LEMMA BalanceStep == BalancedInv /\ [LBNext]_lbVars => BalancedInv'
<1> SUFFICES ASSUME BalancedInv, [LBNext]_lbVars PROVE BalancedInv'  OBVIOUS
<1>1. PICK home \in [Place -> ServerType] : RoutingHolds(home) /\ BalanceInv(home)
  BY DEF BalancedInv
<1>2. CASE TypeServersConfig
  <2>1. PICK g : g = [p \in Place |-> TypeOf[element[p]]]  OBVIOUS
  <2>2. RoutingHolds(g)' /\ g \in [Place -> ServerType]
    BY <1>1, <1>2, <2>1, GroupKeepsLists
  <2>3. BalanceInv(g)'  BY <1>1, <1>2, GroupingKeepsTurns
  <2>4. QED  BY <2>2, <2>3 DEF BalancedInv
<1>3. CASE ~TypeServersConfig
  <2>1. RoutingHolds(home)' /\ BalanceInv(home)'  BY <1>1, <1>3, RoutingKept, BalanceKept
  <2>2. QED  BY <1>1, <2>1 DEF BalancedInv
<1>4. QED  BY <1>2, <1>3

(* Round robin leaves the places of every list at most one turn apart, the *)
(* earlier ones ahead, however other strategies, other types, and changes  *)
(* of the file that rewrite the list in place come between.                *)
THEOREM TurnsBalanced == LBSpec => []RoundRobinBalanced
<1>1. BalancedInv => RoundRobinBalanced
  <2> SUFFICES ASSUME BalancedInv, NEW c \in Choice,
                      NEW i \in DOMAIN seen[c], NEW j \in DOMAIN seen[c], i < j
               PROVE  turns[seen[c][i]] - turns[seen[c][j]] \in {0, 1}
    BY DEF RoundRobinBalanced
  <2>1. PICK home : RoutingHolds(home) /\ BalanceInv(home)  BY DEF BalancedInv
  <2>2. seen[c] \in Seq(Place)  BY <2>1 DEF RoutingHolds, LBTypeOK
  <2>3. i \in Nat /\ j \in Nat  BY <2>2, ListShape
  <2>4. roundRobinIdx[TypeAsked[c]] \in Nat
    BY <2>1, ServerAssumption DEF RoutingHolds, LBTypeOK
  <2>5. Extra(TypeAsked[c], i) - Extra(TypeAsked[c], j) \in {0, 1}
    BY <2>3, <2>4 DEF Extra
  <2>6. QED  BY <2>1, <2>5 DEF BalanceInv, TurnsFollowIndex
<1>2. LBInit => BalancedInv
  BY RoutingInit, BalanceInit DEF BalancedInv, RoutingInv
<1>3. QED  BY <1>1, <1>2, BalanceStep, PTL DEF LBSpec


----------------------------------------------------------------------------
(* The dictionary of routes.                                               *)

Begun(c) == handshake[c] # "new"
NoneDone == \A c \in Client : handshake[c] # "done"

(* A handshake has looked at the entries it no longer has, and writes one  *)
(* of them at a time.                                                      *)
EntriesPending ==
    /\ entries \in [Client -> SUBSET (Route \X Code)]
    /\ entry \in [Client -> {NoEntry} \union ({"routes", "codes"} \X (Route \X Code))]
    /\ \A c \in Client : entry[c] # NoEntry =>
          /\ handshake[c] = "setting"
          /\ entry[c][2] \in Dict[c] \ entries[c]

(* Both maps hold entries that clients brought, whoever wrote over whom.   *)
FromEntries ==
    /\ \A r \in DOMAIN routes : <<r, routes[r]>> \in Entries
    /\ \A k \in DOMAIN codes : <<codes[k], k>> \in Entries

OneAtATime ==
    ~overlap => \A c, d \in Client :
        handshake[c] = "setting" /\ handshake[d] = "setting" => c = d

(* What the first handshake has written is what it has looked at and no    *)
(* more, so that it finds no entry taken and leaves none out.              *)
Filling(c) ==
    /\ \A r \in DOMAIN routes : <<r, routes[r]>> \in Dict[c] \ entries[c]
    /\ \A k \in DOMAIN codes : <<codes[k], k>> \in Dict[c] \ entries[c]
    /\ \A e \in Dict[c] \ entries[c] :
          e[2] \in DOMAIN codes \/ (entry[c] # NoEntry /\ entry[c][2] = e)
FullDictionary ==
    ~overlap /\ OneDictionary /\ Compatible =>
        \A c \in Client :
            /\ handshake[c] = "done" => \A e \in Dict[c] : e[2] \in DOMAIN codes
            /\ handshake[c] = "setting" /\ NoneDone => Filling(c)

DictionaryInv ==
    /\ CodecTypeOK
    /\ EntriesPending
    /\ FromEntries
    /\ OneAtATime
    /\ FullDictionary

----------------------------------------------------------------------------
(* What the bytes of an id, of a length and of a message say.              *)

LEMMA LengthSaid ==
  ASSUME NEW n \in Nat
  PROVE  Encode(n) \in {n, TooBig} \/ n = MaxPacketSize
<1>1. CASE n > MaxPacketSize  BY <1>1 DEF Encode
<1>2. CASE n < MaxPacketSize
  <2>1. n \div 65536 \in 0..255  BY <1>2 DEF MaxPacketSize
  <2>2. (n \div 65536) % 256 = n \div 65536  BY <2>1
  <2>3. n \div 256 = 256 * (n \div 65536) + ((n \div 256) % 256)  OBVIOUS
  <2>4. n = 256 * (n \div 256) + (n % 256)  OBVIOUS
  <2>5. BytesToInt(IntToBytes(n))
          = (n \div 65536) * 65536 + ((n \div 256) % 256) * 256 + (n % 256)
    BY <2>2 DEF BytesToInt, IntToBytes
  <2>6. BytesToInt(IntToBytes(n)) = n  BY <2>3, <2>4, <2>5
  <2>7. QED  BY <1>2, <2>6 DEF Encode, MaxPacketSize
<1>3. QED  BY <1>1, <1>2 DEF MaxPacketSize

(* What MessageDecode makes of a list of bytes, from a byte on.            *)
Reads(b, from) ==
    /\ DOMAIN from = DOMAIN b
    /\ \A i \in DOMAIN b :
          from[i] = (b[i] % 128)
                    + (IF b[i] < 128 \/ i = Len(b) THEN 0 ELSE 128 * from[i + 1])

(* The bytes of an id are read as the id.                                  *)
Says(b, n) ==
    /\ b \in Seq(0..255) /\ Len(b) > 0
    /\ \E from : Reads(b, from)
    /\ \A from : Reads(b, from) => from[1] = n

LEMMA LastByte ==
  ASSUME NEW n \in 0..127
  PROVE  Says(<<n>>, n)
<1> DEFINE b == <<n>>
<1>1. /\ b \in Seq(0..255) /\ Len(b) = 1 /\ DOMAIN b = {1} /\ b[1] = n
      /\ n % 128 = n
  OBVIOUS
<1> HIDE DEF b
<1>2. Reads(b, [i \in DOMAIN b |-> n])  BY <1>1 DEF Reads
<1>3. \A from : Reads(b, from) => from[1] = n  BY <1>1 DEF Reads
<1>4. QED  BY <1>1, <1>2, <1>3 DEF Says, b

LEMMA NextByte ==
  ASSUME NEW n \in Nat, NEW s, Says(s, n \div 128)
  PROVE  Says(<<128 + (n % 128)>> \o s, n)
<1> DEFINE a == 128 + (n % 128)
<1> DEFINE b == <<a>> \o s
<1>1. /\ a \in 128..255 /\ a % 128 = n % 128 /\ n = (n % 128) + 128 * (n \div 128)
      /\ n \div 128 \in Nat
  OBVIOUS
<1>2. s \in Seq(0..255) /\ Len(s) \in Nat /\ Len(s) > 0 /\ DOMAIN s = 1..Len(s)
  BY ListShape DEF Says
<1>3. /\ b \in Seq(0..255) /\ Len(b) = Len(s) + 1 /\ DOMAIN b = 1..(Len(s) + 1)
      /\ b[1] = a /\ \A i \in 1..Len(s) : b[i + 1] = s[i]
  <2>1. <<a>> \in Seq(0..255) /\ Len(<<a>>) = 1 /\ <<a>>[1] = a  BY <1>1
  <2> HIDE DEF a
  <2>2. /\ b \in Seq(0..255) /\ Len(b) = Len(<<a>>) + Len(s)
        /\ \A i \in 1..(Len(<<a>>) + Len(s)) :
              b[i] = IF i <= Len(<<a>>) THEN <<a>>[i] ELSE s[i - Len(<<a>>)]
    BY <1>2, <2>1, ConcatProperties
  <2>3. DOMAIN b = 1..(Len(s) + 1)  BY <1>2, <2>1, <2>2, ListShape
  <2> HIDE DEF b
  <2>4. \A i \in 1..Len(s) : i + 1 \in 1..(1 + Len(s)) /\ ~(i + 1 <= 1) /\ (i + 1) - 1 = i
    BY <1>2
  <2>5. b[1] = a  BY <1>2, <2>1, <2>2
  <2>6. \A i \in 1..Len(s) : b[i + 1] = s[i]  BY <1>2, <2>1, <2>2, <2>4
  <2>7. QED  BY <1>2, <2>1, <2>2, <2>3, <2>5, <2>6
<1> HIDE DEF a, b
<1>4. \E from : Reads(b, from)
  <2>1. PICK w : Reads(s, w)  BY DEF Says
  <2> DEFINE v == [i \in 1..(Len(s) + 1) |->
                     IF i = 1 THEN (a % 128) + 128 * w[1] ELSE w[i - 1]]
  <2>2. DOMAIN v = DOMAIN b /\ v[1] = (a % 128) + 128 * w[1]
        /\ \A i \in 1..Len(s) : v[i + 1] = w[i]
    BY <1>2, <1>3
  <2> HIDE DEF v
  <2> DEFINE Right(i) ==
        v[i] = (b[i] % 128) + (IF b[i] < 128 \/ i = Len(b) THEN 0 ELSE 128 * v[i + 1])
  <2>3. Right(1)
    <3>1. ~(b[1] < 128) /\ 1 # Len(b)  BY <1>1, <1>2, <1>3
    <3>2. v[1 + 1] = w[1]  BY <1>2, <2>2
    <3>3. QED  BY <1>3, <2>2, <3>1, <3>2
  <2>4. ASSUME NEW k \in 1..Len(s) PROVE Right(k + 1)
    <3>1. w[k] = (s[k] % 128)
                 + (IF s[k] < 128 \/ k = Len(s) THEN 0 ELSE 128 * w[k + 1])
      BY <1>2, <2>1 DEF Reads
    <3> DEFINE e == k + 1
    <3>2. b[e] = s[k]  BY <1>3
    <3>3. v[e] = w[k]  BY <2>2
    <3>4. /\ (e = Len(b)) <=> (k = Len(s))
          /\ k # Len(s) => e \in 1..Len(s)
      <4> DEFINE m == Len(s)
      <4>1. m \in Nat /\ Len(b) = m + 1 /\ k \in 1..m  BY <1>2, <1>3
      <4> HIDE DEF m
      <4>2. (e = m + 1 <=> k = m) /\ (k # m => e \in 1..m)  BY <4>1
      <4>3. QED  BY <4>1, <4>2 DEF m
    <3>5. k # Len(s) => v[e + 1] = w[k + 1]
      <4>1. k # Len(s) => e \in 1..Len(s)  BY <3>4
      <4>2. \A d \in 1..Len(s) : v[d + 1] = w[d]  BY <2>2
      <4>3. QED  BY <4>1, <4>2
    <3> HIDE DEF e
    <3>6. Right(e)  BY <3>1, <3>2, <3>3, <3>4, <3>5
    <3>7. QED  BY <3>6 DEF e
  <2> HIDE DEF Right
  <2>5. ASSUME NEW i \in DOMAIN b PROVE Right(i)
    <3>1. i = 1 \/ i - 1 \in 1..Len(s)  BY <1>2, <1>3
    <3>2. (i - 1) + 1 = i  BY <1>3, <1>2
    <3>3. QED  BY <2>3, <2>4, <3>1, <3>2
  <2>6. Reads(b, v)  BY <2>2, <2>5 DEF Reads, Right
  <2>7. QED  BY <2>6
<1>5. ASSUME NEW v, Reads(b, v) PROVE v[1] = n
  <2> DEFINE w == [i \in 1..Len(s) |-> v[i + 1]]
  <2>1. DOMAIN w = DOMAIN s /\ \A i \in 1..Len(s) : w[i] = v[i + 1]  BY <1>2
  <2> HIDE DEF w
  <2>2. ASSUME NEW i \in DOMAIN s
        PROVE  w[i] = (s[i] % 128)
                      + (IF s[i] < 128 \/ i = Len(s) THEN 0 ELSE 128 * w[i + 1])
    <3>1. i + 1 \in DOMAIN b /\ b[i + 1] = s[i] /\ w[i] = v[i + 1]
          /\ (i + 1 = Len(b) <=> i = Len(s)) /\ i \in 1..Len(s)
      BY <1>2, <1>3, <2>1
    <3>2. v[i + 1] = (b[i + 1] % 128)
             + (IF b[i + 1] < 128 \/ i + 1 = Len(b) THEN 0 ELSE 128 * v[(i + 1) + 1])
      BY <1>5, <3>1 DEF Reads
    <3>3. i # Len(s) => w[i + 1] = v[(i + 1) + 1]
      <4>1. i # Len(s) => i + 1 \in 1..Len(s)  BY <1>2, <3>1
      <4>2. QED  BY <2>1, <4>1
    <3>4. QED  BY <3>1, <3>2, <3>3
  <2>3. Reads(s, w)  BY <2>1, <2>2 DEF Reads
  <2>4. w[1] = n \div 128 /\ w[1] = v[2]  BY <1>2, <2>1, <2>3 DEF Says
  <2>5. v[1] = (b[1] % 128) + (IF b[1] < 128 \/ 1 = Len(b) THEN 0 ELSE 128 * v[1 + 1])
    BY <1>3, <1>2, <1>5 DEF Reads
  <2>6. v[1] = (n % 128) + 128 * (n \div 128)
    <3>1. ~(b[1] < 128) /\ 1 # Len(b)  BY <1>1, <1>2, <1>3
    <3>2. QED  BY <1>1, <1>3, <2>4, <2>5, <3>1 DEF a
  <2>7. QED  BY <1>1, <2>6
<1>6. Says(b, n)  BY <1>2, <1>3, <1>4, <1>5 DEF Says
<1>7. QED  BY <1>6 DEF a, b

(* encodeMsgId and the loop of MessageDecode are inverse, for every id.    *)
LEMMA IdsKept ==
  ASSUME NEW id \in Nat
  PROVE  DecodeId(EncodeId(id)) = id
<1> DEFINE Bytes == Seq(0..255)
<1> DEFINE Next1(n, s) == IF n < 128 THEN <<n>> ELSE <<128 + (n % 128)>> \o s
<1> DEFINE Runs(f) == f = [n \in 0..id |-> Next1(n, f[n \div 128])]
<1> DEFINE half == [n \in 1..id |-> n \div 128]
<1>1. half \in [1..id -> Nat] /\ \A n \in 1..id : half[n] < n /\ half[n] = n \div 128
  OBVIOUS
<1> HIDE DEF half
<1>2. ASSUME NEW n \in Nat, NEW s \in Bytes PROVE Next1(n, s) \in Bytes
  <2>1. CASE n < 128  BY <2>1
  <2>2. CASE ~(n < 128)
    <3>1. <<128 + (n % 128)>> \in Bytes  OBVIOUS
    <3>2. QED  BY <2>2, <3>1, ConcatProperties
  <2>3. QED  BY <2>1, <2>2
<1> HIDE DEF Next1
<1>3. \E f : Runs(f)
  <2> DEFINE G == [x \in (1..id) \X Bytes |-> Next1(x[1], x[2])]
  <2> DEFINE zero == <<0>>
  <2>1. zero \in Bytes /\ G \in [(1..id) \X Bytes -> Bytes]  BY <1>2
  <2> HIDE DEF Bytes, G, zero
  <2>2. PICK f : Calls(f, Bytes, id, zero, half, G)
    BY ONLY id \in Nat, <1>1, <2>1, RecursionBelow
  <2>3. ASSUME NEW n \in 0..id PROVE f[n] = Next1(n, f[n \div 128])
    <3>1. CASE n = 0  BY <2>2, <3>1 DEF Calls, Next1, zero
    <3>2. CASE n # 0
      <4> DEFINE s == f[n \div 128]
      <4>1. n \in 1..id /\ n \div 128 \in 0..id  BY <3>2
      <4>2. s \in Bytes /\ f[n] = G[<<n, s>>]  BY <1>1, <2>2, <4>1 DEF Calls
      <4> HIDE DEF s
      <4>3. G[<<n, s>>] = Next1(n, s)  BY <4>1, <4>2 DEF G
      <4>4. QED  BY <4>2, <4>3 DEF s
    <3>3. QED  BY <3>1, <3>2
  <2>4. f \in [0..id -> Bytes]  BY <2>2 DEF Calls
  <2>5. Runs(f)  BY <2>3, <2>4
  <2>6. QED  BY <2>5
<1>4. PICK f : Runs(f) /\ EncodeId(id) = f[id]  BY <1>3 DEF EncodeId, Next1
<1> DEFINE Z == {n \in 0..id : \A k \in 0..n : Says(f[k], k)}
<1>5. ASSUME NEW n \in 0..id, \A k \in 0..(n - 1) : Says(f[k], k)
      PROVE  Says(f[n], n)
  <2>1. f[n] = Next1(n, f[n \div 128])  BY <1>4
  <2>2. CASE n < 128
    <3>1. n \in 0..127 /\ f[n] = <<n>>  BY <2>1, <2>2 DEF Next1
    <3>2. QED  BY <3>1, LastByte
  <2>3. CASE ~(n < 128)
    <3>1. n \div 128 \in 0..(n - 1)  BY <2>3
    <3>2. Says(f[n \div 128], n \div 128)  BY <1>5, <3>1
    <3>3. QED  BY <2>1, <2>3, <3>2, NextByte DEF Next1
  <2>4. QED  BY <2>2, <2>3
<1>6. 0 \in Z
  <2>1. Says(f[0], 0)  BY <1>5
  <2>2. QED  BY <2>1
<1>7. ASSUME NEW n \in 1..id, n - 1 \in Z PROVE n \in Z
  <2>1. Says(f[n], n)  BY <1>5, <1>7
  <2>2. \A k \in 0..n : k = n \/ k \in 0..(n - 1)  OBVIOUS
  <2>3. QED  BY <1>7, <2>1, <2>2
<1> HIDE DEF Z
<1>8. id \in Z
  <2>1. \A n \in 0..id : n \in Z  BY ONLY id \in Nat, <1>6, <1>7, InductionTo
  <2>2. QED  BY <2>1
<1>9. Says(EncodeId(id), id)  BY <1>4, <1>8 DEF Z
<1> HIDE DEF Runs
<1>10. ASSUME NEW b, Says(b, id) PROVE DecodeId(b) = id
  <2> DEFINE Runs2(from) == from = [i \in DOMAIN b |-> (b[i] % 128)
                + (IF b[i] < 128 \/ i = Len(b) THEN 0 ELSE 128 * from[i + 1])]
  <2>1. PICK from : Reads(b, from)  BY <1>10 DEF Says
  <2>2. \E g : Runs2(g)
    <3> DEFINE g == [i \in DOMAIN b |-> from[i]]
    <3>1. DOMAIN g = DOMAIN b /\ \A i \in DOMAIN b : g[i] = from[i]  OBVIOUS
    <3>2. \A i \in DOMAIN b : i # Len(b) => i + 1 \in DOMAIN b
      BY <1>10, ListShape DEF Says
    <3>3. g = [i \in DOMAIN b |-> g[i]]  OBVIOUS
    <3> HIDE DEF g
    <3>4. ASSUME NEW i \in DOMAIN b
          PROVE  g[i] = (b[i] % 128)
                        + (IF b[i] < 128 \/ i = Len(b) THEN 0 ELSE 128 * g[i + 1])
      <4>1. from[i] = (b[i] % 128)
                      + (IF b[i] < 128 \/ i = Len(b) THEN 0 ELSE 128 * from[i + 1])
        BY <2>1 DEF Reads
      <4>2. g[i] = from[i] /\ (i # Len(b) => g[i + 1] = from[i + 1])  BY <3>1, <3>2
      <4>3. QED  BY <4>1, <4>2
    <3>5. Runs2(g)  BY <3>3, <3>4
    <3>6. QED  BY <3>5
  <2>3. PICK g : Runs2(g) /\ DecodeId(b) = g[1]  BY <2>2 DEF DecodeId
  <2>4. Reads(b, g)  BY <2>3 DEF Reads
  <2>5. QED  BY <1>10, <2>3, <2>4 DEF Says
<1>11. QED  BY <1>9, <1>10

(* A message keeps its meaning, or is refused for a code that the receiver *)
(* does not know, if both sides read the code of its route alike.          *)
LEMMA Transmitted ==
  ASSUME NEW m \in Message, NEW dict, NEW names,
         RouteLen[m.route] < 256,
         m.route \in DOMAIN dict /\ dict[m.route] \in DOMAIN names
           => names[dict[m.route]] = m.route
  PROVE  LET meant == MessageDecode(MessageEncode(m, dict), names)
         IN /\ meant \in {Meaning(m), Unknown}
            /\ meant = Unknown => /\ HasRoute(m.type) /\ m.route \in DOMAIN dict
                                /\ dict[m.route] \notin DOMAIN names
<1> DEFINE w == MessageEncode(m, dict)
<1> DEFINE id == IF HasId(m.type) THEN m.id ELSE 0
<1>1. /\ m.type \in {"request", "notify", "response", "push"}
      /\ m.id \in Nat /\ m.route \in Route
  BY MessageTypeAssumption
<1>2. Meaning(m) # Unknown
  <2>1. Meaning(m).type = m.type  BY DEF Meaning
  <2>2. Unknown.type = "unknown"  BY DEF Unknown
  <2>3. QED  BY <1>1, <2>1, <2>2
<1>3. /\ w.type = m.type /\ (w.compressed <=> m.route \in DOMAIN dict)
      /\ HasId(m.type) => w.id = EncodeId(m.id)
      /\ HasRoute(m.type) => w.route = EncodeRoute(m.route, dict)
  BY DEF MessageEncode, Bound
<1>4. (IF HasId(w.type) THEN DecodeId(w.id) ELSE 0) = id  BY <1>1, <1>3, IdsKept
<1>5. Meaning(m) = IF HasRoute(m.type) THEN [type |-> m.type, id |-> id, route |-> m.route]
                   ELSE [type |-> m.type, id |-> id]
  BY DEF Meaning
<1>6. MessageDecode(w, names) =
        IF ~HasRoute(m.type) THEN [type |-> m.type, id |-> id]
        ELSE IF w.compressed /\ ~Bound(names, w.route.code) THEN Unknown
        ELSE IF w.compressed
             THEN [type |-> m.type, id |-> id, route |-> names[w.route.code]]
        ELSE IF w.route.len # RouteLen[w.route.text] THEN Garbled
        ELSE [type |-> m.type, id |-> id, route |-> w.route.text]
  <2> HIDE DEF w, id
  <2>1. QED  BY <1>3, <1>4 DEF MessageDecode
<1> HIDE DEF w, id
<1>7. CASE ~HasRoute(m.type)  BY <1>2, <1>5, <1>6, <1>7 DEF w
<1>8. CASE HasRoute(m.type) /\ m.route \in DOMAIN dict
  <2>1. w.route.code = dict[m.route] /\ w.compressed
    BY <1>3, <1>8 DEF EncodeRoute, Bound
  <2>2. CASE dict[m.route] \in DOMAIN names
    <3>1. MessageDecode(w, names) = [type |-> m.type, id |-> id, route |-> m.route]
      BY <1>6, <1>8, <2>1, <2>2 DEF Bound
    <3>2. QED  BY <1>2, <1>5, <1>8, <3>1 DEF w
  <2>3. CASE dict[m.route] \notin DOMAIN names
    <3>1. MessageDecode(w, names) = Unknown
      BY <1>6, <1>8, <2>1, <2>3 DEF Bound
    <3>2. QED  BY <1>8, <2>3, <3>1 DEF w
  <2>4. QED  BY <2>2, <2>3
<1>9. CASE HasRoute(m.type) /\ m.route \notin DOMAIN dict
  <2>1. w.route.text = m.route /\ w.route.len = RouteLen[m.route] % 256 /\ ~w.compressed
    BY <1>3, <1>9 DEF EncodeRoute, Bound
  <2>2. RouteLen[m.route] \in Nat  BY <1>1, DictAssumption
  <2>3. RouteLen[m.route] % 256 = RouteLen[m.route]  BY <2>2
  <2>4. MessageDecode(w, names) = [type |-> m.type, id |-> id, route |-> m.route]
    BY <1>6, <1>9, <2>1, <2>3
  <2>5. QED  BY <1>2, <1>5, <1>9, <2>4 DEF w
<1>10. QED  BY <1>7, <1>8, <1>9

----------------------------------------------------------------------------
(* The dictionary under handshakes that overlap.                           *)

(* What later handshakes bring, the dictionaries so far contradict less.   *)
LEMMA Earlier ==
  ASSUME \A c \in Client : Begun(c) => Begun(c)'
  PROVE  Entries \subseteq Entries' /\ (Compatible' => Compatible)
         /\ (OneDictionary' => OneDictionary)
<1>1. Entries \subseteq Entries'  BY DEF Entries, Begun
<1>2. Compatible' => Compatible  BY <1>1 DEF Compatible
<1>3. ASSUME OneDictionary', NEW c \in Client, Begun(c) PROVE Dict[c] = Entries
  <2>1. Dict[c] = Entries'  BY <1>3 DEF OneDictionary, Begun
  <2>2. Dict[c] \subseteq Entries  BY <1>3 DEF Entries, Begun
  <2>3. QED  BY <1>1, <2>1, <2>2
<1>4. QED  BY <1>1, <1>2, <1>3 DEF OneDictionary, Begun

LEMMA SameEntries ==
  ASSUME \A c \in Client : Begun(c) <=> Begun(c)'
  PROVE  Entries' = Entries
BY DEF Entries, Begun

LEMMA DictOf ==
  ASSUME NEW c \in Client
  PROVE  /\ Dict[c] \subseteq Route \X Code
         /\ \A e \in Dict[c] : e[1] \in Route /\ e[2] \in Code /\ e = <<e[1], e[2]>>
         /\ Begun(c) => Dict[c] \subseteq Entries
<1>1. Dict[c] \subseteq Route \X Code  BY DictAssumption
<1>2. Begun(c) => Dict[c] \subseteq Entries  BY DEF Begun, Entries
<1>3. QED  BY <1>1, <1>2

LEMMA CodecInitial == CodecInit => DictionaryInv /\ MessagesKeepMeaning
<1> SUFFICES ASSUME CodecInit PROVE DictionaryInv /\ MessagesKeepMeaning  OBVIOUS
<1> USE DEF CodecInit
<1>1. DOMAIN routes = {} /\ DOMAIN codes = {}  OBVIOUS
<1>2. CodecTypeOK  BY <1>1 DEF CodecTypeOK
<1>3. EntriesPending  BY DEF EntriesPending
<1>4. FromEntries  BY <1>1 DEF FromEntries
<1>5. OneAtATime  BY DEF OneAtATime
<1>6. FullDictionary  BY DEF FullDictionary
<1>7. MessagesKeepMeaning  BY DEF MessagesKeepMeaning
<1>8. QED  BY <1>2, <1>3, <1>4, <1>5, <1>6, <1>7 DEF DictionaryInv

LEMMA BeginKeepsDictionary ==
  ASSUME DictionaryInv, NEW c \in Client, Begin(c)
  PROVE  DictionaryInv'
<1> USE DEF Begin
<1>1. /\ handshake \in [Client -> {"new", "setting", "done"}]
      /\ entries \in [Client -> SUBSET (Route \X Code)]
      /\ entry[c] = NoEntry
  BY DEF DictionaryInv, CodecTypeOK, EntriesPending
<1>2. /\ handshake'[c] = "setting" /\ entries'[c] = Dict[c]
      /\ \A d \in Client : d # c => handshake'[d] = handshake[d] /\ entries'[d] = entries[d]
  BY <1>1
<1>3. /\ Entries \subseteq Entries' /\ (Compatible' => Compatible)
      /\ (OneDictionary' => OneDictionary)
  <2>1. \A d \in Client : Begun(d) => Begun(d)'  BY <1>2 DEF Begun
  <2>2. QED  BY <2>1, Earlier
<1>4. CodecTypeOK'  BY <1>2 DEF DictionaryInv, CodecTypeOK
<1>5. EntriesPending'
  BY <1>1, <1>2, DictOf DEF DictionaryInv, EntriesPending
<1>6. FromEntries'  BY <1>3 DEF DictionaryInv, FromEntries
<1>7. OneAtATime'
  <2>1. overlap \in BOOLEAN  BY DEF DictionaryInv, CodecTypeOK
  <2>2. ~overlap' => ~overlap /\ \A d \in Client : handshake[d] # "setting"  BY <2>1
  <2>3. QED  BY <1>2, <2>2 DEF DictionaryInv, OneAtATime
<1>8. FullDictionary'
  <2> SUFFICES ASSUME ~overlap', OneDictionary', Compatible', NEW d \in Client
               PROVE  /\ handshake'[d] = "done" => \A e \in Dict[d] : e[2] \in DOMAIN codes'
                      /\ handshake'[d] = "setting" /\ NoneDone' => Filling(d)'
    BY DEF FullDictionary
  <2>1. ~overlap /\ \A x \in Client : handshake[x] # "setting"
    BY DEF DictionaryInv, CodecTypeOK
  <2>2. handshake'[d] = "done" => \A e \in Dict[d] : e[2] \in DOMAIN codes'
    BY <1>2, <1>3, <2>1 DEF DictionaryInv, FullDictionary
  <2>3. ASSUME handshake'[d] = "setting", NoneDone' PROVE Filling(d)'
    <3>1. d = c  BY <1>2, <2>1, <2>3
    <3>2. \A x \in Client : handshake[x] = "new"
      BY <1>1, <1>2, <2>1, <2>3 DEF NoneDone
    <3>3. Entries = {}  BY <3>2 DEF Entries
    <3>4. DOMAIN routes = {} /\ DOMAIN codes = {}
      BY <3>3 DEF DictionaryInv, FromEntries
    <3>5. QED  BY <1>2, <3>1, <3>4 DEF Filling
  <2>4. QED  BY <2>2, <2>3
<1>9. QED  BY <1>4, <1>5, <1>6, <1>7, <1>8 DEF DictionaryInv

(* An entry that is pending: found new and not yet in both maps.           *)
LEMMA PendingEntry ==
  ASSUME DictionaryInv, NEW c \in Client, entry[c] # NoEntry
  PROVE  LET e == entry[c][2]
         IN /\ handshake[c] = "setting"
            /\ entry[c] = <<entry[c][1], e>> /\ entry[c][1] \in {"routes", "codes"}
            /\ e \in Dict[c] /\ e \notin entries[c] /\ e \in Entries
            /\ e = <<e[1], e[2]>> /\ e[1] \in Route /\ e[2] \in Code
<1>1. /\ handshake[c] = "setting" /\ entry[c][2] \in Dict[c] \ entries[c]
      /\ entry[c] \in {"routes", "codes"} \X (Route \X Code)
  BY DEF DictionaryInv, EntriesPending
<1>2. QED  BY <1>1, DictOf DEF Begun

(* Steps that leave the maps alone and begin nothing.                      *)
LEMMA MapsStay ==
  ASSUME DictionaryInv, UNCHANGED <<routes, codes, overlap>>,
         handshake' \in [Client -> {"new", "setting", "done"}],
         \A c \in Client : Begun(c) <=> Begun(c)',
         \A c \in Client : handshake'[c] = "setting" => handshake[c] = "setting",
         EntriesPending', \A c \in Client : entries'[c] \subseteq Dict[c],
         FullDictionary'
  PROVE  DictionaryInv'
<1>1. Entries' = Entries  BY SameEntries
<1>2. CodecTypeOK'  BY DEF DictionaryInv, CodecTypeOK
<1>3. FromEntries'  BY <1>1 DEF DictionaryInv, FromEntries
<1>4. OneAtATime'  BY DEF DictionaryInv, OneAtATime
<1>5. QED  BY <1>2, <1>3, <1>4 DEF DictionaryInv

(* A handshake that has nothing left, or finds an entry taken, leaves a    *)
(* full dictionary if no other overlapped and all bring the same.          *)
LEMMA EndKeepsDictionary ==
  ASSUME DictionaryInv, NEW c \in Client, handshake[c] = "setting", entry[c] = NoEntry,
         \/ entries[c] = {}
         \/ \E e \in entries[c] : Bound(routes, e[1]) \/ Bound(codes, e[2]),
         handshake' = [handshake EXCEPT ![c] = "done"],
         UNCHANGED <<routes, codes, overlap, entries, entry>>
  PROVE  DictionaryInv'
<1>1. /\ handshake \in [Client -> {"new", "setting", "done"}]
      /\ \A d \in Client : entries[d] \subseteq Dict[d]
  BY DEF DictionaryInv, CodecTypeOK
<1>2. /\ handshake'[c] = "done"
      /\ \A d \in Client : d # c => handshake'[d] = handshake[d]
  BY <1>1
<1>3. \A d \in Client : Begun(d) <=> Begun(d)'  BY <1>2 DEF Begun
<1>4. EntriesPending'
  BY <1>2 DEF DictionaryInv, EntriesPending
<1>5. Entries' = Entries  BY <1>3, SameEntries
<1>6. FullDictionary'
  <2> SUFFICES ASSUME ~overlap, OneDictionary', Compatible', NEW d \in Client
               PROVE  /\ handshake'[d] = "done" => \A e \in Dict[d] : e[2] \in DOMAIN codes
                      /\ handshake'[d] = "setting" /\ NoneDone' => Filling(d)'
    BY DEF FullDictionary
  <2>1. OneDictionary /\ Compatible
    BY <1>3, <1>5 DEF OneDictionary, Compatible, Begun
  <2>2. ~NoneDone'  BY <1>2 DEF NoneDone
  <2>3. ASSUME d # c, handshake'[d] = "done"
        PROVE  \A e \in Dict[d] : e[2] \in DOMAIN codes
    BY <1>2, <2>1, <2>3 DEF DictionaryInv, FullDictionary
  <2>4. \A e \in Dict[c] : e[2] \in DOMAIN codes
    <3>1. CASE NoneDone
      <4>1. Filling(c)  BY <2>1, <3>1 DEF DictionaryInv, FullDictionary
      <4>2. entries[c] = {}
        <5>1. SUFFICES ASSUME NEW e \in entries[c], e[1] \in DOMAIN routes \/ e[2] \in DOMAIN codes
                       PROVE  FALSE
          BY DEF Bound
        <5>2. e \in Dict[c] /\ e = <<e[1], e[2]>> /\ Dict[c] \subseteq Entries
          BY <1>1, DictOf DEF Begun
        <5>3. CASE e[1] \in DOMAIN routes
          <6> DEFINE f == <<e[1], routes[e[1]]>>
          <6>1. f \in Dict[c] \ entries[c] /\ f[1] = e[1] /\ f[2] = routes[e[1]]
            BY <4>1, <5>3 DEF Filling
          <6>2. f[2] = e[2]  BY <2>1, <5>2, <6>1 DEF Compatible
          <6>3. QED  BY <5>2, <6>1, <6>2
        <5>4. CASE e[2] \in DOMAIN codes
          <6> DEFINE f == <<codes[e[2]], e[2]>>
          <6>1. f \in Dict[c] \ entries[c] /\ f[1] = codes[e[2]] /\ f[2] = e[2]
            BY <4>1, <5>4 DEF Filling
          <6>2. f[1] = e[1]  BY <2>1, <5>2, <6>1 DEF Compatible
          <6>3. QED  BY <5>2, <6>1, <6>2
        <5>5. QED  BY <5>1, <5>3, <5>4
      <4>3. QED  BY <4>1, <4>2 DEF Filling
    <3>2. CASE ~NoneDone
      <4>1. PICK x \in Client : handshake[x] = "done"  BY <3>2 DEF NoneDone
      <4>2. \A e \in Dict[x] : e[2] \in DOMAIN codes
        BY <2>1, <4>1 DEF DictionaryInv, FullDictionary
      <4>3. Dict[x] = Dict[c]  BY <2>1, <4>1 DEF OneDictionary
      <4>4. QED  BY <4>2, <4>3
    <3>3. QED  BY <3>1, <3>2
  <2>5. QED  BY <2>2, <2>3, <2>4
<1>7. QED
  <2>1. handshake' \in [Client -> {"new", "setting", "done"}]  BY <1>1
  <2>2. \A d \in Client : handshake'[d] = "setting" => handshake[d] = "setting"
    BY <1>2
  <2>3. QED  BY <1>1, <1>3, <1>4, <1>6, <2>1, <2>2, MapsStay

LEMMA CheckKeepsDictionary ==
  ASSUME DictionaryInv, NEW c \in Client, Check(c)
  PROVE  DictionaryInv'
<1> USE DEF Check
<1>1. PICK e \in entries[c] :
        IF Bound(routes, e[1]) \/ Bound(codes, e[2])
        THEN /\ handshake' = [handshake EXCEPT ![c] = "done"]
             /\ UNCHANGED <<entries, entry>>
        ELSE /\ entry' = [entry EXCEPT ![c] = <<"routes", e>>]
             /\ entries' = [entries EXCEPT ![c] = @ \ {e}]
             /\ UNCHANGED handshake
  OBVIOUS
<1>2. CASE Bound(routes, e[1]) \/ Bound(codes, e[2])
  BY <1>1, <1>2, EndKeepsDictionary
<1>3. CASE ~(Bound(routes, e[1]) \/ Bound(codes, e[2]))
  <2>1. /\ entry' = [entry EXCEPT ![c] = <<"routes", e>>]
        /\ entries' = [entries EXCEPT ![c] = @ \ {e}]
        /\ UNCHANGED <<handshake, routes, codes, overlap>>
        /\ handshake[c] = "setting"
    BY <1>1, <1>3
  <2>2. /\ entries \in [Client -> SUBSET (Route \X Code)]
        /\ entry \in [Client -> {NoEntry} \union ({"routes", "codes"} \X (Route \X Code))]
        /\ \A d \in Client : entries[d] \subseteq Dict[d]
        /\ handshake \in [Client -> {"new", "setting", "done"}]
    BY DEF DictionaryInv, EntriesPending, CodecTypeOK
  <2>3. /\ entries'[c] = entries[c] \ {e} /\ entry'[c] = <<"routes", e>>
        /\ \A d \in Client : d # c => entries'[d] = entries[d] /\ entry'[d] = entry[d]
    BY <2>1, <2>2
  <2>4. e \in Route \X Code /\ e \in Dict[c]  BY <2>2
  <2>5. EntriesPending'
    <3>1. entries' \in [Client -> SUBSET (Route \X Code)]  BY <2>1, <2>2
    <3>2. entry' \in [Client -> {NoEntry} \union ({"routes", "codes"} \X (Route \X Code))]
      BY <2>1, <2>2, <2>4
    <3>3. entry'[c][2] = e  BY <2>3
    <3>4. QED
      BY <2>1, <2>3, <2>4, <3>1, <3>2, <3>3 DEF DictionaryInv, EntriesPending
  <2>6. Entries' = Entries  BY <2>1 DEF Entries
  <2>7. FullDictionary'
    <3> SUFFICES ASSUME ~overlap, OneDictionary', Compatible', NEW d \in Client
                 PROVE  /\ handshake[d] = "done" => \A f \in Dict[d] : f[2] \in DOMAIN codes
                        /\ handshake[d] = "setting" /\ NoneDone' => Filling(d)'
      BY <2>1 DEF FullDictionary
    <3>1. OneDictionary /\ Compatible
      BY <2>1, <2>6 DEF OneDictionary, Compatible
    <3>2. handshake[d] = "done" => \A f \in Dict[d] : f[2] \in DOMAIN codes
      BY <3>1 DEF DictionaryInv, FullDictionary
    <3>3. ASSUME handshake[d] = "setting", NoneDone' PROVE Filling(d)'
      <4>1. d = c  BY <2>1, <3>3 DEF DictionaryInv, OneAtATime
      <4>2. NoneDone  BY <2>1, <3>3 DEF NoneDone
      <4>3. Filling(c)  BY <2>1, <3>1, <4>2 DEF DictionaryInv, FullDictionary
      <4>4. entry[c] = NoEntry /\ entry'[c] # NoEntry /\ entry'[c][2] = e
        BY <2>3 DEF NoEntry
      <4>5. \A f \in Dict[c] \ entries[c] : f[2] \in DOMAIN codes
        BY <4>3, <4>4 DEF Filling
      <4>6. Filling(c)'  BY <2>1, <2>3, <4>3, <4>4, <4>5 DEF Filling
      <4>7. QED  BY <4>1, <4>6
    <3>4. QED  BY <3>2, <3>3
  <2>8. \A d \in Client : (Begun(d) <=> Begun(d)') /\ entries'[d] \subseteq Dict[d]
    BY <2>1, <2>2, <2>3 DEF Begun
  <2>9. QED  BY <2>1, <2>2, <2>5, <2>7, <2>8, MapsStay
<1>4. QED  BY <1>2, <1>3

LEMMA WriteRoutesKeepsDictionary ==
  ASSUME DictionaryInv, NEW c \in Client, WriteRoutes(c)
  PROVE  DictionaryInv'
<1> USE DEF WriteRoutes
<1> DEFINE e == entry[c][2]
<1>1. /\ handshake[c] = "setting" /\ e \in Dict[c] /\ e \notin entries[c]
      /\ e \in Entries /\ e = <<e[1], e[2]>> /\ e[1] \in Route /\ e[2] \in Code
  BY PendingEntry
<1>2. /\ routes' = With(routes, e[1], e[2])
      /\ entry' = [entry EXCEPT ![c] = <<"codes", e>>]
      /\ UNCHANGED <<codes, handshake, entries, overlap>>
  OBVIOUS
<1> HIDE DEF e
<1>3. /\ DOMAIN routes' = DOMAIN routes \union {e[1]} /\ routes'[e[1]] = e[2]
      /\ \A r \in DOMAIN routes : r # e[1] => routes'[r] = routes[r]
  BY <1>2 DEF With
<1>4. /\ entry \in [Client -> {NoEntry} \union ({"routes", "codes"} \X (Route \X Code))]
      /\ entries \in [Client -> SUBSET (Route \X Code)]
  BY DEF DictionaryInv, EntriesPending
<1>5. /\ entry'[c] # NoEntry /\ entry'[c][2] = e
      /\ \A d \in Client : d # c => entry'[d] = entry[d]
  BY <1>2, <1>4 DEF NoEntry
<1>6. Entries' = Entries  BY <1>2 DEF Entries
<1>7. CodecTypeOK'  BY <1>1, <1>2, <1>3 DEF DictionaryInv, CodecTypeOK
<1>8. EntriesPending'
  <2>1. entry' \in [Client -> {NoEntry} \union ({"routes", "codes"} \X (Route \X Code))]
    <3>1. e \in Route \X Code  BY <1>1
    <3>2. QED  BY <1>2, <1>4, <3>1
  <2>2. QED  BY <1>1, <1>2, <1>4, <1>5, <2>1 DEF DictionaryInv, EntriesPending
<1>9. FromEntries'
  <2>1. \A r \in DOMAIN routes' : <<r, routes'[r]>> \in Entries
    BY <1>1, <1>3 DEF DictionaryInv, FromEntries
  <2>2. QED  BY <1>2, <1>6, <2>1 DEF DictionaryInv, FromEntries
<1>10. OneAtATime'  BY <1>2 DEF DictionaryInv, OneAtATime
<1>11. FullDictionary'
  <2> SUFFICES ASSUME ~overlap, OneDictionary', Compatible', NEW d \in Client
               PROVE  /\ handshake[d] = "done" => \A f \in Dict[d] : f[2] \in DOMAIN codes
                      /\ handshake[d] = "setting" /\ NoneDone' => Filling(d)'
    BY <1>2 DEF FullDictionary
  <2>1. OneDictionary /\ Compatible
    BY <1>2, <1>6 DEF OneDictionary, Compatible
  <2>2. handshake[d] = "done" => \A f \in Dict[d] : f[2] \in DOMAIN codes
    BY <2>1 DEF DictionaryInv, FullDictionary
  <2>3. ASSUME handshake[d] = "setting", NoneDone' PROVE Filling(d)'
    <3>1. d = c  BY <1>1, <2>3 DEF DictionaryInv, OneAtATime
    <3>2. NoneDone  BY <1>2, <2>3 DEF NoneDone
    <3>3. Filling(c)  BY <1>1, <2>1, <3>2 DEF DictionaryInv, FullDictionary
    <3>4. \A r \in DOMAIN routes' : <<r, routes'[r]>> \in Dict[c] \ entries[c]
      BY <1>1, <1>3, <3>3 DEF Filling
    <3>5. \A f \in Dict[c] \ entries[c] : f[2] \in DOMAIN codes \/ e = f
      BY <3>3 DEF Filling, e
    <3>6. Filling(c)'  BY <1>2, <1>5, <3>3, <3>4, <3>5 DEF Filling
    <3>7. QED  BY <3>1, <3>6
  <2>4. QED  BY <2>2, <2>3
<1>12. QED  BY <1>7, <1>8, <1>9, <1>10, <1>11 DEF DictionaryInv

LEMMA WriteCodesKeepsDictionary ==
  ASSUME DictionaryInv, NEW c \in Client, WriteCodes(c)
  PROVE  DictionaryInv'
<1> USE DEF WriteCodes
<1> DEFINE e == entry[c][2]
<1>1. /\ handshake[c] = "setting" /\ e \in Dict[c] /\ e \notin entries[c]
      /\ e \in Entries /\ e = <<e[1], e[2]>> /\ e[1] \in Route /\ e[2] \in Code
  BY PendingEntry
<1>2. /\ codes' = With(codes, e[2], e[1])
      /\ entry' = [entry EXCEPT ![c] = NoEntry]
      /\ UNCHANGED <<routes, handshake, entries, overlap>>
  OBVIOUS
<1> HIDE DEF e
<1>3. /\ DOMAIN codes' = DOMAIN codes \union {e[2]} /\ codes'[e[2]] = e[1]
      /\ \A k \in DOMAIN codes : k # e[2] => codes'[k] = codes[k]
  BY <1>2 DEF With
<1>4. /\ entry \in [Client -> {NoEntry} \union ({"routes", "codes"} \X (Route \X Code))]
      /\ entries \in [Client -> SUBSET (Route \X Code)]
  BY DEF DictionaryInv, EntriesPending
<1>5. /\ entry'[c] = NoEntry
      /\ \A d \in Client : d # c => entry'[d] = entry[d]
  BY <1>2, <1>4
<1>6. Entries' = Entries  BY <1>2 DEF Entries
<1>7. CodecTypeOK'  BY <1>1, <1>2, <1>3 DEF DictionaryInv, CodecTypeOK
<1>8. EntriesPending'
  <2>1. entry' \in [Client -> {NoEntry} \union ({"routes", "codes"} \X (Route \X Code))]
    BY <1>2, <1>4
  <2>2. QED  BY <1>2, <1>4, <1>5, <2>1 DEF DictionaryInv, EntriesPending
<1>9. FromEntries'
  <2>1. \A k \in DOMAIN codes' : <<codes'[k], k>> \in Entries
    BY <1>1, <1>3 DEF DictionaryInv, FromEntries
  <2>2. QED  BY <1>2, <1>6, <2>1 DEF DictionaryInv, FromEntries
<1>10. OneAtATime'  BY <1>2 DEF DictionaryInv, OneAtATime
<1>11. FullDictionary'
  <2> SUFFICES ASSUME ~overlap, OneDictionary', Compatible', NEW d \in Client
               PROVE  /\ handshake[d] = "done" => \A f \in Dict[d] : f[2] \in DOMAIN codes'
                      /\ handshake[d] = "setting" /\ NoneDone' => Filling(d)'
    BY <1>2 DEF FullDictionary
  <2>1. OneDictionary /\ Compatible
    BY <1>2, <1>6 DEF OneDictionary, Compatible
  <2>2. handshake[d] = "done" => \A f \in Dict[d] : f[2] \in DOMAIN codes'
    BY <1>3, <2>1 DEF DictionaryInv, FullDictionary
  <2>3. ASSUME handshake[d] = "setting", NoneDone' PROVE Filling(d)'
    <3>1. d = c  BY <1>1, <2>3 DEF DictionaryInv, OneAtATime
    <3>2. NoneDone  BY <1>2, <2>3 DEF NoneDone
    <3>3. Filling(c)  BY <1>1, <2>1, <3>2 DEF DictionaryInv, FullDictionary
    <3>4. \A k \in DOMAIN codes' : <<codes'[k], k>> \in Dict[c] \ entries[c]
      BY <1>1, <1>3, <3>3 DEF Filling
    <3>5. \A f \in Dict[c] \ entries[c] : f[2] \in DOMAIN codes'
      BY <1>3, <3>3 DEF Filling, e
    <3>6. Filling(c)'  BY <1>2, <3>3, <3>4, <3>5 DEF Filling
    <3>7. QED  BY <3>1, <3>6
  <2>4. QED  BY <2>2, <2>3
<1>12. QED  BY <1>7, <1>8, <1>9, <1>10, <1>11 DEF DictionaryInv

LEMMA NothingKeepsDictionary ==
  ASSUME DictionaryInv, UNCHANGED <<routes, codes, handshake, entries, entry, overlap>>
  PROVE  DictionaryInv'
<1>1. Entries' = Entries  BY DEF Entries
<1>2. CodecTypeOK'  BY DEF DictionaryInv, CodecTypeOK
<1>3. EntriesPending'  BY DEF DictionaryInv, EntriesPending
<1>4. FromEntries'  BY <1>1 DEF DictionaryInv, FromEntries
<1>5. OneAtATime'  BY DEF DictionaryInv, OneAtATime
<1>6. FullDictionary'
  BY <1>1 DEF DictionaryInv, FullDictionary, OneDictionary, Compatible, NoneDone, Filling
<1>7. QED  BY <1>2, <1>3, <1>4, <1>5, <1>6 DEF DictionaryInv

LEMMA DictionaryStep == DictionaryInv /\ [CodecNext]_codecVars => DictionaryInv'
<1> SUFFICES ASSUME DictionaryInv, [CodecNext]_codecVars PROVE DictionaryInv'  OBVIOUS
<1>1. ASSUME NEW c \in Client, Begin(c) PROVE DictionaryInv'
  BY <1>1, BeginKeepsDictionary
<1>2. ASSUME NEW c \in Client, Check(c) PROVE DictionaryInv'
  BY <1>2, CheckKeepsDictionary
<1>3. ASSUME NEW c \in Client, WriteRoutes(c) PROVE DictionaryInv'
  BY <1>3, WriteRoutesKeepsDictionary
<1>4. ASSUME NEW c \in Client, WriteCodes(c) PROVE DictionaryInv'
  BY <1>4, WriteCodesKeepsDictionary
<1>5. ASSUME NEW c \in Client, AllSet(c) PROVE DictionaryInv'
  BY <1>5, EndKeepsDictionary DEF AllSet
<1>6. ASSUME NEW c \in Client, NEW m \in Message, Receive(c, m) \/ SendTo(c, m)
      PROVE  DictionaryInv'
  BY <1>6, NothingKeepsDictionary DEF Receive, SendTo
<1>7. CASE UNCHANGED codecVars  BY <1>7, NothingKeepsDictionary DEF codecVars
<1>8. QED  BY <1>1, <1>2, <1>3, <1>4, <1>5, <1>6, <1>7 DEF CodecNext

----------------------------------------------------------------------------
(* Messages under the dictionary.                                          *)

(* The client's own dictionary, both ways.                                 *)
LEMMA OwnDictionary ==
  ASSUME NEW c \in Client
  PROVE  /\ \A r \in DOMAIN OwnRoutes(c) : <<r, OwnRoutes(c)[r]>> \in Dict[c]
         /\ \A k \in DOMAIN OwnCodes(c) : <<OwnCodes(c)[k], k>> \in Dict[c]
         /\ \A e \in Dict[c] : e[2] \in DOMAIN OwnCodes(c)
<1>1. ASSUME NEW r \in DOMAIN OwnRoutes(c) PROVE <<r, OwnRoutes(c)[r]>> \in Dict[c]
  <2> DEFINE f == CHOOSE e \in Dict[c] : e[1] = r
  <2>1. \E e \in Dict[c] : e[1] = r  BY DEF OwnRoutes
  <2>2. f \in Dict[c] /\ f[1] = r  BY <2>1
  <2>3. OwnRoutes(c)[r] = f[2]  BY DEF OwnRoutes
  <2> HIDE DEF f
  <2>4. QED  BY <2>2, <2>3, DictOf
<1>2. ASSUME NEW k \in DOMAIN OwnCodes(c) PROVE <<OwnCodes(c)[k], k>> \in Dict[c]
  <2> DEFINE f == CHOOSE e \in Dict[c] : e[2] = k
  <2>1. \E e \in Dict[c] : e[2] = k  BY DEF OwnCodes
  <2>2. f \in Dict[c] /\ f[2] = k  BY <2>1
  <2>3. OwnCodes(c)[k] = f[1]  BY DEF OwnCodes
  <2> HIDE DEF f
  <2>4. QED  BY <2>2, <2>3, DictOf
<1>3. \A e \in Dict[c] : e[2] \in DOMAIN OwnCodes(c)  BY DEF OwnCodes
<1>4. QED  BY <1>1, <1>2, <1>3

LEMMA ReceivedMeaning ==
  ASSUME DictionaryInv, NEW c \in Client, NEW m \in Message, Receive(c, m)
  PROVE  MessagesKeepMeaning'
<1> USE DEF Receive
<1> DEFINE meant == MessageDecode(MessageEncode(m, OwnRoutes(c)), codes)
<1>1. UNCHANGED <<routes, codes, handshake, overlap>> /\ Entries' = Entries
  BY DEF Entries
<1>2. /\ handshake[c] = "done" /\ Dict[c] \subseteq Entries
  BY DictOf DEF Begun
<1>3. last'.message = m /\ last'.got = meant /\ last'.size = Size[m]  OBVIOUS
<1> HIDE DEF meant
<1> SUFFICES ASSUME Compatible, RouteLen[m.route] < 256
             PROVE  /\ meant \in {Meaning(m), Unknown}
                    /\ meant = Unknown => overlap \/ ~OneDictionary
  BY <1>1, <1>3 DEF MessagesKeepMeaning, Compatible, OneDictionary
<1> DEFINE dict == OwnRoutes(c)
<1>4. ASSUME m.route \in DOMAIN dict
      PROVE  <<m.route, dict[m.route]>> \in Dict[c]
  BY <1>4, OwnDictionary
<1> HIDE DEF dict
<1>5. ASSUME m.route \in DOMAIN dict, dict[m.route] \in DOMAIN codes
      PROVE  codes[dict[m.route]] = m.route
  <2> DEFINE k == dict[m.route]
  <2> DEFINE e == <<m.route, k>>
  <2> DEFINE f == <<codes[k], k>>
  <2>1. e \in Entries /\ f \in Entries
    BY <1>2, <1>4, <1>5 DEF DictionaryInv, FromEntries
  <2>2. e[2] = f[2] => e[1] = f[1]  BY <2>1 DEF Compatible
  <2>3. QED  BY <2>2
<1>6. /\ meant \in {Meaning(m), Unknown}
      /\ meant = Unknown => m.route \in DOMAIN dict /\ dict[m.route] \notin DOMAIN codes
  BY <1>5, Transmitted DEF meant, dict
<1>7. ASSUME meant = Unknown, ~overlap, OneDictionary PROVE FALSE
  <2> DEFINE e == <<m.route, dict[m.route]>>
  <2>1. e \in Dict[c] /\ e[2] \notin DOMAIN codes  BY <1>4, <1>6, <1>7
  <2>2. \A d \in Dict[c] : d[2] \in DOMAIN codes
    BY <1>2, <1>7 DEF DictionaryInv, FullDictionary
  <2> HIDE DEF e
  <2>3. QED  BY <2>1, <2>2
<1>8. QED  BY <1>6, <1>7 DEF DictionaryInv, CodecTypeOK

LEMMA SentMeaning ==
  ASSUME DictionaryInv, NEW c \in Client, NEW m \in Message, SendTo(c, m)
  PROVE  MessagesKeepMeaning'
<1> USE DEF SendTo
<1> DEFINE meant == MessageDecode(MessageEncode(m, routes), OwnCodes(c))
<1>1. UNCHANGED <<routes, codes, handshake, overlap>> /\ Entries' = Entries
  BY DEF Entries
<1>2. handshake[c] # "new" /\ Dict[c] \subseteq Entries
  BY DictOf DEF Begun
<1>3. last'.message = m /\ last'.got = meant /\ last'.size = Encode(Size[m])  OBVIOUS
<1>4. Encode(Size[m]) \in {Size[m], TooBig} \/ Size[m] = MaxPacketSize
  BY LengthSaid, DictAssumption
<1> HIDE DEF meant
<1> SUFFICES ASSUME Compatible, RouteLen[m.route] < 256
             PROVE  /\ meant \in {Meaning(m), Unknown}
                    /\ meant = Unknown => ~OneDictionary
  BY <1>1, <1>3, <1>4 DEF MessagesKeepMeaning, Compatible, OneDictionary
<1> DEFINE names == OwnCodes(c)
<1>5. ASSUME m.route \in DOMAIN routes
      PROVE  <<m.route, routes[m.route]>> \in Entries
  BY <1>5 DEF DictionaryInv, FromEntries
<1>6. /\ \A k \in DOMAIN names : <<names[k], k>> \in Dict[c]
      /\ \A e \in Dict[c] : e[2] \in DOMAIN names
  BY OwnDictionary
<1> HIDE DEF names
<1>7. ASSUME m.route \in DOMAIN routes, routes[m.route] \in DOMAIN names
      PROVE  names[routes[m.route]] = m.route
  <2> DEFINE k == routes[m.route]
  <2> DEFINE e == <<m.route, k>>
  <2> DEFINE f == <<names[k], k>>
  <2>1. e \in Entries /\ f \in Entries  BY <1>2, <1>5, <1>6, <1>7
  <2>2. e[2] = f[2] => e[1] = f[1]  BY <2>1 DEF Compatible
  <2>3. QED  BY <2>2
<1>8. /\ meant \in {Meaning(m), Unknown}
      /\ meant = Unknown => m.route \in DOMAIN routes /\ routes[m.route] \notin DOMAIN names
  BY <1>7, Transmitted DEF meant, names
<1>9. ASSUME meant = Unknown, OneDictionary PROVE FALSE
  <2> DEFINE e == <<m.route, routes[m.route]>>
  <2>1. e \in Entries /\ e[2] \notin DOMAIN names  BY <1>5, <1>8, <1>9
  <2>2. Dict[c] = Entries  BY <1>2, <1>9 DEF OneDictionary
  <2> HIDE DEF e
  <2>3. QED  BY <1>6, <2>1, <2>2
<1>10. QED  BY <1>8, <1>9

(* The last message stays right when handshakes go on: what has come to    *)
(* agree, agreed before, and what has overlapped stays overlapped.         *)
LEMMA MeaningStays ==
  ASSUME MessagesKeepMeaning, last' = last, overlap => overlap',
         \A c \in Client : Begun(c) => Begun(c)'
  PROVE  MessagesKeepMeaning'
<1>1. (Compatible' => Compatible) /\ (OneDictionary' => OneDictionary)  BY Earlier
<1>2. QED  BY <1>1 DEF MessagesKeepMeaning

LEMMA MeaningStep ==
  DictionaryInv /\ MessagesKeepMeaning /\ [CodecNext]_codecVars => MessagesKeepMeaning'
<1> SUFFICES ASSUME DictionaryInv, MessagesKeepMeaning, [CodecNext]_codecVars
             PROVE  MessagesKeepMeaning'
  OBVIOUS
<1>1. ASSUME NEW c \in Client, NEW m \in Message, Receive(c, m) \/ SendTo(c, m)
      PROVE  MessagesKeepMeaning'
  BY <1>1, ReceivedMeaning, SentMeaning
<1>2. ASSUME NEW c \in Client,
             Begin(c) \/ Check(c) \/ WriteRoutes(c) \/ WriteCodes(c) \/ AllSet(c)
      PROVE  MessagesKeepMeaning'
  <2>1. handshake \in [Client -> {"new", "setting", "done"}]
    BY DEF DictionaryInv, CodecTypeOK
  <2>2. /\ last' = last /\ (overlap => overlap')
        /\ \/ handshake' = handshake
           \/ handshake' = [handshake EXCEPT ![c] = "setting"]
           \/ handshake' = [handshake EXCEPT ![c] = "done"]
    <3>1. CASE Begin(c)  BY <3>1 DEF Begin
    <3>2. CASE Check(c)  BY <3>2 DEF Check
    <3>3. CASE WriteRoutes(c)  BY <3>3 DEF WriteRoutes
    <3>4. CASE WriteCodes(c)  BY <3>4 DEF WriteCodes
    <3>5. CASE AllSet(c)  BY <3>5 DEF AllSet
    <3>6. QED  BY <1>2, <3>1, <3>2, <3>3, <3>4, <3>5
  <2>3. \A d \in Client : Begun(d) => Begun(d)'  BY <2>1, <2>2 DEF Begun
  <2>4. QED  BY <2>2, <2>3, MeaningStays
<1>3. CASE UNCHANGED codecVars  BY <1>3, MeaningStays DEF codecVars, Begun
<1>4. QED  BY <1>1, <1>2, <1>3 DEF CodecNext

(* The dictionary, the handshakes and their entries keep their types.      *)
THEOREM CodecTypeCorrect == CodecSpec => []CodecTypeOK
<1>1. DictionaryInv => CodecTypeOK  BY DEF DictionaryInv
<1>2. QED  BY <1>1, CodecInitial, DictionaryStep, PTL DEF CodecSpec

(* However handshakes interleave with messages, for every number of        *)
(* clients, every dictionary, id, route and length of a packet: a message  *)
(* means to its receiver what it meant to its sender or is refused, while  *)
(* the dictionaries do not contradict each other and routes are shorter    *)
(* than 256 bytes, and is not refused if all brought the same dictionary   *)
(* one after the other.                                                    *)
THEOREM MeaningKept == CodecSpec => []MessagesKeepMeaning
BY CodecInitial, DictionaryStep, MeaningStep, PTL DEF CodecSpec

----------------------------------------------------------------------------
(* Backend: what becomes of the pushes. *)

(* What has come to a connector and what is on its way there.              *)
Line(d) == got[d] \o wire[d]

(* The pushes that the goroutine has taken from pushChan. *)
TakenCount == Len(pushed) - Len(pushChan)

PushedOnce == \A k, l \in DOMAIN pushed : pushed[k] = pushed[l] => k = l

ChanHasRest ==
    /\ TakenCount \in Nat
    /\ \A j \in DOMAIN pushChan : pushChan[j] = pushed[TakenCount + j]

(* What is to be published is of the push taken last, once per connector.  *)
GroupsOfLast ==
    \A g \in groups :
        /\ TakenCount > 0 /\ g[1] = pushed[TakenCount]
        /\ \A i \in DOMAIN Line(g[2]) : Line(g[2])[i].push # g[1]

LineWasTaken ==
    \A d \in Connector : \A i \in DOMAIN Line(d) :
        /\ \E k \in 1..TakenCount : pushed[k] = Line(d)[i].push
        /\ Line(d)[i].users = UsersAt(Line(d)[i].push, d)
        /\ passedOn \/ Line(d)[i].src = Home

LineInOrder ==
    \A d \in Connector : \A i, j \in DOMAIN Line(d) : j < i =>
        \A k, l \in DOMAIN pushed :
            pushed[k] = Line(d)[j].push /\ pushed[l] = Line(d)[i].push => k < l

HomeUnlessPassed == passedOn \/ msgDst = Home

PipeInv ==
    /\ PushedOnce
    /\ ChanHasRest
    /\ GroupsOfLast
    /\ LineWasTaken
    /\ LineInOrder
    /\ HomeUnlessPassed

----------------------------------------------------------------------------
(* Sequences. *)
LEMMA SeqShape ==
  ASSUME NEW S, NEW s \in Seq(S)
  PROVE  /\ Len(s) \in Nat /\ DOMAIN s = 1 .. Len(s)
         /\ \A i \in DOMAIN s : s[i] \in S
         /\ \A e \in S : /\ Append(s, e) \in Seq(S)
                         /\ DOMAIN Append(s, e) = DOMAIN s \union {Len(s) + 1}
                         /\ Len(Append(s, e)) = Len(s) + 1
                         /\ \A i \in DOMAIN s : Append(s, e)[i] = s[i]
                         /\ Append(s, e)[Len(s) + 1] = e
<1>1. Len(s) \in Nat /\ DOMAIN s = 1 .. Len(s) /\ s \in [1 .. Len(s) -> S]
  BY LenProperties
<1>2. ASSUME NEW e \in S
      PROVE  /\ Append(s, e) \in Seq(S)
             /\ DOMAIN Append(s, e) = DOMAIN s \union {Len(s) + 1}
             /\ Len(Append(s, e)) = Len(s) + 1
             /\ \A i \in DOMAIN s : Append(s, e)[i] = s[i]
             /\ Append(s, e)[Len(s) + 1] = e
  <2> DEFINE t == Append(s, e)
  <2>1. /\ t \in Seq(S) /\ Len(t) = Len(s) + 1
        /\ \A i \in 1 .. Len(s) : t[i] = s[i]
        /\ t[Len(s) + 1] = e
    BY AppendProperties
  <2> HIDE DEF t
  <2>2. DOMAIN t = 1 .. (Len(s) + 1) BY <2>1, LenProperties
  <2>3. DOMAIN t = DOMAIN s \union {Len(s) + 1} BY <1>1, <2>2
  <2> QED BY <1>1, <2>1, <2>3 DEF t
<1> QED BY <1>1, <1>2

LEMMA LineGrows ==
  ASSUME NEW S, NEW s \in Seq(S), NEW t \in Seq(S), NEW e \in S
  PROVE  s \o Append(t, e) = Append(s \o t, e)
<1>1. <<e>> \in Seq(S) OBVIOUS
<1>2. Append(t, e) = t \o <<e>> BY AppendIsConcat
<1>3. s \o t \in Seq(S) BY ConcatProperties
<1>4. Append(s \o t, e) = (s \o t) \o <<e>> BY <1>3, AppendIsConcat
<1>5. (s \o t) \o <<e>> = s \o (t \o <<e>>) BY <1>1, ConcatAssociative
<1>6. s \o Append(t, e) = s \o (t \o <<e>>) BY <1>2
<1> QED BY <1>4, <1>5, <1>6, Zenon

LEMMA LineMoves ==
  ASSUME NEW S, NEW s \in Seq(S), NEW t \in Seq(S), t # <<>>
  PROVE  Append(s, Head(t)) \o Tail(t) = s \o t
<1>1. /\ Head(t) \in S /\ Tail(t) \in Seq(S) /\ <<Head(t)>> \in Seq(S)
      /\ Append(s, Head(t)) = s \o <<Head(t)>>
  BY HeadTailProperties, AppendIsConcat
<1>2. (s \o <<Head(t)>>) \o Tail(t) = s \o (<<Head(t)>> \o Tail(t))
  BY <1>1, ConcatAssociative
<1>3. <<Head(t)>> \o Tail(t) = t
  <2> DEFINE h == Head(t)
             r == Tail(t)
             v == <<h>> \o r
  <2>1. /\ r \in Seq(S) /\ Len(r) = Len(t) - 1 /\ \A i \in 1 .. Len(r) : r[i] = t[i + 1]
    BY HeadTailProperties
  <2>2. /\ Len(t) \in Nat /\ DOMAIN t = 1 .. Len(t) /\ t \in [1 .. Len(t) -> S]
        /\ t[1] = h
    BY LenProperties
  <2>3. <<h>> \in Seq(S) /\ Len(<<h>>) = 1 /\ <<h>>[1] = h BY <1>1
  <2> HIDE DEF h, r
  <2>4. /\ v \in Seq(S) /\ Len(v) = 1 + Len(r)
        /\ \A i \in 1 .. 1 + Len(r) : v[i] = IF i <= 1 THEN <<h>>[i] ELSE r[i - 1]
    <3> DEFINE u == <<h>>
    <3>1. u \in Seq(S) /\ Len(u) = 1 BY <2>3
    <3>0. r \in Seq(S) BY <2>1
    <3> HIDE DEF u
    <3>2. /\ u \o r \in Seq(S) /\ Len(u \o r) = Len(u) + Len(r)
          /\ \A i \in 1 .. Len(u) + Len(r) :
                (u \o r)[i] = IF i <= Len(u) THEN u[i] ELSE r[i - Len(u)]
      BY ONLY <3>0, <3>1, ConcatProperties
    <3> QED BY <3>1, <3>2 DEF u
  <2> HIDE DEF v
  <2>5. Len(v) = Len(t) BY <2>1, <2>2, <2>4
  <2>6. v \in [1 .. Len(t) -> S] BY <2>4, <2>5, LenProperties
  <2>7. ASSUME NEW i \in 1 .. Len(t) PROVE v[i] = t[i]
    <3>1. CASE i = 1 BY <2>1, <2>2, <2>3, <2>4, <3>1
    <3>2. CASE i # 1
      <4>1. v[i] = r[i - 1] BY <2>1, <2>2, <2>4, <3>2
      <4>2. r[i - 1] = t[(i - 1) + 1] BY <2>1, <2>2, <3>2
      <4> QED BY <2>2, <4>1, <4>2
    <3> QED BY <3>1, <3>2
  <2>8. v = t BY <2>2, <2>6, <2>7
  <2> QED BY <2>8 DEF v, h, r
<1>4. Append(s, Head(t)) \o Tail(t) = (s \o <<Head(t)>>) \o Tail(t) BY <1>1
<1>5. s \o (<<Head(t)>> \o Tail(t)) = s \o t BY <1>3
<1> QED BY <1>2, <1>4, <1>5, Zenon

LEMMA LineShape ==
  ASSUME BackendTypeOK, NEW d \in Connector
  PROVE  /\ Line(d) \in Seq(Published) /\ Len(Line(d)) \in Nat /\ DOMAIN Line(d) = 1 .. Len(Line(d))
         /\ \A i \in DOMAIN Line(d) : Line(d)[i] \in Published
         /\ \A i \in DOMAIN got[d] : i \in DOMAIN Line(d) /\ Line(d)[i] = got[d][i]
         /\ DOMAIN got[d] \subseteq Nat
<1>1. got[d] \in Seq(Published) /\ wire[d] \in Seq(Published) BY DEF BackendTypeOK
<1>2. /\ Line(d) \in Seq(Published) /\ Len(Line(d)) = Len(got[d]) + Len(wire[d])
      /\ \A i \in 1 .. Len(got[d]) + Len(wire[d]) :
            Line(d)[i] = IF i <= Len(got[d]) THEN got[d][i] ELSE wire[d][i - Len(got[d])]
  BY <1>1, ConcatProperties DEF Line
<1>3. /\ Len(got[d]) \in Nat /\ Len(wire[d]) \in Nat /\ DOMAIN got[d] = 1 .. Len(got[d])
  BY <1>1, SeqShape
<1>4. /\ Len(Line(d)) \in Nat /\ DOMAIN Line(d) = 1 .. Len(Line(d))
      /\ \A i \in DOMAIN Line(d) : Line(d)[i] \in Published
  <2>1. Line(d) \in Seq(Published) BY <1>2
  <2> HIDE DEF Line, Published
  <2> QED BY ONLY <2>1, SeqShape
<1>5. \A i \in DOMAIN got[d] : /\ i \in 1 .. Len(got[d]) + Len(wire[d]) /\ i <= Len(got[d])
                                /\ i \in DOMAIN Line(d)
  <2> DEFINE a == Len(got[d])
             b == Len(wire[d])
             n == Len(Line(d))
  <2>1. /\ n = a + b /\ a \in Nat /\ b \in Nat
        /\ DOMAIN got[d] = 1 .. a /\ DOMAIN Line(d) = 1 .. n
    BY <1>2, <1>3, <1>4
  <2> HIDE DEF a, b, n
  <2>2. \A i \in 1 .. a : i \in 1 .. a + b /\ i <= a /\ i \in 1 .. n BY ONLY <2>1
  <2> QED BY <2>1, <2>2 DEF a, b
<1>6. \A i \in DOMAIN got[d] : Line(d)[i] = got[d][i] BY <1>2, <1>5
<1>7. Line(d) \in Seq(Published) BY <1>2
<1>8. DOMAIN got[d] \subseteq Nat BY <1>3
<1> QED BY <1>4, <1>5, <1>6, <1>7, <1>8

----------------------------------------------------------------------------
(* The users of a push that are at a connector, whatever the length of the *)
(* list: all of them and no others (pusher.go:47-60).                      *)
LEMMA UsersAtList ==
  ASSUME NEW p \in PushId, NEW d \in Connector
  PROVE  /\ UsersAt(p, d) \in Seq(Player)
         /\ \A i \in DOMAIN UsersAt(p, d) :
               \E j \in DOMAIN Users[p] : Users[p][j] = <<UsersAt(p, d)[i], d>>
         /\ \A j \in DOMAIN Users[p] : Users[p][j][2] = d =>
               \E i \in DOMAIN UsersAt(p, d) : UsersAt(p, d)[i] = Users[p][j][1]
<1> DEFINE N == Len(Users[p])
<1> DEFINE Next1(i, l) == IF Users[p][i][2] = d THEN Append(l, Users[p][i][1]) ELSE l
<1> DEFINE Runs(f) == f = [i \in 0..N |-> IF i = 0 THEN <<>> ELSE Next1(i, f[i - 1])]
<1>1. /\ N \in Nat /\ DOMAIN Users[p] = 1..N
      /\ \A i \in 1..N : /\ Users[p][i] \in Player \X Connector /\ Users[p][i][1] \in Player
                         /\ Users[p][i] = <<Users[p][i][1], Users[p][i][2]>>
  <2>1. Users[p] \in Seq(Player \X Connector)  BY PushAssumption
  <2>2. N \in Nat /\ DOMAIN Users[p] = 1..N /\ \A i \in 1..N : Users[p][i] \in Player \X Connector
    BY <2>1, SeqShape
  <2>3. QED  BY <2>2
<1>2. ASSUME NEW i \in 1..N, NEW l \in Seq(Player) PROVE Next1(i, l) \in Seq(Player)
  <2>1. Append(l, Users[p][i][1]) \in Seq(Player)  BY <1>1, AppendProperties
  <2>2. QED  BY <2>1
<1> HIDE DEF N
<1>3. \E f : Runs(f)
  <2> DEFINE Lists == Seq(Player)
  <2> DEFINE b == <<>>
  <2> DEFINE G == [x \in (1..N) \X Lists |-> Next1(x[1], x[2])]
  <2>1. G \in [(1..N) \X Lists -> Lists] /\ b \in Lists  BY <1>2
  <2> HIDE DEF Next1
  <2>2. \A i \in 1..N : \A l \in Lists : G[<<i, l>>] = Next1(i, l)  OBVIOUS
  <2> HIDE DEF G, Lists, b
  <2>3. PICK f : Loop(f, Lists, N, b, G)  BY ONLY <1>1, <2>1, Recursion
  <2>4. ASSUME NEW i \in 1..N PROVE f[i] = Next1(i, f[i - 1])
    <3>1. i - 1 \in 0..N  BY <1>1
    <3>2. f[i - 1] \in Lists  BY <2>3, <3>1 DEF Loop
    <3>3. QED  BY <2>2, <2>3, <3>2 DEF Loop
  <2>5. \A i \in 0..N : f[i] = IF i = 0 THEN b ELSE Next1(i, f[i - 1])
    BY <1>1, <2>3, <2>4 DEF Loop
  <2>6. Runs(f)  BY <2>3, <2>5 DEF Loop, b
  <2> HIDE DEF Runs
  <2>7. QED  BY <2>6
<1>4. PICK f : Runs(f) /\ UsersAt(p, d) = f[N]  BY <1>3 DEF UsersAt, N
<1>5. f[0] = <<>> /\ \A n \in 1..N : f[n] = Next1(n, f[n - 1])
  <2> DEFINE Value(n) == IF n = 0 THEN <<>> ELSE Next1(n, f[n - 1])
  <2>1. f = [n \in 0..N |-> Value(n)]  BY <1>4
  <2> HIDE DEF Value
  <2>2. \A n \in 0..N : f[n] = Value(n)  BY <2>1
  <2>3. 0 \in 0..N /\ \A n \in 1..N : n \in 0..N /\ n # 0  BY <1>1
  <2> HIDE DEF Next1
  <2>4. QED  BY <2>2, <2>3 DEF Value
<1> DEFINE Z == {n \in 0..N :
                   /\ f[n] \in Seq(Player)
                   /\ \A i \in DOMAIN f[n] : \E j \in 1..n : Users[p][j] = <<f[n][i], d>>
                   /\ \A j \in 1..n : Users[p][j][2] = d =>
                         \E i \in DOMAIN f[n] : f[n][i] = Users[p][j][1]}
<1>6. 0 \in Z
  <2>1. <<>> \in Seq(Player) /\ DOMAIN <<>> = {}  OBVIOUS
  <2>2. 0 \in 0..N /\ 1..0 = {}  BY <1>1
  <2>3. f[0] \in Seq(Player) /\ DOMAIN f[0] = {}  BY <1>5, <2>1
  <2>4. QED  BY <2>2, <2>3
<1>7. ASSUME NEW n \in 1..N, n - 1 \in Z PROVE n \in Z
  <2> DEFINE l == f[n - 1]
  <2>1. /\ l \in Seq(Player)
        /\ \A i \in DOMAIN l : \E j \in 1..(n - 1) : Users[p][j] = <<l[i], d>>
        /\ \A j \in 1..(n - 1) : Users[p][j][2] = d => \E i \in DOMAIN l : l[i] = Users[p][j][1]
    BY <1>7
  <2>2. f[n] = Next1(n, l) /\ n \in 0..N  BY <1>1, <1>5
  <2>3. /\ \A j \in 1..(n - 1) : j \in 1..n
        /\ \A j \in 1..n : j = n \/ j \in 1..(n - 1)
        /\ n \in 1..n
    BY <1>1
  <2> HIDE DEF l
  <2>4. CASE Users[p][n][2] # d
    <3>1. f[n] = l  BY <2>2, <2>4
    <3> HIDE DEF Next1
    <3>2. \A i \in DOMAIN f[n] : \E j \in 1..n : Users[p][j] = <<f[n][i], d>>
      BY <2>1, <2>3, <3>1
    <3>3. \A j \in 1..n : Users[p][j][2] = d => \E i \in DOMAIN f[n] : f[n][i] = Users[p][j][1]
      BY <2>1, <2>3, <2>4, <3>1
    <3>4. QED  BY <2>1, <2>2, <3>1, <3>2, <3>3
  <2>5. CASE Users[p][n][2] = d
    <3> DEFINE u == Users[p][n][1]
    <3> DEFINE k == Len(l)
    <3>1. f[n] = Append(l, u)  BY <2>2, <2>5
    <3>2. u \in Player /\ Users[p][n] = <<u, d>>  BY <1>1, <2>5
    <3> HIDE DEF u, Next1
    <3>3. /\ k \in Nat /\ DOMAIN l = 1..k
          /\ Append(l, u) \in Seq(Player) /\ DOMAIN Append(l, u) = 1..(k + 1)
          /\ \A i \in 1..k : Append(l, u)[i] = l[i]
          /\ Append(l, u)[k + 1] = u
      BY <2>1, <3>2, AppendProperties, SeqShape
    <3> HIDE DEF k
    <3>4. /\ \A i \in 1..k : i \in 1..(k + 1)
          /\ \A i \in 1..(k + 1) : i = k + 1 \/ i \in 1..k
          /\ k + 1 \in 1..(k + 1)
      BY ONLY <3>3
    <3>5. ASSUME NEW i \in DOMAIN f[n] PROVE \E j \in 1..n : Users[p][j] = <<f[n][i], d>>
      <4>1. CASE i = k + 1  BY <2>3, <3>1, <3>2, <3>3, <4>1
      <4>2. CASE i \in 1..k  BY <2>1, <2>3, <3>1, <3>3, <4>2
      <4>3. QED  BY <3>1, <3>3, <3>4, <4>1, <4>2
    <3>6. ASSUME NEW j \in 1..n, Users[p][j][2] = d
          PROVE  \E i \in DOMAIN f[n] : f[n][i] = Users[p][j][1]
      <4>1. CASE j = n  BY <3>1, <3>3, <3>4, <4>1 DEF u
      <4>2. CASE j \in 1..(n - 1)
        <5>1. PICK i \in DOMAIN l : l[i] = Users[p][j][1]  BY <2>1, <3>6, <4>2
        <5>2. i \in DOMAIN f[n] /\ f[n][i] = l[i]  BY <3>1, <3>3, <3>4, <5>1
        <5>3. QED  BY <5>1, <5>2
      <4>3. QED  BY <2>3, <4>1, <4>2
    <3>7. f[n] \in Seq(Player)  BY <3>1, <3>3
    <3>8. QED  BY <2>2, <3>5, <3>6, <3>7
  <2>6. QED  BY <2>4, <2>5
<1> HIDE DEF Z
<1>8. \A n \in 0..N : n \in Z  BY ONLY <1>1, <1>6, <1>7, InductionTo
<1>9. N \in Z  BY <1>1, <1>8
<1>10. QED  BY <1>1, <1>4, <1>9 DEF Z

(* Type correctness. *)
LEMMA PipeType ==
  ASSUME BackendTypeOK, BackendNext
  PROVE  BackendTypeOK'
<1>1. CASE TakePush
  <2>1. Head(pushChan) \in PushId /\ pushChan' \in Seq(PushId)
    BY <1>1, HeadTailProperties DEF BackendTypeOK, TakePush
  <2>2. Destinations(Head(pushChan)) \subseteq Connector
    <3> DEFINE p == Head(pushChan)
    <3>1. Users[p] \in Seq(Player \X Connector) BY <2>1, PushAssumption
    <3> HIDE DEF p
    <3>2. \A i \in DOMAIN Users[p] : Users[p][i] \in Player \X Connector BY <3>1, SeqShape
    <3>3. Destinations(p) \subseteq Connector BY <3>2 DEF Destinations
    <3> QED BY <3>3 DEF p
  <2>3. groups' \subseteq PushId \X Connector
    BY <1>1, <2>1, <2>2 DEF BackendTypeOK, TakePush
  <2>4. Len(pushChan') <= PushChanCap
    <3>1. Len(pushChan') = Len(pushChan) - 1 /\ Len(pushChan) \in Nat
      BY <1>1, HeadTailProperties, SeqShape DEF BackendTypeOK, TakePush
    <3> QED BY <3>1, PushAssumption DEF BackendTypeOK
  <2> QED BY <1>1, <2>1, <2>3, <2>4 DEF BackendTypeOK, TakePush
<1>2. ASSUME NEW p \in PushId, CallPush(p) PROVE BackendTypeOK'
  <2>1. pushed' \in Seq(PushId) /\ pushChan' \in Seq(PushId)
    BY <1>2, SeqShape DEF BackendTypeOK, CallPush
  <2>2. Len(pushChan') <= PushChanCap
    <3>1. Len(pushChan') = Len(pushChan) + 1 /\ Len(pushChan) \in Nat
      BY <1>2, AppendProperties, SeqShape DEF BackendTypeOK, CallPush
    <3> QED BY <1>2, <3>1, PushAssumption DEF CallPush
  <2> QED BY <1>2, <2>1, <2>2 DEF BackendTypeOK, CallPush
<1>3. ASSUME NEW p \in PushId, NEW d \in Connector, PublishGroup(p, d) PROVE BackendTypeOK'
  <2> DEFINE m == [push |-> p, users |-> UsersAt(p, d), src |-> msgDst]
  <2>1. m \in Published BY UsersAtList DEF BackendTypeOK, Published
  <2>2. wire' = wire \/ wire' = [wire EXCEPT ![d] = Append(@, m)] BY <1>3 DEF PublishGroup
  <2> HIDE DEF m
  <2>3. Append(wire[d], m) \in Seq(Published) BY <2>1, SeqShape DEF BackendTypeOK
  <2>4. wire' \in [Connector -> Seq(Published)] BY <2>2, <2>3 DEF BackendTypeOK
  <2> QED BY <1>3, <2>4 DEF BackendTypeOK, PublishGroup
<1>4. ASSUME NEW s \in Backends, SendProxy(s) PROVE BackendTypeOK'
  BY <1>4 DEF BackendTypeOK, SendProxy
<1>5. ASSUME NEW d \in Connector, Deliver(d) PROVE BackendTypeOK'
  <2>1. Head(wire[d]) \in Published /\ Tail(wire[d]) \in Seq(Published)
    BY <1>5, HeadTailProperties DEF BackendTypeOK, Deliver
  <2>2. Append(got[d], Head(wire[d])) \in Seq(Published) BY <2>1, SeqShape DEF BackendTypeOK
  <2>3. wire' \in [Connector -> Seq(Published)] /\ got' \in [Connector -> Seq(Published)]
    <3> HIDE DEF Published
    <3> QED BY <1>5, <2>1, <2>2 DEF BackendTypeOK, Deliver
  <2>4. backlog' \in [Connector -> 0..RemoteCap]
    BY <1>5, PushAssumption DEF BackendTypeOK, Deliver
  <2> QED BY <1>5, <2>3, <2>4 DEF BackendTypeOK, Deliver
<1>6. ASSUME NEW d \in Connector, Consume(d) PROVE BackendTypeOK'
  <2>1. backlog' \in [Connector -> 0..RemoteCap]
    BY <1>6, PushAssumption DEF BackendTypeOK, Consume
  <2> QED BY <1>6, <2>1 DEF BackendTypeOK, Consume
<1> QED BY <1>1, <1>2, <1>3, <1>4, <1>5, <1>6 DEF BackendNext

----------------------------------------------------------------------------
(* The order of the pushes. *)
LEMMA QueueShape ==
  ASSUME BackendTypeOK
  PROVE  /\ DOMAIN pushed = 1 .. Len(pushed) /\ Len(pushed) \in Nat
         /\ DOMAIN pushChan = 1 .. Len(pushChan) /\ Len(pushChan) \in Nat
BY SeqShape DEF BackendTypeOK

LEMMA PipeFrame ==
  ASSUME PipeInv, \A d \in Connector : Line(d)' = Line(d),
         UNCHANGED <<pushed, pushChan, groups>>, groups \subseteq PushId \X Connector,
         passedOn => passedOn', passedOn' \/ msgDst' = msgDst
  PROVE  PipeInv'
<1>1. UNCHANGED TakenCount BY DEF TakenCount
<1>2. PushedOnce' /\ ChanHasRest' BY <1>1 DEF PipeInv, PushedOnce, ChanHasRest
<1>3. GroupsOfLast'
  <2>1. \A g \in groups : Line(g[2])' = Line(g[2]) OBVIOUS
  <2> QED BY <1>1, <2>1 DEF PipeInv, GroupsOfLast
<1>4. LineWasTaken' BY <1>1 DEF PipeInv, LineWasTaken
<1>5. LineInOrder' BY DEF PipeInv, LineInOrder
<1>6. HomeUnlessPassed' BY DEF PipeInv, HomeUnlessPassed
<1> QED BY <1>2, <1>3, <1>4, <1>5, <1>6 DEF PipeInv

LEMMA CallPushOrder ==
  ASSUME BackendTypeOK, PipeInv, NEW p \in PushId, CallPush(p)
  PROVE  PipeInv'
<1> DEFINE n == Len(pushed)
           k == Len(pushChan)
<1>1. /\ n \in Nat /\ DOMAIN pushed = 1 .. n /\ k \in Nat /\ DOMAIN pushChan = 1 .. k
  BY QueueShape
<1>2. /\ Len(pushed') = n + 1 /\ DOMAIN pushed' = DOMAIN pushed \union {n + 1}
      /\ \A i \in DOMAIN pushed : pushed'[i] = pushed[i]
      /\ pushed'[n + 1] = p
      /\ Len(pushChan') = k + 1 /\ DOMAIN pushChan' = DOMAIN pushChan \union {k + 1}
      /\ \A i \in DOMAIN pushChan : pushChan'[i] = pushChan[i]
      /\ pushChan'[k + 1] = p
  BY SeqShape DEF BackendTypeOK, CallPush
<1>3. /\ \A i \in DOMAIN pushed : pushed[i] # p
      /\ UNCHANGED <<groups, msgDst, passedOn, wire, got>>
  BY DEF CallPush
<1>4. /\ TakenCount' = TakenCount /\ TakenCount = n - k /\ TakenCount \in Nat
  BY <1>1, <1>2 DEF TakenCount, PipeInv, ChanHasRest
<1>5. \A d : Line(d)' = Line(d) BY <1>3 DEF Line
<1> HIDE DEF n, k
<1>6. \A i \in 1 .. TakenCount : i \in DOMAIN pushed /\ pushed'[i] = pushed[i]
  BY <1>1, <1>2, <1>4
<1>7. PushedOnce' BY <1>2, <1>3 DEF PipeInv, PushedOnce
<1>8. ChanHasRest'
  <2>1. \A j \in DOMAIN pushChan : /\ TakenCount + j \in DOMAIN pushed
                                   /\ pushChan[j] = pushed[TakenCount + j]
    BY <1>1, <1>4 DEF PipeInv, ChanHasRest
  <2>2. TakenCount + (k + 1) = n + 1 BY <1>1, <1>4
  <2> QED BY <1>2, <1>4, <2>1, <2>2 DEF ChanHasRest
<1>9. GroupsOfLast'
  <2>1. ASSUME NEW g \in groups
        PROVE  /\ TakenCount > 0 /\ g[1] = pushed'[TakenCount]
               /\ \A i \in DOMAIN Line(g[2]) : Line(g[2])[i].push # g[1]
    <3>1. TakenCount > 0 /\ g[1] = pushed[TakenCount] BY DEF PipeInv, GroupsOfLast
    <3>2. TakenCount \in 1 .. TakenCount BY <1>4, <3>1
    <3> QED BY <1>6, <3>1, <3>2 DEF PipeInv, GroupsOfLast
  <2> QED BY <1>3, <1>4, <1>5, <2>1 DEF GroupsOfLast
<1>10. LineWasTaken'
  <2>1. ASSUME NEW d \in Connector, NEW i \in DOMAIN Line(d)
        PROVE  /\ \E j \in 1..TakenCount : pushed'[j] = Line(d)[i].push
               /\ Line(d)[i].users = UsersAt(Line(d)[i].push, d)
               /\ passedOn \/ Line(d)[i].src = Home
    BY <1>6 DEF PipeInv, LineWasTaken
  <2> QED BY <1>3, <1>4, <1>5, <2>1 DEF LineWasTaken
<1>11. LineInOrder'
  <2>1. ASSUME NEW d \in Connector, NEW i \in DOMAIN Line(d), NEW j \in DOMAIN Line(d),
               j < i, NEW a \in DOMAIN pushed', NEW b \in DOMAIN pushed',
               pushed'[a] = Line(d)[j].push, pushed'[b] = Line(d)[i].push
        PROVE  a < b
    <3>1. Line(d)[j].push # p /\ Line(d)[i].push # p
      BY <1>3, <1>6 DEF PipeInv, LineWasTaken
    <3>2. a \in DOMAIN pushed /\ b \in DOMAIN pushed BY <1>2, <2>1, <3>1
    <3>3. pushed[a] = Line(d)[j].push /\ pushed[b] = Line(d)[i].push BY <1>2, <2>1, <3>2
    <3> QED BY <2>1, <3>2, <3>3 DEF PipeInv, LineInOrder
  <2> QED BY <1>5, <2>1 DEF LineInOrder
<1>12. HomeUnlessPassed' BY <1>3 DEF PipeInv, HomeUnlessPassed
<1> QED BY <1>7, <1>8, <1>9, <1>10, <1>11, <1>12 DEF PipeInv

LEMMA TakePushOrder ==
  ASSUME BackendTypeOK, PipeInv, TakePush
  PROVE  PipeInv'
<1> DEFINE p == Head(pushChan)
<1>1. /\ DOMAIN pushed = 1 .. Len(pushed) /\ Len(pushed) \in Nat
      /\ DOMAIN pushChan = 1 .. Len(pushChan) /\ Len(pushChan) \in Nat
  BY QueueShape
<1>2. /\ pushChan' \in Seq(PushId) /\ Len(pushChan') = Len(pushChan) - 1
      /\ \A i \in 1 .. Len(pushChan') : pushChan'[i] = pushChan[i + 1]
      /\ pushChan # <<>> /\ p = pushChan[1]
  BY HeadTailProperties DEF BackendTypeOK, TakePush
<1>3. /\ groups = {} /\ groups' = {p} \X Destinations(p)
      /\ UNCHANGED <<pushed, msgDst, passedOn, wire, got>>
  BY DEF TakePush, Served
<1> HIDE DEF p
<1>4. Len(pushChan') \in Nat /\ DOMAIN pushChan' = 1 .. Len(pushChan') BY <1>2, SeqShape
<1>5. TakenCount' = TakenCount + 1 /\ TakenCount \in Nat /\ 1 \in DOMAIN pushChan
  BY <1>1, <1>2, <1>3, <1>4 DEF TakenCount, PipeInv, ChanHasRest
<1>6. pushed[TakenCount + 1] = p /\ TakenCount + 1 \in DOMAIN pushed
  BY <1>1, <1>2, <1>5 DEF PipeInv, ChanHasRest, TakenCount
<1>7. \A d : Line(d)' = Line(d) BY <1>3 DEF Line
<1>8. \A i \in 1 .. TakenCount : i \in DOMAIN pushed /\ i \in 1 .. TakenCount'
                                 /\ i # TakenCount + 1
  BY <1>1, <1>5, <1>6
<1>9. PushedOnce' BY <1>3 DEF PipeInv, PushedOnce
<1>10. ChanHasRest'
  <2>1. ASSUME NEW j \in DOMAIN pushChan' PROVE pushChan'[j] = pushed[TakenCount' + j]
    <3>1. j + 1 \in DOMAIN pushChan /\ pushChan'[j] = pushChan[j + 1] BY <1>1, <1>2, <1>4
    <3>2. pushChan[j + 1] = pushed[TakenCount + (j + 1)] BY <3>1 DEF PipeInv, ChanHasRest
    <3>3. TakenCount + (j + 1) = TakenCount' + j BY <1>4, <1>5
    <3> QED BY <3>1, <3>2, <3>3
  <2> QED BY <1>3, <1>5, <2>1 DEF ChanHasRest
<1>11. LineWasTaken' BY <1>3, <1>7, <1>8 DEF PipeInv, LineWasTaken
<1>12. GroupsOfLast'
  <2>1. ASSUME NEW g \in groups'
        PROVE  /\ TakenCount' > 0 /\ g[1] = pushed'[TakenCount']
               /\ \A i \in DOMAIN Line(g[2]) : Line(g[2])[i].push # g[1]
    <3>1. g[1] = p /\ g[2] \in Connector
      <4>1. groups' \subseteq PushId \X Connector BY PipeType DEF BackendNext, BackendTypeOK
      <4> QED BY <1>3, <4>1
    <3>2. \A i \in DOMAIN Line(g[2]) : Line(g[2])[i].push # p
      BY <1>6, <1>8, <3>1 DEF PipeInv, LineWasTaken, PushedOnce
    <3> QED BY <1>3, <1>5, <1>6, <3>1, <3>2
  <2> QED BY <1>7, <2>1 DEF GroupsOfLast
<1>13. LineInOrder' BY <1>3, <1>7 DEF PipeInv, LineInOrder
<1>14. HomeUnlessPassed' BY <1>3 DEF PipeInv, HomeUnlessPassed
<1> QED BY <1>9, <1>10, <1>11, <1>12, <1>13, <1>14 DEF PipeInv

LEMMA PublishOrder ==
  ASSUME BackendTypeOK, PipeInv, NEW p \in PushId, NEW d \in Connector, PublishGroup(p, d)
  PROVE  PipeInv'
<1> DEFINE m == [push |-> p, users |-> UsersAt(p, d), src |-> msgDst]
<1>1. /\ <<p, d>> \in groups /\ groups' = groups \ {<<p, d>>}
      /\ wire' = wire \/ wire' = [wire EXCEPT ![d] = Append(@, m)]
      /\ UNCHANGED <<pushed, pushChan, msgDst, passedOn, got>>
  BY DEF PublishGroup
<1>2. /\ m \in Published /\ m.push = p /\ m.users = UsersAt(p, d) /\ m.src = msgDst
  BY UsersAtList DEF BackendTypeOK, Published
<1> HIDE DEF m
<1>3. /\ TakenCount' = TakenCount /\ TakenCount \in Nat /\ TakenCount > 0
      /\ p = pushed[TakenCount] /\ TakenCount \in 1 .. TakenCount
      /\ TakenCount \in DOMAIN pushed
  <2>1. TakenCount' = TakenCount BY <1>1 DEF TakenCount
  <2>2. TakenCount \in Nat /\ TakenCount > 0 /\ p = pushed[TakenCount]
    BY <1>1 DEF PipeInv, ChanHasRest, GroupsOfLast
  <2>3. TakenCount \in DOMAIN pushed BY <2>2, QueueShape DEF TakenCount
  <2> QED BY <2>1, <2>2, <2>3
<1>4. groups \subseteq PushId \X Connector BY DEF BackendTypeOK
<1>5. PushedOnce' /\ ChanHasRest' /\ HomeUnlessPassed'
  BY <1>1, <1>3 DEF PipeInv, PushedOnce, ChanHasRest, HomeUnlessPassed
<1>6. CASE wire' = wire
  <2>1. \A e : Line(e)' = Line(e) BY <1>1, <1>6 DEF Line
  <2>2. GroupsOfLast' BY <1>1, <1>3, <2>1 DEF PipeInv, GroupsOfLast
  <2>3. LineWasTaken' /\ LineInOrder'
    BY <1>1, <1>3, <2>1 DEF PipeInv, LineWasTaken, LineInOrder
  <2> QED BY <1>5, <2>2, <2>3 DEF PipeInv
<1>7. CASE wire' = [wire EXCEPT ![d] = Append(@, m)]
  <2> DEFINE n == Len(Line(d))
  <2>1. /\ \A e \in Connector \ {d} : Line(e)' = Line(e)
        /\ Line(d)' = Append(Line(d), m)
    <3>1. /\ wire'[d] = Append(wire[d], m)
          /\ got[d] \in Seq(Published) /\ wire[d] \in Seq(Published)
          /\ \A e \in Connector \ {d} : wire'[e] = wire[e]
      BY <1>7 DEF BackendTypeOK
    <3>2. got[d] \o Append(wire[d], m) = Append(got[d] \o wire[d], m)
      <4> DEFINE s == got[d]
                 t == wire[d]
      <4>1. m \in Published /\ s \in Seq(Published) /\ t \in Seq(Published) BY <1>2, <3>1
      <4> HIDE DEF s, t, Published
      <4>2. s \o Append(t, m) = Append(s \o t, m) BY ONLY <4>1, LineGrows
      <4> QED BY <4>2 DEF s, t
    <3> QED BY <1>1, <3>1, <3>2 DEF Line
  <2>2. /\ n \in Nat /\ DOMAIN Line(d) = 1 .. n
        /\ DOMAIN Line(d)' = DOMAIN Line(d) \union {n + 1}
        /\ \A i \in DOMAIN Line(d) : Line(d)'[i] = Line(d)[i]
        /\ Line(d)'[n + 1] = m
    <3>1. Line(d) \in Seq(Published) /\ n \in Nat /\ DOMAIN Line(d) = 1 .. n BY LineShape
    <3>2. /\ DOMAIN Append(Line(d), m) = DOMAIN Line(d) \union {n + 1}
          /\ \A i \in DOMAIN Line(d) : Append(Line(d), m)[i] = Line(d)[i]
          /\ Append(Line(d), m)[n + 1] = m
      BY <1>2, <3>1, SeqShape
    <3> QED BY <2>1, <3>1, <3>2
  <2> HIDE DEF n
  <2>3. GroupsOfLast'
    <3>1. ASSUME NEW g \in groups'
          PROVE  /\ TakenCount > 0 /\ g[1] = pushed[TakenCount]
                 /\ \A i \in DOMAIN Line(g[2])' : Line(g[2])'[i].push # g[1]
      <4>1. g \in groups /\ g \in PushId \X Connector /\ g # <<p, d>> BY <1>1, <1>4
      <4>2. g[1] = p BY <1>3, <4>1 DEF PipeInv, GroupsOfLast
      <4>3. g[2] \in Connector \ {d} BY <4>1, <4>2
      <4> QED BY <2>1, <4>1, <4>3 DEF PipeInv, GroupsOfLast
    <3> QED BY <1>1, <1>3, <3>1 DEF GroupsOfLast
  <2>4. LineWasTaken'
    <3>1. ASSUME NEW e \in Connector, NEW i \in DOMAIN Line(e)'
          PROVE  /\ \E k \in 1..TakenCount : pushed[k] = Line(e)'[i].push
                 /\ Line(e)'[i].users = UsersAt(Line(e)'[i].push, e)
                 /\ passedOn \/ Line(e)'[i].src = Home
      <4>1. CASE e # d BY <2>1, <4>1 DEF PipeInv, LineWasTaken
      <4>2. CASE e = d /\ i \in DOMAIN Line(d)
        BY <2>2, <4>2 DEF PipeInv, LineWasTaken
      <4>3. CASE e = d /\ i = n + 1
        BY <1>2, <1>3, <2>2, <4>3 DEF PipeInv, HomeUnlessPassed
      <4> QED BY <2>2, <4>1, <4>2, <4>3
    <3> QED BY <1>1, <1>3, <3>1 DEF LineWasTaken
  <2>5. LineInOrder'
    <3>1. ASSUME NEW e \in Connector, NEW i \in DOMAIN Line(e)', NEW j \in DOMAIN Line(e)',
                 j < i, NEW k \in DOMAIN pushed, NEW l \in DOMAIN pushed,
                 pushed[k] = Line(e)'[j].push, pushed[l] = Line(e)'[i].push
          PROVE  k < l
      <4>1. CASE e # d BY <2>1, <3>1, <4>1 DEF PipeInv, LineInOrder
      <4>2. CASE e = d /\ i \in DOMAIN Line(d)
        <5>1. j \in DOMAIN Line(d) BY <2>2, <3>1, <4>2
        <5> QED BY <2>2, <3>1, <4>2, <5>1 DEF PipeInv, LineInOrder
      <4>3. CASE e = d /\ i = n + 1
        <5>1. j \in DOMAIN Line(d) BY <2>2, <3>1, <4>3
        <5>2. pushed[k] = Line(d)[j].push /\ pushed[l] = p
          BY <1>2, <2>2, <3>1, <4>3, <5>1
        <5>3. l = TakenCount BY <1>3, <5>2 DEF PipeInv, PushedOnce
        <5>4. PICK a \in 1 .. TakenCount : pushed[a] = Line(d)[j].push
          BY <5>1 DEF PipeInv, LineWasTaken
        <5>5. a \in DOMAIN pushed BY <1>3, <5>4, QueueShape
        <5>6. a = k BY <5>2, <5>4, <5>5 DEF PipeInv, PushedOnce
        <5>7. Line(d)[j].push # p BY <1>1, <5>1 DEF PipeInv, GroupsOfLast
        <5>8. a # TakenCount BY <1>3, <5>4, <5>7
        <5> QED BY <1>3, <5>3, <5>4, <5>6, <5>8
      <4> QED BY <2>2, <4>1, <4>2, <4>3
    <3> QED BY <1>1, <3>1 DEF LineInOrder
  <2> QED BY <1>5, <2>3, <2>4, <2>5 DEF PipeInv
<1> QED BY <1>1, <1>6, <1>7

LEMMA DeliverOrder ==
  ASSUME BackendTypeOK, PipeInv, NEW d \in Connector, Deliver(d)
  PROVE  PipeInv'
<1>1. /\ wire[d] # <<>> /\ wire'[d] = Tail(wire[d])
      /\ got'[d] = Append(got[d], Head(wire[d]))
      /\ got[d] \in Seq(Published) /\ wire[d] \in Seq(Published)
      /\ \A e \in Connector \ {d} : wire'[e] = wire[e] /\ got'[e] = got[e]
      /\ UNCHANGED <<pushed, pushChan, groups, msgDst, passedOn>>
      /\ groups \subseteq PushId \X Connector
  BY DEF Deliver, BackendTypeOK
<1>2. Append(got[d], Head(wire[d])) \o Tail(wire[d]) = got[d] \o wire[d]
  BY <1>1, LineMoves
<1>3. \A e \in Connector : Line(e)' = Line(e) BY <1>1, <1>2 DEF Line
<1> QED BY <1>1, <1>3, PipeFrame

LEMMA PipeInit == BackendInit => BackendTypeOK /\ PipeInv
<1> SUFFICES ASSUME BackendInit PROVE BackendTypeOK /\ PipeInv OBVIOUS
<1>1. BackendTypeOK
  <2>1. \A S : <<>> \in Seq(S) OBVIOUS
  <2>2. pushed \in Seq(PushId) /\ pushChan \in Seq(PushId) BY <2>1 DEF BackendInit
  <2>3. wire \in [Connector -> Seq(Published)] /\ got \in [Connector -> Seq(Published)]
    BY <2>1 DEF BackendInit
  <2>4. Len(pushChan) <= PushChanCap
    <3>1. Len(<<>>) = 0 OBVIOUS
    <3> QED BY <3>1, PushAssumption DEF BackendInit
  <2>5. backlog \in [Connector -> 0..RemoteCap]
    BY PushAssumption DEF BackendInit
  <2>6. groups = {} /\ msgDst \in Backends /\ passedOn \in BOOLEAN
    BY PushAssumption DEF BackendInit
  <2> QED BY <2>2, <2>3, <2>4, <2>5, <2>6 DEF BackendTypeOK
<1>2. Len(<<>>) = 0 /\ DOMAIN <<>> = {} OBVIOUS
<1>3. \A d \in Connector : Line(d) = <<>>
  <2>1. <<>> \o <<>> = <<>> BY ConcatEmptySeq
  <2> QED BY <2>1 DEF BackendInit, Line
<1>4. TakenCount = 0 BY <1>2 DEF BackendInit, TakenCount
<1>5. LineWasTaken /\ LineInOrder BY <1>2, <1>3 DEF LineWasTaken, LineInOrder
<1> QED BY <1>1, <1>2, <1>4, <1>5 DEF BackendInit, PipeInv, PushedOnce, ChanHasRest,
                                  GroupsOfLast, HomeUnlessPassed

LEMMA PipeStep ==
  BackendTypeOK /\ PipeInv /\ [BackendNext]_backendVars => BackendTypeOK' /\ PipeInv'
<1> SUFFICES ASSUME BackendTypeOK, PipeInv, [BackendNext]_backendVars
             PROVE  BackendTypeOK' /\ PipeInv'
  OBVIOUS
<1>1. groups \subseteq PushId \X Connector BY DEF BackendTypeOK
<1>2. CASE UNCHANGED backendVars
  <2>1. BackendTypeOK' BY <1>2 DEF BackendTypeOK, backendVars
  <2>2. \A d : Line(d)' = Line(d) BY <1>2 DEF Line, backendVars
  <2> QED BY <1>1, <1>2, <2>1, <2>2, PipeFrame DEF backendVars
<1>3. ASSUME NEW s \in Backends, SendProxy(s) PROVE PipeInv'
  <2>1. \A d : Line(d)' = Line(d) BY <1>3 DEF Line, SendProxy
  <2> QED BY <1>1, <1>3, <2>1, PipeFrame DEF SendProxy
<1>4. ASSUME NEW d \in Connector, Consume(d) PROVE PipeInv'
  <2>1. \A e : Line(e)' = Line(e) BY <1>4 DEF Line, Consume
  <2> QED BY <1>1, <1>4, <2>1, PipeFrame DEF Consume
<1>5. CASE BackendNext
  BY <1>3, <1>4, <1>5, PipeType, TakePushOrder, CallPushOrder, PublishOrder, DeliverOrder
  DEF BackendNext
<1> QED BY <1>2, <1>5

(* pushChan and RemoteReadChan keep to their capacity, and messages their  *)
(* types.                                                                  *)
THEOREM BackendTypeCorrect == BackendSpec => []BackendTypeOK
BY PipeInit, PipeStep, PTL DEF BackendSpec

(* What a connector gets of the pushes keeps the order in which Push took  *)
(* them, names its users, and has this server as its source unless the     *)
(* message was passed on (pusher.go:47-60, session.go:96): one goroutine   *)
(* publishes, push after push, and NATS keeps the order of one publisher.  *)
THEOREM PushesOrdered == BackendSpec => []PushesArriveInOrder
<1>1. BackendTypeOK /\ PipeInv => PushesArriveInOrder
  <2> SUFFICES ASSUME BackendTypeOK, PipeInv, NEW d \in Connector, NEW i \in DOMAIN got[d]
               PROVE  /\ got[d][i].users = UsersAt(got[d][i].push, d)
                      /\ passedOn \/ got[d][i].src = Home
                      /\ \A j \in 1..(i - 1) : \A k, l \in DOMAIN pushed :
                             PushedAt(got[d][j].push, k) /\ PushedAt(got[d][i].push, l)
                             => k < l
    BY DEF PushesArriveInOrder
  <2>1. \A j \in DOMAIN got[d] : j \in DOMAIN Line(d) /\ Line(d)[j] = got[d][j]
    BY LineShape
  <2>2. \A j \in 1..(i - 1) : j \in DOMAIN got[d] /\ j < i
    <3>1. got[d] \in Seq(Published) BY DEF BackendTypeOK
    <3>2. DOMAIN got[d] = 1 .. Len(got[d]) /\ Len(got[d]) \in Nat BY <3>1, SeqShape
    <3> QED BY <3>2
  <2>3. /\ got[d][i].users = UsersAt(got[d][i].push, d)
        /\ passedOn \/ got[d][i].src = Home
    BY <2>1 DEF PipeInv, LineWasTaken
  <2> QED BY <2>1, <2>2, <2>3 DEF PipeInv, LineInOrder, PushedAt
<1> QED BY <1>1, PipeInit, PipeStep, PTL DEF BackendSpec

(* What a connector gets names all users of the push that are there, and   *)
(* no others, however many the call lists (pusher.go:47-60).               *)
UsersNamed(m, d) ==
    {m.users[k] : k \in DOMAIN m.users}
        = {Users[m.push][j][1] : j \in {i \in DOMAIN Users[m.push] : Users[m.push][i][2] = d}}

AllUsersNamed == \A d \in Connector : \A i \in DOMAIN got[d] : UsersNamed(got[d][i], d)

THEOREM PushesNameTheirUsers == BackendSpec => []AllUsersNamed
<1>1. BackendTypeOK /\ PipeInv => AllUsersNamed
  <2> SUFFICES ASSUME BackendTypeOK, PipeInv, NEW d \in Connector, NEW i \in DOMAIN got[d]
               PROVE  UsersNamed(got[d][i], d)
    BY DEF AllUsersNamed
  <2> DEFINE m == got[d][i]
  <2>1. i \in DOMAIN Line(d) /\ Line(d)[i] = m /\ m \in Published  BY LineShape
  <2>2. m.push \in PushId /\ m.users = UsersAt(m.push, d)
    BY <2>1 DEF PipeInv, LineWasTaken, Published
  <2> HIDE DEF m
  <2> DEFINE p == m.push
  <2>3. /\ \A k \in DOMAIN m.users :
              \E j \in DOMAIN Users[p] : Users[p][j] = <<m.users[k], d>>
        /\ \A j \in DOMAIN Users[p] : Users[p][j][2] = d =>
              \E k \in DOMAIN m.users : m.users[k] = Users[p][j][1]
    <3>1. p \in PushId /\ m.users = UsersAt(p, d)  BY <2>2
    <3> HIDE DEF p
    <3>2. /\ \A k \in DOMAIN UsersAt(p, d) :
                \E j \in DOMAIN Users[p] : Users[p][j] = <<UsersAt(p, d)[k], d>>
          /\ \A j \in DOMAIN Users[p] : Users[p][j][2] = d =>
                \E k \in DOMAIN UsersAt(p, d) : UsersAt(p, d)[k] = Users[p][j][1]
      BY <3>1, UsersAtList
    <3> QED BY <3>1, <3>2
  <2>4. \A j \in DOMAIN Users[m.push] : Users[m.push][j][2] = d =>
           \E k \in DOMAIN m.users : m.users[k] = Users[m.push][j][1]
    BY <2>3
  <2>5. ASSUME NEW k \in DOMAIN m.users
        PROVE  \E j \in DOMAIN Users[m.push] : /\ Users[m.push][j][2] = d
                                               /\ Users[m.push][j][1] = m.users[k]
    <3> DEFINE u == m.users[k]
    <3>1. PICK j \in DOMAIN Users[m.push] : Users[m.push][j] = <<u, d>>  BY <2>3
    <3> HIDE DEF u
    <3>2. Users[m.push][j][2] = d /\ Users[m.push][j][1] = u  BY <3>1
    <3> QED BY <3>2 DEF u
  <2>6. UsersNamed(m, d)  BY <2>4, <2>5 DEF UsersNamed
  <2> QED BY <2>6 DEF m
<1> QED BY <1>1, PipeInit, PipeStep, PTL DEF BackendSpec
============================================================================
