---------------------------- MODULE LoadBalance ----------------------------
(***************************************************************************)
(* How a connector chooses the backend server for a message:               *)
(*   framework/game/config.go                 the list of servers, read at *)
(*                                            start and on every change of *)
(*                                            servers.json                 *)
(*   framework/net/load_balance_strategy.go   selectDst and its strategies *)
(*                                                                         *)
(* The goroutine of the file watcher rewrites the ServersConfig structs one *)
(* by one and then replaces the list, while workers choose from what they   *)
(* have read of it without a lock; the state of the strategies (lbState) is *)
(* under a mutex of its own and outlives the list it was made for.  The     *)
(* strategy, the loads and the request context are set by the program that  *)
(* embeds the connector.  A selection reads the structs of its list at one  *)
(* moment, and an id whole.                                                 *)
(***************************************************************************)
EXTENDS Integers, Sequences, FiniteSets

CONSTANTS
    Choice,       \* calls of selectDst, each once
    ServerType,   \* asked for by a call
    TypeAsked,
    Server,
    TypeOf,       \* ServersConfig.ServerType of a server
    Files,        \* lists servers.json may hold, the first one first
    Points,       \* hashes of the virtual nodes of a server
    HashKey,      \* user ids and addresses a context may carry
    KeyHash,
    Reports,      \* bound: pairs of a server and a load that are reported
    Unset,        \* no server, no key, no ring
    Panic         \* index out of range

ASSUME ServerAssumption ==
    /\ TypeOf \in [Server -> ServerType]
    /\ TypeAsked \in [Choice -> ServerType]
    /\ Files \in Seq(Seq(Server)) /\ Len(Files) > 0
ASSUME HashAssumption ==
    /\ Points \in [Server -> SUBSET Nat] /\ KeyHash \in [HashKey -> Nat]
    /\ \A s \in Server : Points[s] # {}
ASSUME ReportAssumption == Reports \subseteq Server \X Nat
ASSUME UnsetAssumption == /\ Unset \notin Server \union HashKey
                          /\ Panic \notin Server \union {Unset}

Strategies == {"random", "round_robin", "weighted_round_robin",
               "least_connection", "consistent_hash", "ip_hash"}

VARIABLES
    file,           \* servers.json: index into Files
    parsed,         \* the version viper holds
    decoding,       \* entry the watcher decodes next, 0: no change at hand
    startup,        \* InitConfig: reading, grouping, done
    conf,           \* Conf.ServersConf: Servers and TypeServer, by place
    element,        \* what the struct of a place holds
    strategy, roundRobinIdx, hashRing, serverLoads,   \* lbState
    currentContext,
    at,             \* where a call of selectDst stands
    seen,           \* list it has read
    chosen,         \* its result
    turns           \* history: picks of a server by round robin

configVars == <<file, parsed, decoding, startup, conf, element>>
lbState == <<strategy, roundRobinIdx, hashRing, serverLoads>>
calls == <<at, seen, chosen>>
lbVars == <<configVars, lbState, currentContext, calls, turns>>

Elements(L) == {L[i] : i \in DOMAIN L}

(* The struct allocated for entry i of version k: lists hold pointers.     *)
Place == UNION {{k} \X DOMAIN Files[k] : k \in DOMAIN Files}
Values(L) == [i \in DOMAIN L |-> element[L[i]]]

(* The servers of a type, appended one by one. *)
OfType(L, t) ==
    LET list[i \in 0..Len(L)] ==
            IF i = 0 THEN <<>>
            ELSE IF TypeOf[element[L[i]]] = t THEN Append(list[i - 1], L[i])
            ELSE list[i - 1]
    IN list[Len(L)]

(* TypeServer has an entry for a type only if there is a server of it. *)
NoTypes == [t \in {} |-> <<>>]
Grouped(types, L) ==
    [t \in DOMAIN types \union {TypeOf[element[p]] : p \in Elements(L)} |->
        (IF t \in DOMAIN types THEN types[t] ELSE <<>>) \o OfType(L, t)]

LBInit ==
    /\ file = 1 /\ parsed = 1 /\ decoding = 0 /\ startup = "reading"
    /\ conf = [servers |-> <<>>, types |-> NoTypes]
    /\ element = [p \in Place |-> Files[p[1]][p[2]]]
    /\ strategy = "random" /\ serverLoads = [s \in {} |-> 0]
    /\ roundRobinIdx = [t \in ServerType |-> 0]
    /\ hashRing = [t \in ServerType |-> Unset]
    /\ currentContext = Unset
    /\ at = [c \in Choice |-> "new"]
    /\ seen = [c \in Choice |-> <<>>]
    /\ chosen = [c \in Choice |-> Unset]
    /\ turns = [p \in Place |-> 0]

----------------------------------------------------------------------------
(* The operators named Mutant... are defects the properties are tested     *)
(* against, and are used by no specification.                              *)

(* The list of servers.  The watcher runs before the file is read for the  *)
(* first time; changes during that reading are left out.                   *)

ReadServersConfig ==
    /\ startup = "reading"
    /\ startup' = "grouping" /\ parsed' = file
    /\ conf' = [servers |-> [i \in DOMAIN Files[file] |-> <<file, i>>], types |-> NoTypes]
    /\ UNCHANGED <<file, decoding, element, lbState, currentContext, calls, turns>>

TypeServersConfig ==
    /\ startup = "grouping"
    /\ startup' = "done"
    /\ conf' = [conf EXCEPT !.types = Grouped(@, conf.servers)]
    /\ UNCHANGED <<file, parsed, decoding, element, lbState, currentContext, calls, turns>>

EditFile ==
    /\ file < Len(Files)
    /\ file' = file + 1
    /\ UNCHANGED <<parsed, decoding, startup, conf, element, lbState, currentContext,
                   calls, turns>>

(* A file that cannot be parsed yet leaves what was read before, and the   *)
(* callback runs all the same.                                             *)
WatchConfig ==
    /\ file > 1 /\ startup # "reading" /\ decoding = 0
    /\ parsed' \in {parsed, file}
    /\ decoding' = 1
    /\ UNCHANGED <<file, startup, conf, element, lbState, currentContext, calls, turns>>

(* Unmarshal decodes into the captured list, which is the one in use: an   *)
(* entry into the struct that is there, one past the end into a new one.   *)
PlaceOf(i) == IF i \in DOMAIN conf.servers THEN conf.servers[i] ELSE <<parsed, i>>

DecodeServer ==
    /\ decoding \in DOMAIN Files[parsed]
    /\ element' = [element EXCEPT ![PlaceOf(decoding)] = Files[parsed][decoding]]
    /\ decoding' = decoding + 1
    /\ UNCHANGED <<file, parsed, startup, conf, lbState, currentContext, calls, turns>>

(* The captured list is assigned as it is; TypeServer was never set in it, *)
(* and nothing groups the servers again.                                   *)
Decoded == [i \in DOMAIN Files[parsed] |-> PlaceOf(i)]

(* Mutant: the new servers are grouped, but the index of round robin and   *)
(* the rings stay.                                                         *)
MutantOnConfigChange ==
    /\ decoding = Len(Files[parsed]) + 1
    /\ decoding' = 0
    /\ conf' = [servers |-> Decoded, types |-> Grouped(NoTypes, Decoded)]
    /\ UNCHANGED <<file, parsed, startup, element, lbState, currentContext, calls, turns>>

OnConfigChange ==
    /\ decoding = Len(Files[parsed]) + 1
    /\ decoding' = 0
    /\ conf' = [servers |-> Decoded, types |-> NoTypes]
    /\ UNCHANGED <<file, parsed, startup, element, lbState, currentContext, calls, turns>>

----------------------------------------------------------------------------
(* What the embedding program sets *)

SetLoadBalanceStrategy(s) ==
    /\ strategy' = s
    /\ UNCHANGED <<configVars, roundRobinIdx, hashRing, serverLoads, currentContext,
                   calls, turns>>

UpdateServerLoad(s, load) ==
    /\ serverLoads' = [x \in DOMAIN serverLoads \union {s} |->
                          IF x = s THEN load ELSE serverLoads[x]]
    /\ UNCHANGED <<configVars, strategy, roundRobinIdx, hashRing, currentContext,
                   calls, turns>>

(* The keys of the two context values are equal (struct{}{}), so that a    *)
(* context carries one value: the user id or the address put in last.      *)
SetRequestContext(key) ==
    /\ currentContext' = key
    /\ UNCHANGED <<configVars, lbState, calls, turns>>

----------------------------------------------------------------------------
(* selectDst *)

Load(s) == IF s \in DOMAIN serverLoads THEN serverLoads[s] ELSE 0

(* A server without a reported load is always taken, with load 0, and so   *)
(* is a later one with a smaller load than that of the one before it.      *)
LeastLoaded(L) ==
    LET pick[i \in 0..Len(L)] ==
            IF i = 0 THEN [min |-> -1, server |-> Unset]
            ELSE LET p == pick[i - 1]
                     better == \/ L[i] \notin DOMAIN serverLoads
                               \/ p.min = -1
                               \/ Load(L[i]) < p.min
                 IN IF better THEN [min |-> Load(L[i]), server |-> L[i]] ELSE p
    IN pick[Len(L)].server

(* A ring is the list it was made of.  A point that two servers share      *)
(* belongs to the later one; a key to the first point not before it.       *)
RingPoints(L) == UNION {Points[s] : s \in Elements(L)}
OwnerOf(L, p) == L[CHOOSE i \in DOMAIN L :
                      /\ p \in Points[L[i]]
                      /\ \A j \in DOMAIN L : p \in Points[L[j]] => j <= i]
PointOf(L, key) ==
    LET after == {p \in RingPoints(L) : p >= KeyHash[key]}
        from == IF after = {} THEN RingPoints(L) ELSE after
    IN CHOOSE p \in from : \A q \in from : p <= q
ConsistentHash(L, key) == OwnerOf(L, PointOf(L, key))

ListServers(c) ==
    /\ at[c] = "new" /\ startup = "done"
    /\ LET t == TypeAsked[c]
           L == IF t \in DOMAIN conf.types THEN conf.types[t] ELSE <<>>
       IN /\ seen' = [seen EXCEPT ![c] = L]
          /\ at' = [at EXCEPT ![c] = IF L = <<>> THEN "done" ELSE "listed"]
    /\ UNCHANGED <<configVars, lbState, currentContext, chosen, turns>>

(* The strategy is read under the lock and used after it is released; as   *)
(* it may change at any time, reading it with the selection leaves out no  *)
(* sequence of results.                                                    *)
Answer(c, s) ==
    /\ at' = [at EXCEPT ![c] = "done"]
    /\ chosen' = [chosen EXCEPT ![c] = s]
    /\ UNCHANGED <<configVars, strategy, serverLoads, currentContext, seen>>

SelectOnlyServer(c) ==
    /\ at[c] = "listed" /\ Len(seen[c]) = 1
    /\ Answer(c, element[seen[c][1]])
    /\ UNCHANGED <<roundRobinIdx, hashRing, turns>>

Asking(c, by) == at[c] = "listed" /\ Len(seen[c]) > 1 /\ strategy \in by
Hashing == {"consistent_hash", "ip_hash"}

(* The weights of the weighted strategy are all 1. *)
SelectRandomServer(c) ==
    /\ \/ Asking(c, {"random", "weighted_round_robin"})
       \/ Asking(c, Hashing) /\ currentContext = Unset
    /\ \E p \in Elements(seen[c]) : Answer(c, element[p])
    /\ UNCHANGED <<roundRobinIdx, hashRing, turns>>

(* Mutant: the last server of the list never has its turn. *)
MutantNextIndex(t, L) == (roundRobinIdx[t] + 1) % (Len(L) - 1)

NextIndex(t, L) == (roundRobinIdx[t] + 1) % Len(L)

SelectRoundRobinServer(c) ==
    /\ Asking(c, {"round_robin"})
    /\ LET t == TypeAsked[c]
           L == seen[c]
           i == roundRobinIdx[t] + 1
       IN /\ roundRobinIdx' = [roundRobinIdx EXCEPT ![t] = NextIndex(t, L)]
          /\ IF i \in DOMAIN L
             THEN Answer(c, element[L[i]]) /\ turns' = [turns EXCEPT ![L[i]] = @ + 1]
             ELSE Answer(c, Panic) /\ UNCHANGED turns
    /\ UNCHANGED hashRing

SelectLeastConnectionServer(c) ==
    /\ Asking(c, {"least_connection"})
    /\ Answer(c, LeastLoaded(Values(seen[c])))
    /\ UNCHANGED <<roundRobinIdx, hashRing, turns>>

(* The ring of a type is made once, of the ids in the list of the first    *)
(* call.                                                                   *)
RingFor(t, L) == IF hashRing[t] = Unset THEN Values(L) ELSE hashRing[t]
SelectConsistentHashServer(c) ==
    /\ Asking(c, Hashing) /\ currentContext # Unset
    /\ LET t == TypeAsked[c]
           ring == RingFor(t, seen[c])
       IN /\ hashRing' = [hashRing EXCEPT ![t] = ring]
          /\ Answer(c, ConsistentHash(ring, currentContext))
    /\ UNCHANGED <<roundRobinIdx, turns>>

----------------------------------------------------------------------------
LBNext ==
    \/ ReadServersConfig \/ TypeServersConfig
    \/ EditFile \/ WatchConfig \/ DecodeServer \/ OnConfigChange
    \/ \E s \in Strategies : SetLoadBalanceStrategy(s)
    \/ \E p \in Reports : UpdateServerLoad(p[1], p[2])
    \/ \E k \in HashKey : SetRequestContext(k)
    \/ \E c \in Choice :
        \/ ListServers(c) \/ SelectOnlyServer(c) \/ SelectRandomServer(c)
        \/ SelectRoundRobinServer(c) \/ SelectLeastConnectionServer(c)
        \/ SelectConsistentHashServer(c)

LBSpec == LBInit /\ [][LBNext]_lbVars

----------------------------------------------------------------------------
LBTypeOK ==
    /\ file \in DOMAIN Files /\ startup \in {"reading", "grouping", "done"}
    /\ parsed \in DOMAIN Files /\ decoding \in 0..(Len(Files[parsed]) + 1)
    /\ startup = "reading" => decoding = 0
    /\ conf.servers \in Seq(Place)
    /\ DOMAIN conf.types \subseteq ServerType
    /\ element \in [Place -> Server]
    /\ strategy \in Strategies
    /\ roundRobinIdx \in [ServerType -> Nat]
    /\ hashRing \in [ServerType -> {Unset} \union Seq(Server)]
    /\ DOMAIN serverLoads \subseteq Server
    /\ currentContext \in HashKey \union {Unset}
    /\ at \in [Choice -> {"new", "listed", "done"}]
    /\ seen \in [Choice -> Seq(Place)]
    /\ chosen \in [Choice -> Server \union {Unset, Panic}]
    /\ turns \in [Place -> Nat]

(* What the file may hold at a place of a list, now or later. *)
EntriesAt(i) == {Files[k][i] : k \in {m \in DOMAIN Files : i \in DOMAIN Files[m]}}
TypesKept == \A k \in DOMAIN Files : \A i \in DOMAIN Files[k] :
                 \A s \in EntriesAt(i) : TypeOf[s] = TypeOf[Files[k][i]]

(* The server a call gets is one that some version of the file has at a    *)
(* place of the list the call has read, and of the type asked for if no    *)
(* change gives an entry another type: although the watcher rewrites the   *)
(* list while the call chooses from it, and the index of round robin and   *)
(* the hash ring were made for the list of some earlier call.  The only    *)
(* reason is that a change leaves no list to read (config.go:83): if it    *)
(* grouped the new servers, load_balance_strategy.go:133 and 187 would     *)
(* have to forget the old ones.                                            *)
DestinationIsListed ==
    \A c \in Choice : chosen[c] # Unset =>
        /\ \E p \in Elements(seen[c]) : chosen[c] \in EntriesAt(p[2])
        /\ TypesKept => TypeOf[chosen[c]] = TypeAsked[c]

(* Round robin gives every place in the list of a type its turn, however   *)
(* calls, other strategies and changes of the file interleave: two places  *)
(* of a list are at most one turn apart.                                   *)
RoundRobinBalanced ==
    \A c \in Choice : \A i, j \in DOMAIN seen[c] :
        i < j => turns[seen[c][i]] - turns[seen[c][j]] \in {0, 1}
=============================================================================
