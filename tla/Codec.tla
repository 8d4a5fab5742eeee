------------------------------- MODULE Codec -------------------------------
(***************************************************************************)
(* The wire protocol: packets, messages, and the dictionary of route codes *)
(* (framework/protocol/protocol.go, tools.go).                             *)
(*                                                                         *)
(* The dictionary is one for the process.  A client's handshake adds its   *)
(* routes to it while other workers encode and decode, without a lock; the *)
(* two maps are read and written in steps of their own here (the runtime   *)
(* may also detect such writes and end the process).  What a client writes *)
(* and reads follows the format in the comment of MessageDecode and the    *)
(* client's own dictionary.  Bytes are kept where a boundary matters: the  *)
(* id, the length of a route, the length of a packet.                      *)
(***************************************************************************)
EXTENDS Integers, Sequences, FiniteSets

CONSTANTS
    Client,       \* each shakes hands once
    Dict,         \* Sys.Dict of a client's handshake: pairs of route and code
    Route,
    RouteLen,     \* bytes in a route
    Code,
    Message,      \* messages that are sent in either direction
    Size          \* bytes in the body of a message's packet

ASSUME DictAssumption ==
    /\ Dict \in [Client -> SUBSET (Route \X Code)]
    /\ \A c \in Client : IsFiniteSet(Dict[c])
    /\ RouteLen \in [Route -> Nat] /\ Size \in [Message -> Nat]
ASSUME MessageTypeAssumption ==
    \A m \in Message : /\ m.type \in {"request", "notify", "response", "push"}
                       /\ m.id \in Nat /\ m.route \in Route

VARIABLES
    routes, codes,   \* the dictionary, both ways
    handshake,       \* SetDictionary of a client: not begun, under way, done
    entries,         \* of its dictionary: entries it has not looked at yet
    entry,           \* the entry it has found new and not written yet
    overlap,         \* history: two calls of SetDictionary overlapped
    last             \* history: the last message and what was made of it

codecVars == <<routes, codes, handshake, entries, entry, overlap, last>>

NoEntry == <<>>
NoMessage == [way |-> "none"]
Bound(f, x) == x \in DOMAIN f
With(f, x, y) == [z \in DOMAIN f \union {x} |-> IF z = x THEN y ELSE f[z]]

CodecInit ==
    /\ routes = [r \in {} |-> 0] /\ codes = [c \in {} |-> 0]
    /\ handshake = [c \in Client |-> "new"]
    /\ entries = [c \in Client |-> {}]
    /\ entry = [c \in Client |-> NoEntry]
    /\ overlap = FALSE
    /\ last = NoMessage

----------------------------------------------------------------------------
(* The operators named Mutant... are defects the properties are tested     *)
(* against, and are used by no specification.                              *)

(* SetDictionary *)

Begin(c) ==
    /\ handshake[c] = "new"
    /\ handshake' = [handshake EXCEPT ![c] = "setting"]
    /\ entries' = [entries EXCEPT ![c] = Dict[c]]
    /\ overlap' = (overlap \/ \E d \in Client : handshake[d] = "setting")
    /\ UNCHANGED <<routes, codes, entry, last>>

(* Go iterates over the map in any order, and returns at the first route   *)
(* or code that is taken: what was written before stays, what comes after  *)
(* is left out.                                                            *)
Check(c) ==
    /\ handshake[c] = "setting" /\ entry[c] = NoEntry
    /\ \E e \in entries[c] :
        IF Bound(routes, e[1]) \/ Bound(codes, e[2])
        THEN /\ handshake' = [handshake EXCEPT ![c] = "done"]
             /\ UNCHANGED <<entries, entry>>
        ELSE /\ entry' = [entry EXCEPT ![c] = <<"routes", e>>]
             /\ entries' = [entries EXCEPT ![c] = @ \ {e}]
             /\ UNCHANGED handshake
    /\ UNCHANGED <<routes, codes, overlap, last>>

WriteRoutes(c) ==
    /\ entry[c] # NoEntry /\ entry[c][1] = "routes"
    /\ LET e == entry[c][2]
       IN /\ routes' = With(routes, e[1], e[2])
          /\ entry' = [entry EXCEPT ![c] = <<"codes", e>>]
    /\ UNCHANGED <<codes, handshake, entries, overlap, last>>

WriteCodes(c) ==
    /\ entry[c] # NoEntry /\ entry[c][1] = "codes"
    /\ LET e == entry[c][2] IN codes' = With(codes, e[2], e[1])
    /\ entry' = [entry EXCEPT ![c] = NoEntry]
    /\ UNCHANGED <<routes, handshake, entries, overlap, last>>

AllSet(c) ==
    /\ handshake[c] = "setting" /\ entry[c] = NoEntry /\ entries[c] = {}
    /\ handshake' = [handshake EXCEPT ![c] = "done"]
    /\ UNCHANGED <<routes, codes, entries, entry, overlap, last>>

----------------------------------------------------------------------------
(* Messages *)

HasId(type) == type \in {"request", "response"}
HasRoute(type) == type \in {"request", "notify", "push"}

(* Mutant: 128 is taken to fit into the last byte. *)
MutantEncodeId(id) ==
    LET bytes[n \in 0..id] ==
            IF n <= 128 THEN <<n>> ELSE <<128 + (n % 128)>> \o bytes[n \div 128]
    IN bytes[id]

(* Seven bits to a byte, the lowest first; the high bit: more follow. *)
EncodeId(id) ==
    LET bytes[n \in 0..id] ==
            IF n < 128 THEN <<n>> ELSE <<128 + (n % 128)>> \o bytes[n \div 128]
    IN bytes[id]
DecodeId(bytes) ==
    LET from[i \in DOMAIN bytes] ==
            (bytes[i] % 128)
            + (IF bytes[i] < 128 \/ i = Len(bytes) THEN 0 ELSE 128 * from[i + 1])
    IN from[1]

(* A route that is not in the dictionary is written out after its length,  *)
(* which is cut to one byte.                                               *)
EncodeRoute(route, dict) ==
    IF Bound(dict, route) THEN [code |-> dict[route]]
    ELSE [text |-> route, len |-> RouteLen[route] % 256]

MessageEncode(m, dict) ==
    [type |-> m.type,
     compressed |-> Bound(dict, m.route),
     id |-> IF HasId(m.type) THEN EncodeId(m.id) ELSE <<>>,
     route |-> IF HasRoute(m.type) THEN EncodeRoute(m.route, dict) ELSE <<>>]

(* With too short a length the rest of the route is read as data. *)
Garbled == [type |-> "garbled"]
Unknown == [type |-> "unknown"]
MessageDecode(w, names) ==
    LET id == IF HasId(w.type) THEN DecodeId(w.id) ELSE 0
    IN IF ~HasRoute(w.type) THEN [type |-> w.type, id |-> id]
       ELSE IF w.compressed /\ ~Bound(names, w.route.code) THEN Unknown
       ELSE IF w.compressed
            THEN [type |-> w.type, id |-> id, route |-> names[w.route.code]]
       ELSE IF w.route.len # RouteLen[w.route.text] THEN Garbled
       ELSE [type |-> w.type, id |-> id, route |-> w.route.text]

(* What a decoded message should say: the id of one that has an id, the    *)
(* route of one that has a route.                                          *)
Meaning(m) ==
    LET id == IF HasId(m.type) THEN m.id ELSE 0
    IN IF HasRoute(m.type) THEN [type |-> m.type, id |-> id, route |-> m.route]
       ELSE [type |-> m.type, id |-> id]

----------------------------------------------------------------------------
(* Packets: three bytes of length *)

MaxPacketSize == 16777216   \* 1<<24
IntToBytes(n) == <<(n \div 65536) % 256, (n \div 256) % 256, n % 256>>
BytesToInt(b) == b[1] * 65536 + b[2] * 256 + b[3]

TooBig == -1
Encode(size) == IF size > MaxPacketSize THEN TooBig ELSE BytesToInt(IntToBytes(size))

----------------------------------------------------------------------------
OwnRoutes(c) == [r \in {e[1] : e \in Dict[c]} |-> (CHOOSE e \in Dict[c] : e[1] = r)[2]]
OwnCodes(c) == [k \in {e[2] : e \in Dict[c]} |-> (CHOOSE e \in Dict[c] : e[2] = k)[1]]

(* A client sends after its handshake was handled. *)
Receive(c, m) ==
    /\ handshake[c] = "done"
    /\ m.type \in {"request", "notify"}
    /\ last' = [way |-> "in", client |-> c, message |-> m, size |-> Size[m],
                got |-> MessageDecode(MessageEncode(m, OwnRoutes(c)), codes)]
    /\ UNCHANGED <<routes, codes, handshake, entries, entry, overlap>>

SendTo(c, m) ==
    /\ handshake[c] = "done"
    /\ m.type \in {"response", "push"}
    /\ last' = [way |-> "out", client |-> c, message |-> m, size |-> Encode(Size[m]),
                got |-> MessageDecode(MessageEncode(m, routes), OwnCodes(c))]
    /\ UNCHANGED <<routes, codes, handshake, entries, entry, overlap>>

CodecNext == \E c \in Client :
    \/ Begin(c) \/ Check(c) \/ WriteRoutes(c) \/ WriteCodes(c) \/ AllSet(c)
    \/ \E m \in Message : Receive(c, m) \/ SendTo(c, m)

CodecSpec == CodecInit /\ [][CodecNext]_codecVars

----------------------------------------------------------------------------
CodecTypeOK ==
    /\ DOMAIN routes \subseteq Route /\ \A r \in DOMAIN routes : routes[r] \in Code
    /\ DOMAIN codes \subseteq Code /\ \A k \in DOMAIN codes : codes[k] \in Route
    /\ handshake \in [Client -> {"new", "setting", "done"}]
    /\ \A c \in Client : entries[c] \subseteq Dict[c]
    /\ overlap \in BOOLEAN

Entries == UNION {Dict[c] : c \in {d \in Client : handshake[d] # "new"}}

(* The handshakes that have begun brought one dictionary; or dictionaries  *)
(* that do not contradict each other.                                      *)
OneDictionary ==
    \A c \in Client : handshake[c] # "new" => Dict[c] = Entries
Compatible == \A e, f \in Entries : e[1] = f[1] <=> e[2] = f[2]

(* A message means to its receiver what it meant to its sender, or is      *)
(* refused, under every interleaving of handshakes whose dictionaries do   *)
(* not contradict each other, if its route has less than 256 bytes; it is  *)
(* refused only if handshakes overlapped or brought different routes; and  *)
(* its packet says how long it is, unless that is exactly 1<<24            *)
(* (protocol.go:132, 321).                                                 *)
MessagesKeepMeaning ==
    last # NoMessage /\ Compatible /\ RouteLen[last.message.route] < 256 =>
        /\ last.got \in {Meaning(last.message), Unknown}
        /\ last.got = Unknown => overlap \/ ~OneDictionary
        /\ last.size \in {Size[last.message], TooBig} \/ Size[last.message] = MaxPacketSize
=============================================================================
