-------------------------------- MODULE Backend --------------------------------
(***************************************************************************)
(* How a backend server pushes to the users of several connectors:         *)
(*   framework/pusher/pusher.go     Push, pushChanRead                     *)
(*   framework/remote/session.go    SendProxy and Dispatch of the session  *)
(*                                  whose message the pushes refer to      *)
(*   framework/remote/nats.go       publish; the subscription that feeds   *)
(*                                  RemoteReadChan of a connector          *)
(*                                                                         *)
(* Handlers call Push from goroutines of their own; one goroutine serves   *)
(* the calls.  NATS, external, keeps the order of one publisher, stores    *)
(* nothing, and may lose a message.  SendMsg of a client that never        *)
(* connected loses them all, without an error.                             *)
(***************************************************************************)
EXTENDS Naturals, Sequences

CONSTANTS
    PushId,       \* calls of Push, each once
    Player,
    Connector,
    Users,        \* of a push: pairs of a user and the user's connector
    Backends,     \* servers a session's message may be passed on to
    Home,         \* this server
    PushChanCap,  \* capacity of pushChan (1024)
    RemoteCap     \* of a connector's RemoteReadChan (2048)

ASSUME PushAssumption ==
    /\ Users \in [PushId -> Seq(Player \X Connector)]
    /\ Home \in Backends
    /\ PushChanCap \in Nat \ {0} /\ RemoteCap \in Nat \ {0}

VARIABLES
    pushed,       \* history: the pushes in the order in which pushChan took them
    pushChan,
    groups,       \* pushChanRead: pairs of the push and a connector to go to
    msgDst,       \* Dst of the session's message
    passedOn,     \* history: the message has been passed on
    wire,         \* NATS: published for a connector, not yet delivered
    backlog,      \* number of messages in a connector's RemoteReadChan
    got           \* history: what came into a connector's RemoteReadChan

backendVars == <<pushed, pushChan, groups, msgDst, passedOn, wire, backlog, got>>

BackendInit ==
    /\ pushed = <<>> /\ pushChan = <<>> /\ groups = {}
    /\ msgDst = Home /\ passedOn = FALSE
    /\ wire = [d \in Connector |-> <<>>] /\ backlog = [d \in Connector |-> 0]
    /\ got = [d \in Connector |-> <<>>]

----------------------------------------------------------------------------
PushedAt(p, i) == i \in DOMAIN pushed /\ pushed[i] = p
Destinations(p) == {Users[p][i][2] : i \in DOMAIN Users[p]}

(* The users of a connector, in the order of the call (userMap). *)
UsersAt(p, d) ==
    LET here[i \in 0..Len(Users[p])] ==
            IF i = 0 THEN <<>>
            ELSE IF Users[p][i][2] = d THEN Append(here[i - 1], Users[p][i][1])
            ELSE here[i - 1]
    IN here[Len(Users[p])]

(* Push waits while pushChan is full. *)
CallPush(p) ==
    /\ \A i \in DOMAIN pushed : pushed[i] # p
    /\ Len(pushChan) < PushChanCap
    /\ pushed' = Append(pushed, p)
    /\ pushChan' = Append(pushChan, p)
    /\ UNCHANGED <<groups, msgDst, passedOn, wire, backlog, got>>

(* The operators named Mutant... are defects the properties are tested     *)
(* against, and are used by no specification.                              *)

(* Mutant: a goroutine of its own for every push. *)
MutantServed == TRUE

(* All that the push before was grouped into has been published. *)
Served == groups = {}

TakePush ==
    /\ Served /\ pushChan # <<>>
    /\ groups' = groups \union ({Head(pushChan)} \X Destinations(Head(pushChan)))
    /\ pushChan' = Tail(pushChan)
    /\ UNCHANGED <<pushed, msgDst, passedOn, wire, backlog, got>>

(* The connectors in any order, as of a Go map.  The source of the push is *)
(* what the session's message has as its destination now.                  *)
PublishGroup(p, d) ==
    /\ <<p, d>> \in groups
    /\ groups' = groups \ {<<p, d>>}
    /\ \/ wire' = [wire EXCEPT ![d] = Append(@, [push |-> p, users |-> UsersAt(p, d),
                                                 src |-> msgDst])]
       \/ UNCHANGED wire
    /\ UNCHANGED <<pushed, pushChan, msgDst, passedOn, backlog, got>>

(* SendProxy and Dispatch change the message that pushes may still refer   *)
(* to, without a lock.  (What they publish goes to another backend.)       *)
SendProxy(newDst) ==
    /\ msgDst' = newDst /\ passedOn' = TRUE
    /\ UNCHANGED <<pushed, pushChan, groups, wire, backlog, got>>

----------------------------------------------------------------------------
(* A connector: its subscription, one message at a time, waits while       *)
(* RemoteReadChan is full; RemoteDelivery has what follows.                *)
Deliver(d) ==
    /\ wire[d] # <<>> /\ backlog[d] < RemoteCap
    /\ wire' = [wire EXCEPT ![d] = Tail(@)]
    /\ backlog' = [backlog EXCEPT ![d] = @ + 1]
    /\ got' = [got EXCEPT ![d] = Append(@, Head(wire[d]))]
    /\ UNCHANGED <<pushed, pushChan, groups, msgDst, passedOn>>

Consume(d) ==
    /\ backlog[d] > 0
    /\ backlog' = [backlog EXCEPT ![d] = @ - 1]
    /\ UNCHANGED <<pushed, pushChan, groups, msgDst, passedOn, wire, got>>

BackendNext ==
    \/ TakePush
    \/ \E p \in PushId : \/ CallPush(p)
                         \/ \E d \in Connector : PublishGroup(p, d)
    \/ \E s \in Backends : SendProxy(s)
    \/ \E d \in Connector : Deliver(d) \/ Consume(d)

BackendSpec == BackendInit /\ [][BackendNext]_backendVars

----------------------------------------------------------------------------
Published == [push : PushId, users : Seq(Player), src : Backends]

BackendTypeOK ==
    /\ pushed \in Seq(PushId) /\ pushChan \in Seq(PushId)
    /\ Len(pushChan) <= PushChanCap
    /\ groups \subseteq PushId \X Connector /\ msgDst \in Backends /\ passedOn \in BOOLEAN
    /\ wire \in [Connector -> Seq(Published)] /\ got \in [Connector -> Seq(Published)]
    /\ backlog \in [Connector -> 0..RemoteCap]

(* What a connector gets of the pushes keeps the order in which Push took  *)
(* them and repeats none, whatever is lost on the way; it names the users  *)
(* of this connector and no others (pusher.go:47-60), and this server as   *)
(* its source, unless the message was passed on before it was published    *)
(* (pusher.go:59, session.go:96).                                          *)
PushesArriveInOrder ==
    \A d \in Connector : \A i \in DOMAIN got[d] :
        /\ got[d][i].users = UsersAt(got[d][i].push, d)
        /\ passedOn \/ got[d][i].src = Home
        /\ \A j \in 1..(i - 1) : \A k, l \in DOMAIN pushed :
               PushedAt(got[d][j].push, k) /\ PushedAt(got[d][i].push, l) => k < l
=============================================================================
