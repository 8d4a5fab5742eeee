------------------------------- MODULE Dispatch -------------------------------
(***************************************************************************)
(* What the connector does with the messages of its clients                *)
(* (framework/net/ws_manager.go: clientReadChanHandler,                    *)
(* clientWorkerRoutine, decodeClientPack, routeEvent and the handlers).    *)
(*                                                                         *)
(* The read pumps feed one channel.  A goroutine hands each message to the *)
(* queue of the worker that the client's id hashes to; when that is full   *)
(* the message gets a goroutine of its own.  The handler answers into the  *)
(* WriteChan of the client, which blocks while that is full, forwards the  *)
(* message to a backend server, or does nothing.  What a message is comes  *)
(* down to its kind:                                                       *)
(*   garbled             protocol.Decode fails                             *)
(*   unknown             no handler for the packet type                    *)
(*   handshake heartbeat answered at once; ack, kick: nothing              *)
(*   malformed           data; the route has not three parts               *)
(*   local, unserved     data for a connector, with and without a handler  *)
(*   remote              data for a server of another type                 *)
(* The statistics are left out.                                            *)
(***************************************************************************)
EXTENDS Naturals, Sequences

CONSTANTS
    Peer,         \* clients of the connector
    Inbox,        \* of a client: the kinds of the messages it sends, in order
    Worker,
    WorkerOf,     \* fnv32 of the id, modulo the number of workers
    ReadCap,      \* capacity of ClientReadChan (2048)
    WorkerCap,    \* of a worker's queue (256)
    WriteCap,     \* of a WriteChan (1024)
    Stalled       \* clients whose write pump may stop to take messages

Refused  == {"garbled", "unknown"}
Answered == {"handshake", "heartbeat", "local"}
Silent   == {"ack", "kick", "malformed", "unserved"}

ASSUME DispatchAssumption ==
    /\ \A c \in Peer : Inbox[c] \in Seq(Refused \union Answered \union Silent
                                        \union {"remote"})
    /\ WorkerOf \in [Peer -> Worker] /\ Stalled \subseteq Peer
    /\ {ReadCap, WorkerCap, WriteCap} \subseteq Nat \ {0}

(* The i-th message of client c. *)
Packet == UNION {{c} \X DOMAIN Inbox[c] : c \in Peer}
Kind(m) == Inbox[m[1]][m[2]]

VARIABLES
    stage,        \* where a message stands
    readChan,     \* ClientReadChan
    queue,        \* clientWorkers
    overflowed,   \* messages with a goroutine of their own
    present,      \* clients in the bucket maps
    outbox,       \* answers in a client's WriteChan
    writerEnded,  \* clients whose write pump has closed the WriteChan
    effects,      \* history: answers sent and messages forwarded, per client
    panicked

chanVars == <<readChan, queue, overflowed>>
peerVars == <<present, outbox, writerEnded>>
dispatchVars == <<stage, chanVars, peerVars, effects, panicked>>

DispatchInit ==
    /\ stage = [m \in Packet |-> "unread"]
    /\ readChan = <<>> /\ queue = [w \in Worker |-> <<>>] /\ overflowed = {}
    /\ present = Peer /\ outbox = [c \in Peer |-> 0] /\ writerEnded = {}
    /\ effects = [c \in Peer |-> <<>>]
    /\ panicked = FALSE

Move(m, s) == stage' = [stage EXCEPT ![m] = s]
Effect(m) == effects' = [effects EXCEPT ![m[1]] = Append(@, m)]

----------------------------------------------------------------------------
(* The operators named Mutant... are defects the properties are tested     *)
(* against, and are used by no specification.                              *)

(* The read pump of a client; it is the one that takes the client out of   *)
(* the map in the end.                                                     *)
ReadMessage(m) ==
    /\ m[1] \in present
    /\ stage[m] = "unread"
    /\ m[2] > 1 => stage[<<m[1], m[2] - 1>>] # "unread"
    /\ Len(readChan) < ReadCap
    /\ Move(m, "waiting")
    /\ readChan' = Append(readChan, m)
    /\ UNCHANGED <<queue, overflowed, peerVars, effects, panicked>>

(* Mutant: any worker. *)
MutantChoices(m) == Worker

Choices(m) == {WorkerOf[m[1]]}

(* Mutant: one place more than there is. *)
MutantRoom(w) == Len(queue[w]) <= WorkerCap

Room(w) == Len(queue[w]) < WorkerCap

Enqueue(m, w) ==
    /\ queue' = [queue EXCEPT ![w] = Append(@, m)]
    /\ UNCHANGED <<stage, overflowed>>

(* Mutant: no default case in the select; the goroutine waits for room. *)
MutantOverflow(m) ==
    /\ FALSE
    /\ UNCHANGED <<overflowed, stage, queue>>

Overflow(m) ==
    /\ overflowed' = overflowed \union {m}
    /\ Move(m, "decode")
    /\ UNCHANGED queue

(* clientReadChanHandler *)
Distribute ==
    /\ readChan # <<>>
    /\ LET m == Head(readChan)
       IN \E w \in Choices(m) : IF Room(w) THEN Enqueue(m, w) ELSE Overflow(m)
    /\ readChan' = Tail(readChan)
    /\ UNCHANGED <<peerVars, effects, panicked>>

(* clientWorkerRoutine: the message before has been handled. *)
Idle(w) == \A m \in Packet :
               stage[m] \in {"decode", "send"} /\ m \notin overflowed
               => w \notin Choices(m)

Take(w) ==
    /\ queue[w] # <<>> /\ Idle(w)
    /\ Move(Head(queue[w]), "decode")
    /\ queue' = [queue EXCEPT ![w] = Tail(@)]
    /\ UNCHANGED <<readChan, overflowed, peerVars, effects, panicked>>

----------------------------------------------------------------------------
(* decodeClientPack, routeEvent, and the handler up to its effect.         *)

Found(m) == stage[m] = "decode" /\ m[1] \in present

(* Nothing comes of a message that cannot be decoded or has no handler, or *)
(* whose client has gone meanwhile.                                        *)
Drop(m) ==
    /\ stage[m] = "decode"
    /\ Kind(m) \in Refused \union Silent \/ m[1] \notin present
    /\ Move(m, "done")
    /\ UNCHANGED <<chanVars, peerVars, effects, panicked>>

(* A handler of the connector may return an error: then no answer. *)
Answer(m) ==
    /\ Found(m) /\ Kind(m) \in Answered
    /\ \/ Move(m, "send")
       \/ Kind(m) = "local" /\ Move(m, "done")
    /\ UNCHANGED <<chanVars, peerVars, effects, panicked>>

(* To the server that selectDst finds, if any. *)
Forward(m) ==
    /\ Found(m) /\ Kind(m) = "remote"
    /\ Effect(m) \/ UNCHANGED effects
    /\ Move(m, "done")
    /\ UNCHANGED <<chanVars, peerVars, panicked>>

(* SendMessage waits for room; on a closed WriteChan it panics. *)
SendMessage(m) ==
    /\ stage[m] = "send"
    /\ m[1] \notin writerEnded /\ outbox[m[1]] < WriteCap
    /\ outbox' = [outbox EXCEPT ![m[1]] = @ + 1]
    /\ Effect(m)
    /\ Move(m, "done")
    /\ UNCHANGED <<chanVars, present, writerEnded, panicked>>

SendPanics(m) ==
    /\ stage[m] = "send" /\ m[1] \in writerEnded
    /\ panicked' = TRUE
    /\ UNCHANGED <<stage, chanVars, peerVars, effects>>

----------------------------------------------------------------------------
(* Clients, as far as they meet the above (ConnLifecycle has all of it).   *)

WriteOut(c) ==
    /\ outbox[c] > 0 /\ c \notin writerEnded
    /\ outbox' = [outbox EXCEPT ![c] = @ - 1]
    /\ UNCHANGED <<stage, chanVars, present, writerEnded, effects, panicked>>

RemoveClient(c) ==
    /\ c \in present
    /\ present' = present \ {c}
    /\ UNCHANGED <<stage, chanVars, outbox, writerEnded, effects, panicked>>

(* The writer ends because the connection was closed: when the client was  *)
(* removed, or before, by the writer itself after a failed ping.           *)
WriterEnds(c) ==
    /\ c \notin writerEnded
    /\ writerEnded' = writerEnded \union {c}
    /\ UNCHANGED <<stage, chanVars, present, outbox, effects, panicked>>

----------------------------------------------------------------------------
HandlerStep(m) == \/ Drop(m) \/ Answer(m) \/ Forward(m)
                  \/ SendMessage(m) \/ SendPanics(m)

DispatchNext ==
    /\ ~panicked
    /\ \/ Distribute
       \/ \E w \in Worker : Take(w)
       \/ \E m \in Packet : ReadMessage(m) \/ HandlerStep(m)
       \/ \E c \in Peer : WriteOut(c) \/ RemoveClient(c) \/ WriterEnds(c)

DispatchSpec == DispatchInit /\ [][DispatchNext]_dispatchVars

(***************************************************************************)
(* Goroutines run, and the write pump takes what is queued, except that of *)
(* a client in Stalled: its writes may block.  (Weak fairness is enough    *)
(* for goroutines that wait for room in a WriteChan: those before them     *)
(* send once each.)                                                        *)
(***************************************************************************)
DispatchFairness ==
    /\ WF_dispatchVars(~panicked /\ Distribute)
    /\ \A w \in Worker : WF_dispatchVars(~panicked /\ Take(w))
    /\ \A m \in Packet : WF_dispatchVars(~panicked /\ HandlerStep(m))
    /\ \A c \in Peer \ Stalled : WF_dispatchVars(~panicked /\ WriteOut(c))

FairDispatch == DispatchSpec /\ DispatchFairness

----------------------------------------------------------------------------
DispatchTypeOK ==
    /\ stage \in [Packet -> {"unread", "waiting", "decode", "send", "done"}]
    /\ readChan \in Seq(Packet) /\ Len(readChan) <= ReadCap
    /\ queue \in [Worker -> Seq(Packet)] /\ \A w \in Worker : Len(queue[w]) <= WorkerCap
    /\ overflowed \subseteq Packet /\ present \subseteq Peer
    /\ outbox \in [Peer -> 0..WriteCap] /\ writerEnded \subseteq Peer
    /\ effects \in [Peer -> Seq(Packet)] /\ panicked \in BOOLEAN

(* What comes of a client's messages, answers and forwarded messages       *)
(* alike, keeps the order in which the client sent them, except around a   *)
(* message that found the worker's queue full (ws_manager.go:188): that    *)
(* one overtakes the queue, or is overtaken.                               *)
OrderUnlessOverflow ==
    \A c \in Peer : \A i, j \in DOMAIN effects[c] :
        i < j => \/ effects[c][i][2] < effects[c][j][2]
                 \/ {effects[c][i], effects[c][j]} \cap overflowed # {}

(* Every message that was received is handled in the end.  A client that   *)
(* takes no more answers stops only the worker it hashes to, whatever the  *)
(* others send: the goroutine that distributes never waits ("so as not to  *)
(* block", ws_manager.go:188).                                             *)
OthersAreServed ==
    \A m \in Packet :
        (\A c \in Stalled : WorkerOf[c] # WorkerOf[m[1]])
        => (stage[m] = "waiting" ~> stage[m] = "done" \/ panicked)
=============================================================================
