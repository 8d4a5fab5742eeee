--------------------------- MODULE RemoteDelivery ---------------------------
(***************************************************************************)
(* Messages from backend servers, as the connector handles them:           *)
(*   framework/net/ws_manager.go   remoteReadChanHandler,                  *)
(*                                 remotePushChanHandler, Response,        *)
(*                                 setSessionData, and what addClient and  *)
(*                                 removeClient do to the same data        *)
(*   framework/net/session.go      SetData, SetAll, Close                  *)
(*                                                                         *)
(* The handler collects a batch, starts a goroutine for each message of    *)
(* it and waits for all of them.  An answer is put into the WriteChan of   *)
(* its client, which blocks while that is full.  A broadcast changes the   *)
(* shared data of the Manager and then every client's session, bucket by   *)
(* bucket, without a lock that spans both, while clients come and go.      *)
(* Before, a broadcast sets the data of a single client, if it names one.  *)
(* A message is its identity; the value a broadcast writes is the message. *)
(***************************************************************************)
EXTENDS Naturals, Sequences, FiniteSets

CONSTANTS
    Msg,          \* messages that arrive over NATS, each once
    Kind,         \* of a message: "answer", "push" or "broadcast"
    Target,       \* client an answer or single data are for; None if the message
                  \* names none, has no single data or is malformed
    Keys,         \* keys of the shared data that a broadcast writes
    Key,
    Cid,
    Bucket,
    BucketOf,     \* getBucket
    None,
    BatchSize,    \* 32
    PushCap,      \* capacity of RemotePushChan (2048)
    WriteCap      \* capacity of a WriteChan (1024)

ASSUME MessageAssumption ==
    /\ IsFiniteSet(Msg)
    /\ Kind \in [Msg -> {"answer", "push", "broadcast"}]
    /\ Target \in [Msg -> Cid \union {None}]
    /\ Keys \in [Msg -> SUBSET Key]
    /\ None \notin Cid /\ None \notin Msg
ASSUME ClientAssumption == BucketOf \in [Cid -> Bucket]
ASSUME BoundAssumption == BatchSize \in Nat /\ PushCap \in Nat /\ WriteCap \in Nat

VARIABLES
    handler,    \* remoteReadChanHandler: collecting a batch or waiting for it
    round,      \* history: number of the batch
    job,        \* where the handling of a message stands
    batchOf,    \* history: the batch a message was taken with
    shared,     \* Manager.data: the broadcast that wrote a key last
    scan,       \* buckets a broadcast has still to look at
    todo,       \* clients it has found there and not updated yet
    rivals,     \* history: broadcasts of a key that were under way when it was
                \* last written
    pushes,     \* RemotePushChan and the batch of its handler
    admission,  \* addClient: not begun, in the map, shared data copied
    clients,    \* keys of the bucket maps
    all,        \* Session.all of a client
    single,     \* Session.data of a client: the message that set it last
    closed,     \* clients closed by anyone, their session emptied
    queue,      \* WriteChan of a client: answers not yet written
    qclosed,    \* clients whose writer has ended and closed the WriteChan
    sent,       \* history: answers put into a client's WriteChan and single data
                \* set, in order
    down        \* "no", or what ended the process

handlerVars == <<handler, round, batchOf>>
dataVars    == <<shared, scan, todo, rivals>>
clientVars  == <<admission, clients, closed>>
chanVars    == <<queue, qclosed, sent>>
sessionVars == <<all, single>>
deliveryVars == <<handlerVars, job, dataVars, pushes, clientVars, sessionVars,
                  chanVars, down>>

JobPC == {"new", "batched", "start", "single", "global", "update", "send", "done"}
Nothing == [k \in Key |-> None]

DeliveryTypeOK ==
    /\ handler \in {"collect", "wait"} /\ round \in Nat
    /\ job \in [Msg -> JobPC]
    /\ batchOf \in [Msg -> Nat]
    /\ shared \in [Key -> Msg \union {None}]
    /\ scan \in [Msg -> SUBSET Bucket]
    /\ todo \in [Msg -> SUBSET Cid]
    /\ rivals \in [Key -> SUBSET Msg] /\ pushes \subseteq Msg
    /\ admission \in [Cid -> {"new", "inserted", "done"}]
    /\ clients \subseteq Cid /\ closed \subseteq Cid /\ qclosed \subseteq Cid
    /\ all \in [Cid -> [Key -> Msg \union {None}]]
    /\ single \in [Cid -> Msg \union {None}]
    /\ queue \in [Cid -> Seq(Msg)] /\ sent \in [Cid -> Seq(Msg)]
    /\ down \in {"no", "unlockUnlocked", "sendOnClosed"}

DeliveryInit ==
    /\ handler = "collect" /\ round = 0
    /\ job = [m \in Msg |-> "new"] /\ batchOf = [m \in Msg |-> 0]
    /\ shared = Nothing /\ rivals = [k \in Key |-> {}]
    /\ scan = [m \in Msg |-> {}] /\ todo = [m \in Msg |-> {}]
    /\ pushes = {}
    /\ admission = [c \in Cid |-> "new"] /\ clients = {} /\ closed = {}
    /\ all = [c \in Cid |-> Nothing] /\ single = [c \in Cid |-> None]
    /\ queue = [c \in Cid |-> <<>>] /\ sent = [c \in Cid |-> <<>>]
    /\ qclosed = {}
    /\ down = "no"

----------------------------------------------------------------------------
(* The operators named Mutant... are defects the properties are tested     *)
(* against, and are used by no specification.                              *)

(***************************************************************************)
(* remoteReadChanHandler.                                                  *)
(***************************************************************************)

Batch == {m \in Msg : job[m] = "batched"}

Started(S) == [m \in Msg |-> IF m \in S THEN "start" ELSE job[m]]

(* The next message; a full batch is processed at once.  What is still in  *)
(* NATS or in RemoteReadChan may come in any order.                        *)
Take(m) ==
    /\ handler = "collect"
    /\ job[m] = "new"
    /\ batchOf' = [batchOf EXCEPT ![m] = round]
    /\ IF Cardinality(Batch) + 1 >= BatchSize
         THEN job' = Started(Batch \union {m}) /\ handler' = "wait"
         ELSE job' = [job EXCEPT ![m] = "batched"] /\ UNCHANGED handler
    /\ UNCHANGED <<round, dataVars, pushes, clientVars, sessionVars, chanVars,
                   down>>

(* The ticker has the batch processed that there is. *)
Tick ==
    /\ handler = "collect"
    /\ Batch # {}
    /\ job' = Started(Batch)
    /\ handler' = "wait"
    /\ UNCHANGED <<round, batchOf, dataVars, pushes, clientVars, sessionVars,
                   chanVars, down>>

(* Mutant: the handler does not wait for the batch. *)
MutantBatchOver == TRUE

(* wg.Wait: the goroutines of this batch have ended. *)
BatchOver == \A m \in Msg : job[m] \in {"new", "done"}

NextBatch ==
    /\ handler = "wait"
    /\ BatchOver
    /\ handler' = "collect"
    /\ round' = round + 1
    /\ UNCHANGED <<job, batchOf, dataVars, pushes, clientVars, sessionVars,
                   chanVars, down>>

(***************************************************************************)
(* setSessionData.                                                         *)
(***************************************************************************)

(* With SingleData: the client is looked up under the lock of its bucket;  *)
(* its session is set later, whatever has become of the client.            *)
LookupSingle(m) ==
    /\ job[m] = "start" /\ Kind[m] = "broadcast"
    /\ Target[m] # None
    /\ job' = [job EXCEPT ![m] = IF Target[m] \in clients THEN "single" ELSE "global"]
    /\ UNCHANGED <<handlerVars, dataVars, pushes, clientVars, sessionVars,
                   chanVars, down>>

(* Session.SetData.  The Uid of the session is that of the message: it     *)
(* came from the session, where nothing changes it, as Entry refuses every *)
(* token (jwt.go:43) before it gets to set it.                             *)
SetData(m) ==
    LET c == Target[m] IN
    /\ job[m] = "single"
    /\ single' = [single EXCEPT ![c] = m]
    /\ sent' = [sent EXCEPT ![c] = Append(@, m)]
    /\ job' = [job EXCEPT ![m] = "global"]
    /\ UNCHANGED <<handlerVars, dataVars, pushes, clientVars, all, queue,
                   qclosed, down>>

(* With AllData. *)

Updating == {m \in Msg : job[m] = "update"}

(* Under dataLock; the session updates follow. *)
WriteShared(m) ==
    /\ Kind[m] = "broadcast"
    /\ job[m] = IF Target[m] = None THEN "start" ELSE "global"
    /\ job' = [job EXCEPT ![m] = "update"]
    /\ shared' = [k \in Key |-> IF k \in Keys[m] THEN m ELSE shared[k]]
    /\ scan' = [scan EXCEPT ![m] = Bucket]
    /\ rivals' = [k \in Key |-> IF k \in Keys[m] THEN {n \in Updating : k \in Keys[n]}
                                ELSE rivals[k]]
    /\ UNCHANGED <<handlerVars, todo, pushes, clientVars, sessionVars,
                   chanVars, down>>

(* The goroutine of a bucket copies the bucket's clients under its lock. *)
Snapshot(m, b) ==
    /\ b \in scan[m]
    /\ scan' = [scan EXCEPT ![m] = @ \ {b}]
    /\ todo' = [todo EXCEPT ![m] = @ \union {c \in clients : BucketOf[c] = b}]
    /\ UNCHANGED <<handlerVars, job, shared, rivals, pushes, clientVars,
                   sessionVars, chanVars, down>>

(* Mutant: a session keeps the value that it has. *)
MutantSetAll(c, m) ==
    [k \in Key |-> IF k \in Keys[m] /\ all[c][k] = None THEN m ELSE all[c][k]]

(* Session.SetAll with the data of a broadcast. *)
SetAll(c, m) == [k \in Key |-> IF k \in Keys[m] THEN m ELSE all[c][k]]

UpdateSession(m, c) ==
    /\ c \in todo[m]
    /\ todo' = [todo EXCEPT ![m] = @ \ {c}]
    /\ all' = [all EXCEPT ![c] = SetAll(c, m)]
    /\ UNCHANGED <<handlerVars, job, shared, scan, rivals, pushes, clientVars,
                   single, chanVars, down>>

(* Mutant: wg.Done when the bucket was read, not when it was updated. *)
MutantAllUpdated(m) == scan[m] = {}

AllUpdated(m) == scan[m] = {} /\ todo[m] = {}

BroadcastEnds(m) ==
    /\ job[m] = "update"
    /\ AllUpdated(m)
    /\ job' = [job EXCEPT ![m] = "done"]
    /\ UNCHANGED <<handlerVars, dataVars, pushes, clientVars, sessionVars,
                   chanVars, down>>

(***************************************************************************)
(* Response with an answer.  AnswerMiss stands for all messages without an *)
(* effect: for a client that is not here, for nobody, or not understood.   *)
(***************************************************************************)

AnswerHit(m) ==
    /\ job[m] = "start" /\ Kind[m] = "answer"
    /\ Target[m] \in clients
    /\ job' = [job EXCEPT ![m] = "send"]
    /\ UNCHANGED <<handlerVars, dataVars, pushes, clientVars, sessionVars,
                   chanVars, down>>

(* Mutant: if the client has gone, the goroutine ends without wg.Done. *)
MutantAnswerMiss(m) ==
    /\ job[m] = "start" /\ Kind[m] = "answer"
    /\ Target[m] = None
    /\ job' = [job EXCEPT ![m] = "done"]
    /\ UNCHANGED <<handlerVars, dataVars, pushes, clientVars, sessionVars,
                   chanVars, down>>

AnswerMiss(m) ==
    /\ job[m] = "start" /\ Kind[m] = "answer"
    /\ Target[m] \notin clients
    /\ job' = [job EXCEPT ![m] = "done"]
    /\ UNCHANGED <<handlerVars, dataVars, pushes, clientVars, sessionVars,
                   chanVars, down>>

(* Mutant: an answer that finds the channel full is dropped. *)
MutantSendAnswer(m) ==
    LET c == Target[m] IN
    /\ job[m] = "send"
    /\ c \notin qclosed
    /\ job' = [job EXCEPT ![m] = "done"]
    /\ IF Len(queue[c]) < WriteCap
         THEN /\ queue' = [queue EXCEPT ![c] = Append(@, m)]
              /\ sent' = [sent EXCEPT ![c] = Append(@, m)]
         ELSE UNCHANGED <<queue, sent>>
    /\ UNCHANGED <<handlerVars, dataVars, pushes, clientVars, sessionVars,
                   qclosed, down>>

(* SendMessage waits while the client's channel is full. *)
SendAnswer(m) ==
    LET c == Target[m] IN
    /\ job[m] = "send"
    /\ c \notin qclosed
    /\ Len(queue[c]) < WriteCap
    /\ queue' = [queue EXCEPT ![c] = Append(@, m)]
    /\ sent' = [sent EXCEPT ![c] = Append(@, m)]
    /\ job' = [job EXCEPT ![m] = "done"]
    /\ UNCHANGED <<handlerVars, dataVars, pushes, clientVars, sessionVars,
                   qclosed, down>>

SendPanics(m) ==
    /\ job[m] = "send"
    /\ Target[m] \in qclosed
    /\ down' = "sendOnClosed"
    /\ UNCHANGED <<handlerVars, job, dataVars, pushes, clientVars,
                   sessionVars, chanVars>>

(***************************************************************************)
(* Pushes.  Response takes the read lock of each bucket and gives it back  *)
(* with Unlock, which is a fatal error when no writer holds or awaits the  *)
(* lock; that there is such a writer at every bucket is not considered.    *)
(***************************************************************************)

(* Into RemotePushChan if there is room ... *)
HandOver(m) ==
    /\ job[m] = "start" /\ Kind[m] = "push"
    /\ Cardinality(pushes) < PushCap
    /\ pushes' = pushes \union {m}
    /\ job' = [job EXCEPT ![m] = "done"]
    /\ UNCHANGED <<handlerVars, dataVars, clientVars, sessionVars, chanVars,
                   down>>

(* ... from which its handler calls Response, else Response at once. *)
PushOut(m) ==
    /\ \/ m \in pushes
       \/ /\ job[m] = "start" /\ Kind[m] = "push"
          /\ Cardinality(pushes) >= PushCap
    /\ down' = "unlockUnlocked"
    /\ UNCHANGED <<handlerVars, job, dataVars, pushes, clientVars,
                   sessionVars, chanVars>>

(***************************************************************************)
(* Clients, as far as they meet the above.                                 *)
(***************************************************************************)

Insert(c) ==
    /\ admission[c] = "new"
    /\ admission' = [admission EXCEPT ![c] = "inserted"]
    /\ clients' = clients \union {c}
    /\ UNCHANGED <<handlerVars, job, dataVars, pushes, closed, sessionVars,
                   chanVars, down>>

(* addClient copies the shared data, under dataLock. *)
CopyShared(c) ==
    /\ admission[c] = "inserted"
    /\ admission' = [admission EXCEPT ![c] = "done"]
    /\ all' = [all EXCEPT ![c] =
                 [k \in Key |-> IF shared[k] = None THEN @[k] ELSE shared[k]]]
    /\ UNCHANGED <<handlerVars, job, dataVars, pushes, clients, closed,
                   single, chanVars, down>>

(* WsConnection.Close empties the session, before or after the client is   *)
(* taken out of the map.                                                   *)
CloseClient(c) ==
    /\ admission[c] # "new"
    /\ c \notin closed
    /\ closed' = closed \union {c}
    /\ all' = [all EXCEPT ![c] = Nothing]
    /\ single' = [single EXCEPT ![c] = None]
    /\ UNCHANGED <<handlerVars, job, dataVars, pushes, admission, clients,
                   chanVars, down>>

Remove(c) ==
    /\ c \in clients
    /\ clients' = clients \ {c}
    /\ UNCHANGED <<handlerVars, job, dataVars, pushes, admission, closed,
                   sessionVars, chanVars, down>>

(* Mutant: the writer puts something of its own into the channel. *)
MutantWrite(c) ==
    /\ admission[c] = "done" /\ c \notin qclosed
    /\ queue[c] # <<>>
    /\ queue' = [queue EXCEPT ![c] = Append(Tail(@), c)]
    /\ UNCHANGED <<handlerVars, job, dataVars, pushes, clientVars,
                   sessionVars, qclosed, sent, down>>

(* The writer takes a message ... *)
Write(c) ==
    /\ admission[c] = "done" /\ c \notin qclosed
    /\ queue[c] # <<>>
    /\ queue' = [queue EXCEPT ![c] = Tail(@)]
    /\ UNCHANGED <<handlerVars, job, dataVars, pushes, clientVars,
                   sessionVars, qclosed, sent, down>>

(* ... or ends and closes the channel. *)
WriterEnds(c) ==
    /\ admission[c] = "done" /\ c \notin qclosed
    /\ c \in closed
    /\ qclosed' = qclosed \union {c}
    /\ UNCHANGED <<handlerVars, job, dataVars, pushes, clientVars,
                   sessionVars, queue, sent, down>>

----------------------------------------------------------------------------
BroadcastStep(m) == \/ LookupSingle(m) \/ SetData(m)
                    \/ WriteShared(m) \/ BroadcastEnds(m)
                    \/ \E b \in Bucket : Snapshot(m, b)
                    \/ \E c \in Cid : UpdateSession(m, c)
AnswerStep(m) == AnswerHit(m) \/ AnswerMiss(m) \/ SendAnswer(m) \/ SendPanics(m)
PushStep(m) == HandOver(m) \/ PushOut(m)
JobStep(m) == BroadcastStep(m) \/ AnswerStep(m) \/ PushStep(m)
HandlerStep == Tick \/ NextBatch
WriterStep(c) == Write(c) \/ WriterEnds(c)

DeliveryNext ==
    /\ down = "no"
    /\ \/ HandlerStep
       \/ \E m \in Msg : Take(m) \/ JobStep(m)
       \/ \E c \in Cid : \/ Insert(c) \/ CopyShared(c) \/ CloseClient(c)
                         \/ Remove(c) \/ WriterStep(c)

DeliverySpec == DeliveryInit /\ [][DeliveryNext]_deliveryVars

(***************************************************************************)
(* Goroutines run when they can; those that wait for room in a channel are *)
(* served in turn, hence strong fairness of jobs.  The writer always takes *)
(* what is queued in the end: a write to a dead peer fails after the write *)
(* deadline.  Arrivals, admissions, closes and removals just may happen.   *)
(***************************************************************************)
DeliveryFairness ==
    /\ WF_deliveryVars(down = "no" /\ HandlerStep)
    /\ \A m \in Msg : SF_deliveryVars(down = "no" /\ JobStep(m))
    /\ \A c \in Cid : /\ WF_deliveryVars(down = "no" /\ CopyShared(c))
                      /\ WF_deliveryVars(down = "no" /\ WriterStep(c))

FairDelivery == DeliverySpec /\ DeliveryFairness

----------------------------------------------------------------------------
(* Clients whose session should have the shared data: admitted, with the   *)
(* copy made, in the map, and not closed.                                  *)
Settled == {c \in clients \ closed : admission[c] = "done"}

(* No broadcast that writes k is under way. *)
Quiet(k) == \A m \in Updating : k \notin Keys[m]

(* No client misses a broadcast: one that was admitted at the same time    *)
(* has the key from its own copy (made after it was put into the map,      *)
(* ws_manager.go:485-490) or from the broadcast (which reads the maps      *)
(* after it has changed the data, 413-430).                                *)
SessionsComplete ==
    \A c \in Settled, k \in Key :
        Quiet(k) /\ shared[k] # None => all[c][k] # None

(* Once the broadcasts of a key have ended, a session has the value the    *)
(* Manager has, or that of a broadcast which was still under way when the  *)
(* Manager's was written: what is older is in no session, and a broadcast  *)
(* that overlapped with no other is in all (ws_manager.go:408-446).        *)
SessionsAgree ==
    \A c \in Settled, k \in Key :
        Quiet(k) => all[c][k] \in {shared[k]} \union rivals[k]

(* Answers and session data of a later batch never overtake those of an    *)
(* earlier one on their way to a client, so that a session that nobody has *)
(* closed never goes back to the data of an earlier batch; within a batch  *)
(* they may (ws_manager.go:208-243).                                       *)
ClientsKeepBatchOrder ==
    \A c \in Cid :
        /\ \A i, j \in DOMAIN sent[c] :
               i < j => batchOf[sent[c][i]] <= batchOf[sent[c][j]]
        /\ \A i \in DOMAIN sent[c] :
               Kind[sent[c][i]] = "broadcast" /\ c \notin closed =>
                   single[c] # None /\ batchOf[single[c]] >= batchOf[sent[c][i]]

(* A batch ends, however full the clients' channels are: either their      *)
(* writers make room, or they end and the process goes down (243).         *)
BatchEnds == handler = "wait" ~> handler = "collect" \/ down # "no"

(* An answer that was taken while its client was here reaches its channel, *)
(* unless the client leaves or is closed before.                           *)
AnswerArrives ==
    \A m \in Msg : \A c \in Cid :
        Kind[m] = "answer" /\ Target[m] = c /\ c \in clients
        /\ job[m] \notin {"new", "done"}
        ~> \/ \E i \in DOMAIN sent[c] : sent[c][i] = m
           \/ c \in closed \/ c \notin clients \/ down # "no"

(* ws_manager.go:335 announces "push a message to several users": a push   *)
(* does not end the process.                                               *)
PushIsNotFatal == down # "unlockUnlocked"
=============================================================================
