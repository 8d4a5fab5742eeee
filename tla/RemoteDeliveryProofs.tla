------------------------ MODULE RemoteDeliveryProofs ------------------------
(***************************************************************************)
(* Theorems about RemoteDelivery, for every set of messages, clients,      *)
(* buckets and keys and every capacity.                                    *)
(***************************************************************************)
EXTENDS RemoteDelivery, SequenceTheorems, TLAPS

(* A job that has looked a client up keeps it, and is of the right kind. *)
JobsHold ==
    \A m \in Msg :
        /\ job[m] = "single" => Target[m] \in Cid /\ Kind[m] = "broadcast"
        /\ job[m] = "send" => Target[m] \in Cid /\ Kind[m] = "answer"

TypeInv == DeliveryTypeOK /\ JobsHold

----------------------------------------------------------------------------
(* A batch is worked on alone: while the next one is collected no goroutine *)
(* of an earlier one is left, and what is left is of the current batch.     *)
BatchesApart ==
    \A m \in Msg :
        /\ batchOf[m] <= round
        /\ job[m] \notin {"new", "done"} => batchOf[m] = round
        /\ handler = "collect" => job[m] \in {"new", "batched", "done"}
        /\ handler = "wait" => job[m] # "batched"

(* What has reached a client was taken before. *)
SentWasTaken ==
    \A c \in Cid :
        /\ \A i \in DOMAIN sent[c] : job[sent[c][i]] # "new"
        /\ single[c] # None => job[single[c]] # "new"

OrderInv == BatchesApart /\ SentWasTaken /\ ClientsKeepBatchOrder

----------------------------------------------------------------------------
(* A broadcast of k has still to come to the session of c. *)
Pending(c, k) ==
    \E m \in Msg : /\ job[m] = "update" /\ k \in Keys[m]
                   /\ BucketOf[c] \in scan[m] \/ c \in todo[m]

(* The broadcast that wrote k last has still to come to the session of c. *)
LastPending(c, k) ==
    \E m \in Msg : /\ job[m] = "update" /\ k \in Keys[m] /\ shared[k] = m
                   /\ BucketOf[c] \in scan[m] \/ c \in todo[m]

(* Buckets and clients are left over only while a broadcast is under way. *)
WorkIsUpdating ==
    \A m \in Msg : scan[m] # {} \/ todo[m] # {} => job[m] = "update"

(* A key nobody has written is in no session, and its broadcasts under way  *)
(* are the last one and those that were under way when that began.          *)
WritersAreKnown ==
    \A k \in Key :
        /\ shared[k] = None => \A c \in Cid : all[c][k] = None
        /\ \A m \in Msg : job[m] = "update" /\ k \in Keys[m] =>
               /\ shared[k] # None
               /\ m \in {shared[k]} \union rivals[k]

PendingOrComplete ==
    \A c \in Settled, k \in Key :
        Pending(c, k) \/ (shared[k] # None => all[c][k] # None)

PendingOrRecent ==
    \A c \in Settled, k \in Key :
        LastPending(c, k) \/ all[c][k] \in {shared[k]} \union rivals[k]

SessionInv ==
    /\ WorkIsUpdating
    /\ WritersAreKnown
    /\ PendingOrComplete
    /\ PendingOrRecent

----------------------------------------------------------------------------
(* Types. *)
LEMMA InitType == DeliveryInit => TypeInv
BY MessageAssumption
DEF DeliveryInit, TypeInv, DeliveryTypeOK, JobsHold, JobPC, Nothing

(* A message is taken into the batch, and starts it if it is full. *)
LEMMA TakeEffect ==
  ASSUME NEW m \in Msg, Take(m)
  PROVE  /\ handler = "collect" /\ job[m] = "new"
         /\ batchOf' = [batchOf EXCEPT ![m] = round]
         /\ \/ job' = Started(Batch \union {m}) /\ handler' = "wait"
            \/ job' = [job EXCEPT ![m] = "batched"] /\ handler' = handler
         /\ UNCHANGED <<round, dataVars, pushes, clientVars, sessionVars, chanVars, down>>
BY DEF Take

LEMMA TakeType ==
  ASSUME TypeInv, NEW m \in Msg, Take(m)
  PROVE  TypeInv'
<1>1. /\ job' \in [Msg -> JobPC] /\ handler' \in {"collect", "wait"}
      /\ \A n \in Msg : job'[n] \in {"single", "send"} => job'[n] = job[n]
  <2>1. job \in [Msg -> JobPC] /\ handler = "collect"
    BY TakeEffect DEF TypeInv, DeliveryTypeOK
  <2>2. CASE job' = Started(Batch \union {m}) /\ handler' = "wait"
    BY <2>1, <2>2 DEF Started, JobPC
  <2>3. CASE job' = [job EXCEPT ![m] = "batched"] /\ handler' = handler
    BY <2>1, <2>3 DEF JobPC
  <2> QED BY TakeEffect, <2>2, <2>3
<1>2. JobsHold' BY <1>1 DEF TypeInv, JobsHold
<1>3. DeliveryTypeOK'
  BY <1>1, TakeEffect DEF TypeInv, DeliveryTypeOK, dataVars, clientVars, chanVars,
     sessionVars
<1> QED BY <1>2, <1>3 DEF TypeInv

LEMMA HandlerType ==
  ASSUME TypeInv, HandlerStep
  PROVE  TypeInv'
<1> USE DEF TypeInv, DeliveryTypeOK, JobsHold, JobPC, Started,
        handlerVars, dataVars, clientVars, chanVars, sessionVars
<1>1. CASE Tick BY <1>1 DEF Tick
<1>2. CASE NextBatch BY <1>2 DEF NextBatch
<1> QED BY <1>1, <1>2 DEF HandlerStep

LEMMA JobType ==
  ASSUME TypeInv, NEW m \in Msg, JobStep(m)
  PROVE  TypeInv'
<1> USE MessageAssumption DEF TypeInv, DeliveryTypeOK, JobsHold, JobPC,
        handlerVars, dataVars, clientVars, chanVars, sessionVars
<1>1. CASE LookupSingle(m) BY <1>1 DEF LookupSingle
<1>2. CASE SetData(m)
  <2>1. Target[m] \in Cid /\ Append(sent[Target[m]], m) \in Seq(Msg)
    BY <1>2, AppendProperties DEF SetData
  <2> QED BY <1>2, <2>1 DEF SetData
<1>3. CASE WriteShared(m)
  <2>1. /\ shared' \in [Key -> Msg \union {None}] /\ rivals' \in [Key -> SUBSET Msg]
        /\ job' \in [Msg -> JobPC] /\ scan' \in [Msg -> SUBSET Bucket]
    BY <1>3 DEF WriteShared, Updating
  <2> QED BY <1>3, <2>1 DEF WriteShared
<1>4. CASE BroadcastEnds(m) BY <1>4 DEF BroadcastEnds
<1>5. ASSUME NEW b \in Bucket, Snapshot(m, b) PROVE TypeInv'
  BY <1>5 DEF Snapshot
<1>6. ASSUME NEW c \in Cid, UpdateSession(m, c) PROVE TypeInv'
  BY <1>6 DEF UpdateSession, SetAll
<1>7. CASE AnswerHit(m) BY <1>7 DEF AnswerHit
<1>8. CASE AnswerMiss(m) BY <1>8 DEF AnswerMiss
<1>9. CASE SendAnswer(m)
  <2>1. /\ Target[m] \in Cid
        /\ Append(sent[Target[m]], m) \in Seq(Msg)
        /\ Append(queue[Target[m]], m) \in Seq(Msg)
    BY <1>9, AppendProperties DEF SendAnswer
  <2> QED BY <1>9, <2>1 DEF SendAnswer
<1>10. CASE SendPanics(m) BY <1>10 DEF SendPanics
<1>11. CASE HandOver(m) BY <1>11 DEF HandOver
<1>12. CASE PushOut(m) BY <1>12 DEF PushOut
<1> QED BY <1>1, <1>2, <1>3, <1>4, <1>5, <1>6, <1>7, <1>8, <1>9, <1>10, <1>11, <1>12
        DEF JobStep, BroadcastStep, AnswerStep, PushStep

ClientStep(c) == Insert(c) \/ CopyShared(c) \/ CloseClient(c) \/ Remove(c) \/ WriterStep(c)

LEMMA ClientType ==
  ASSUME TypeInv, NEW c \in Cid, ClientStep(c)
  PROVE  TypeInv'
<1> USE DEF TypeInv, DeliveryTypeOK, JobsHold, Nothing,
        handlerVars, dataVars, clientVars, chanVars, sessionVars
<1>1. CASE Insert(c) BY <1>1 DEF Insert
<1>2. CASE CopyShared(c) BY <1>2 DEF CopyShared
<1>3. CASE CloseClient(c) BY <1>3 DEF CloseClient
<1>4. CASE Remove(c) BY <1>4 DEF Remove
<1>5. CASE Write(c)
  <2>1. Tail(queue[c]) \in Seq(Msg) BY <1>5, HeadTailProperties DEF Write
  <2> QED BY <1>5, <2>1 DEF Write
<1>6. CASE WriterEnds(c) BY <1>6 DEF WriterEnds
<1> QED BY <1>1, <1>2, <1>3, <1>4, <1>5, <1>6 DEF ClientStep, WriterStep

LEMMA TypeStep == TypeInv /\ [DeliveryNext]_deliveryVars => TypeInv'
<1> SUFFICES ASSUME TypeInv, [DeliveryNext]_deliveryVars PROVE TypeInv'
  OBVIOUS
<1>1. CASE UNCHANGED deliveryVars
  BY <1>1 DEF deliveryVars, TypeInv, DeliveryTypeOK, JobsHold, handlerVars, dataVars,
     clientVars, chanVars, sessionVars
<1>2. CASE DeliveryNext
  BY <1>2, HandlerType, TakeType, JobType, ClientType DEF DeliveryNext, ClientStep
<1> QED BY <1>1, <1>2

(* Type correctness: every variable keeps its type (Manager's channels and  *)
(* maps, Session's data).                                                   *)
THEOREM DeliveryTypeCorrect == DeliverySpec => []DeliveryTypeOK
<1>1. TypeInv => DeliveryTypeOK BY DEF TypeInv
<1> QED BY InitType, TypeStep, <1>1, PTL DEF DeliverySpec

----------------------------------------------------------------------------
(* The order of batches. *)
LEMMA InitOrder == DeliveryInit => OrderInv
<1> SUFFICES ASSUME DeliveryInit PROVE OrderInv OBVIOUS
<1>1. BatchesApart BY DEF DeliveryInit, BatchesApart
<1>2. \A c \in Cid : DOMAIN sent[c] = {} /\ single[c] = None BY DEF DeliveryInit
<1> QED BY <1>1, <1>2 DEF OrderInv, SentWasTaken, ClientsKeepBatchOrder

(* What a goroutine of the batch does to its job. *)
LEMMA JobAdvances ==
  ASSUME NEW m \in Msg, JobStep(m)
  PROVE  /\ UNCHANGED <<handlerVars, closed>>
         /\ \/ job' = job
            \/ /\ job[m] \in {"start", "single", "global", "update", "send"}
               /\ \E pc \in JobPC \ {"new", "batched"} : job' = [job EXCEPT ![m] = pc]
         /\ UNCHANGED <<sent, single>> \/ SetData(m) \/ SendAnswer(m)
<1> USE DEF JobPC, handlerVars, clientVars, chanVars, sessionVars
<1>1. CASE BroadcastStep(m)
  BY <1>1 DEF BroadcastStep, LookupSingle, SetData, WriteShared, BroadcastEnds, Snapshot,
     UpdateSession
<1>2. CASE AnswerStep(m)
  BY <1>2 DEF AnswerStep, AnswerHit, AnswerMiss, SendAnswer, SendPanics
<1>3. CASE PushStep(m) BY <1>3 DEF PushStep, HandOver, PushOut
<1> QED BY <1>1, <1>2, <1>3 DEF JobStep

LEMMA BatchStep ==
  ASSUME TypeInv, BatchesApart, [DeliveryNext]_deliveryVars
  PROVE  BatchesApart'
<1> USE DEF TypeInv, DeliveryTypeOK, BatchesApart
<1>1. CASE UNCHANGED <<handlerVars, job>> BY <1>1 DEF handlerVars
<1>2. ASSUME NEW m \in Msg, Take(m) PROVE BatchesApart'
  <2>1. /\ handler = "collect" /\ job[m] = "new" /\ round' = round
        /\ batchOf' = [batchOf EXCEPT ![m] = round]
        /\ \/ job' = Started(Batch \union {m}) /\ handler' = "wait"
           \/ job' = [job EXCEPT ![m] = "batched"] /\ handler' = handler
    BY <1>2, TakeEffect
  <2>2. \A n \in Msg : /\ batchOf'[n] <= round'
                       /\ job'[n] \notin {"new", "done"} => batchOf'[n] = round'
    BY <2>1 DEF Started, Batch
  <2>3. CASE job' = Started(Batch \union {m}) /\ handler' = "wait"
    BY <2>1, <2>2, <2>3 DEF Started, Batch
  <2>4. CASE job' = [job EXCEPT ![m] = "batched"] /\ handler' = handler
    BY <2>1, <2>2, <2>4
  <2> QED BY <2>1, <2>3, <2>4
<1>3. CASE Tick BY <1>3 DEF Tick, Started, Batch
<1>4. CASE NextBatch BY <1>4 DEF NextBatch, BatchOver
<1>5. ASSUME NEW m \in Msg, JobStep(m) PROVE BatchesApart'
  <2>1. CASE job' = job BY <1>1, <1>5, <2>1, JobAdvances
  <2>2. CASE job' # job
    <3>1. PICK pc \in JobPC \ {"new", "batched"} : job' = [job EXCEPT ![m] = pc]
      BY <1>5, <2>2, JobAdvances
    <3>2. /\ job[m] \in {"start", "single", "global", "update", "send"}
          /\ UNCHANGED <<handler, round, batchOf>>
      BY <1>5, <2>2, JobAdvances DEF handlerVars
    <3> QED BY <3>1, <3>2
  <2> QED BY <2>1, <2>2
<1>6. ASSUME NEW c \in Cid, ClientStep(c) PROVE UNCHANGED <<handlerVars, job>>
  BY <1>6 DEF ClientStep, WriterStep, Insert, CopyShared, CloseClient, Remove, Write,
     WriterEnds
<1> QED BY <1>1, <1>2, <1>3, <1>4, <1>5, <1>6
        DEF DeliveryNext, HandlerStep, ClientStep, deliveryVars

(* A step that sends nothing, and takes no batch number away from a message *)
(* that was sent.                                                           *)
LEMMA SentFrame ==
  ASSUME TypeInv, SentWasTaken, ClientsKeepBatchOrder,
         sent' = sent, closed \subseteq closed',
         \A c \in Cid : single'[c] = single[c] \/ (c \in closed' /\ single'[c] = None),
         \A m \in Msg : job[m] # "new" => job'[m] # "new" /\ batchOf'[m] = batchOf[m]
  PROVE  SentWasTaken' /\ ClientsKeepBatchOrder'
<1>1. \A c \in Cid : \A i \in DOMAIN sent[c] : sent[c][i] \in Msg
  BY DEF TypeInv, DeliveryTypeOK
<1>2. \A c \in Cid : single[c] \in Msg \union {None} BY DEF TypeInv, DeliveryTypeOK
<1> QED BY <1>1, <1>2 DEF SentWasTaken, ClientsKeepBatchOrder

(* A job of the current batch appends to what was sent to its client. *)
LEMMA SentAppend ==
  ASSUME TypeInv, OrderInv, NEW m \in Msg, Target[m] \in Cid,
         job[m] \notin {"new", "done"}, job'[m] # "new",
         \A n \in Msg \ {m} : job'[n] = job[n],
         UNCHANGED <<batchOf, closed>>,
         sent' = [sent EXCEPT ![Target[m]] = Append(@, m)],
         \/ single' = single /\ Kind[m] # "broadcast"
         \/ single' = [single EXCEPT ![Target[m]] = m]
  PROVE  SentWasTaken' /\ ClientsKeepBatchOrder'
<1> DEFINE c == Target[m]
           s == sent[c]
<1>0. sent \in [Cid -> Seq(Msg)] /\ single \in [Cid -> Msg \union {None}]
  BY DEF TypeInv, DeliveryTypeOK
<1>1. /\ s \in Seq(Msg) /\ sent'[c] = Append(s, m)
      /\ \A d \in Cid \ {c} : sent'[d] = sent[d] /\ single'[d] = single[d]
  BY <1>0
<1>s. single'[c] = m \/ (single'[c] = single[c] /\ Kind[m] # "broadcast")
  <2>1. CASE single' = single /\ Kind[m] # "broadcast" BY <2>1
  <2>2. CASE single' = [single EXCEPT ![Target[m]] = m] BY <1>0, <2>2
  <2> QED BY <2>1, <2>2
<1>2. /\ Len(s) \in Nat /\ DOMAIN s = 1 .. Len(s)
      /\ DOMAIN sent'[c] = 1 .. (Len(s) + 1)
      /\ \A i \in 1 .. Len(s) : sent'[c][i] = s[i] /\ s[i] \in Msg
      /\ sent'[c][Len(s) + 1] = m
  <2> DEFINE t == Append(s, m)
  <2>1. /\ t \in Seq(Msg) /\ Len(t) = Len(s) + 1
        /\ \A i \in 1 .. Len(s) : t[i] = s[i]
        /\ t[Len(s) + 1] = m
    BY <1>1, AppendProperties
  <2>2. Len(s) \in Nat /\ DOMAIN s = 1 .. Len(s) /\ DOMAIN t = 1 .. Len(t)
    BY <1>1, <2>1, LenProperties
  <2>3. \A i \in 1 .. Len(s) : s[i] \in Msg BY <1>1, ElementOfSeq
  <2>4. sent'[c] = t BY <1>1
  <2>5. DOMAIN sent'[c] = 1 .. (Len(s) + 1) BY <2>1, <2>2, <2>4
  <2>6. \A i \in 1 .. Len(s) : sent'[c][i] = s[i] BY <2>1, <2>4
  <2>7. sent'[c][Len(s) + 1] = m BY <2>1, <2>4
  <2> QED BY <2>2, <2>3, <2>5, <2>6, <2>7
<1>3. \A n \in Msg : job[n] # "new" => job'[n] # "new" OBVIOUS
<1>4. \A n \in Msg : batchOf[n] \in Nat /\ batchOf[n] <= batchOf[m]
  BY DEF OrderInv, BatchesApart, TypeInv, DeliveryTypeOK
<1>5. \A d \in Cid : \A i \in DOMAIN sent[d] : sent[d][i] \in Msg
  BY DEF TypeInv, DeliveryTypeOK
<1>6. \A d \in Cid : single[d] \in Msg \union {None} BY DEF TypeInv, DeliveryTypeOK
<1>7. SentWasTaken'
  <2> SUFFICES ASSUME NEW d \in Cid
               PROVE  /\ \A i \in DOMAIN sent'[d] : job'[sent'[d][i]] # "new"
                      /\ single'[d] # None => job'[single'[d]] # "new"
    BY DEF SentWasTaken
  <2>1. CASE d # c
    BY <2>1, <1>1, <1>3, <1>5, <1>6 DEF OrderInv, SentWasTaken
  <2>2. CASE d = c
    <3>1. \A i \in 1 .. Len(s) : job'[s[i]] # "new"
      BY <1>2, <1>3, <1>5 DEF OrderInv, SentWasTaken
    <3>2. \A i \in 1 .. (Len(s) + 1) : job'[sent'[c][i]] # "new"
      BY <1>2, <3>1
    <3> QED BY <1>s, <1>2, <1>3, <1>6, <2>2, <3>2 DEF OrderInv, SentWasTaken
  <2> QED BY <2>1, <2>2
<1>8. ClientsKeepBatchOrder'
  <2> SUFFICES ASSUME NEW d \in Cid
      PROVE  /\ \A i, j \in DOMAIN sent'[d] :
                   i < j => batchOf[sent'[d][i]] <= batchOf[sent'[d][j]]
             /\ \A i \in DOMAIN sent'[d] :
                   Kind[sent'[d][i]] = "broadcast" /\ d \notin closed =>
                     single'[d] # None /\ batchOf[single'[d]] >= batchOf[sent'[d][i]]
    BY DEF ClientsKeepBatchOrder
  <2>1. CASE d # c
    BY <2>1, <1>1 DEF OrderInv, ClientsKeepBatchOrder
  <2>2. CASE d = c
    <3>1. ASSUME NEW i \in 1 .. (Len(s) + 1), NEW j \in 1 .. (Len(s) + 1), i < j
          PROVE  batchOf[sent'[c][i]] <= batchOf[sent'[c][j]]
      <4>1. i \in 1 .. Len(s) BY <3>1, <1>2
      <4>2. CASE j = Len(s) + 1 BY <4>1, <4>2, <1>2, <1>4
      <4>3. CASE j \in 1 .. Len(s)
        BY <3>1, <4>1, <4>3, <1>2 DEF OrderInv, ClientsKeepBatchOrder
      <4> QED BY <4>2, <4>3, <1>2
    <3>2. ASSUME NEW i \in 1 .. (Len(s) + 1), Kind[sent'[c][i]] = "broadcast", c \notin closed
          PROVE  single'[c] # None /\ batchOf[single'[c]] >= batchOf[sent'[c][i]]
      <4>1. sent'[c][i] \in Msg BY <1>2
      <4>2. CASE single'[c] = m
        BY <4>1, <4>2, <1>4, MessageAssumption
      <4>3. CASE single'[c] = single[c] /\ Kind[m] # "broadcast"
        <5>1. i \in 1 .. Len(s) BY <3>2, <4>3, <1>2
        <5> QED BY <3>2, <4>3, <5>1, <1>2 DEF OrderInv, ClientsKeepBatchOrder
      <4> QED BY <4>2, <4>3, <1>s
    <3> QED BY <2>2, <3>1, <3>2, <1>2
  <2> QED BY <2>1, <2>2
<1> QED BY <1>7, <1>8

LEMMA SentStep ==
  ASSUME TypeInv, OrderInv, [DeliveryNext]_deliveryVars
  PROVE  SentWasTaken' /\ ClientsKeepBatchOrder'
<1> USE DEF OrderInv
<1>1. CASE /\ UNCHANGED <<sent, single, closed, batchOf>>
           /\ \A m \in Msg : job[m] # "new" => job'[m] # "new"
  BY <1>1, SentFrame
<1>2. ASSUME NEW m \in Msg, Take(m) PROVE SentWasTaken' /\ ClientsKeepBatchOrder'
  <2>1. /\ job[m] = "new" /\ batchOf' = [batchOf EXCEPT ![m] = round]
        /\ \/ job' = Started(Batch \union {m})
           \/ job' = [job EXCEPT ![m] = "batched"]
        /\ UNCHANGED <<sent, single, closed>>
    BY <1>2, TakeEffect DEF chanVars, sessionVars, clientVars
  <2>2. \A n \in Msg : job[n] # "new" => job'[n] # "new" /\ batchOf'[n] = batchOf[n]
    BY <2>1 DEF Started, Batch, TypeInv, DeliveryTypeOK
  <2> QED BY <2>1, <2>2, SentFrame
<1>3. CASE HandlerStep
  <2>1. UNCHANGED <<sent, single, closed, batchOf>>
    BY <1>3 DEF HandlerStep, Tick, NextBatch, chanVars, sessionVars, clientVars
  <2>2. \A m \in Msg : job[m] # "new" => job'[m] # "new"
    BY <1>3 DEF HandlerStep, Tick, NextBatch, Started, Batch
  <2> QED BY <1>1, <2>1, <2>2
<1>4. ASSUME NEW m \in Msg, JobStep(m) PROVE SentWasTaken' /\ ClientsKeepBatchOrder'
  <2>1. /\ UNCHANGED <<batchOf, closed>>
        /\ \A n \in Msg : job[n] # "new" => job'[n] # "new"
    BY <1>4, JobAdvances DEF handlerVars, TypeInv, DeliveryTypeOK
  <2>2. CASE UNCHANGED <<sent, single>> BY <2>1, <2>2, <1>1
  <2>3. CASE SetData(m)
    <3>1. Target[m] \in Cid BY <2>3 DEF SetData, TypeInv, JobsHold
    <3>2. /\ job[m] = "single" /\ job' = [job EXCEPT ![m] = "global"]
          /\ single' = [single EXCEPT ![Target[m]] = m]
          /\ sent' = [sent EXCEPT ![Target[m]] = Append(@, m)]
      BY <2>3 DEF SetData
    <3>3. job'[m] # "new" /\ \A n \in Msg \ {m} : job'[n] = job[n]
      BY <3>2 DEF TypeInv, DeliveryTypeOK
    <3> QED BY <2>1, <3>1, <3>2, <3>3, SentAppend
  <2>4. CASE SendAnswer(m)
    <3>1. Target[m] \in Cid /\ Kind[m] = "answer" BY <2>4 DEF SendAnswer, TypeInv, JobsHold
    <3>2. /\ job[m] = "send" /\ job' = [job EXCEPT ![m] = "done"]
          /\ single' = single
          /\ sent' = [sent EXCEPT ![Target[m]] = Append(@, m)]
      BY <2>4 DEF SendAnswer, sessionVars
    <3>3. job'[m] # "new" /\ \A n \in Msg \ {m} : job'[n] = job[n]
      BY <3>2 DEF TypeInv, DeliveryTypeOK
    <3> QED BY <2>1, <3>1, <3>2, <3>3, SentAppend
  <2> QED BY <1>4, <2>2, <2>3, <2>4, JobAdvances
<1>5. ASSUME NEW c \in Cid, ClientStep(c) PROVE SentWasTaken' /\ ClientsKeepBatchOrder'
  <2>1. /\ UNCHANGED <<sent, handlerVars, job>>
        /\ closed \subseteq closed'
        /\ UNCHANGED single \/ CloseClient(c)
    BY <1>5 DEF ClientStep, WriterStep, Insert, CopyShared, CloseClient, Remove, Write,
       WriterEnds, chanVars, sessionVars, clientVars
  <2>2. \A d \in Cid : single'[d] = single[d] \/ (d \in closed' /\ single'[d] = None)
    BY <2>1 DEF CloseClient, TypeInv, DeliveryTypeOK
  <2> QED BY <2>1, <2>2, SentFrame DEF handlerVars
<1>6. CASE UNCHANGED deliveryVars
  BY <1>1, <1>6 DEF deliveryVars, chanVars, sessionVars, clientVars, handlerVars
<1> QED BY <1>2, <1>3, <1>4, <1>5, <1>6 DEF DeliveryNext, ClientStep

(* Answers and session data of a later batch never overtake those of an     *)
(* earlier one: remoteReadChanHandler waits for all goroutines of a batch   *)
(* before it collects the next (ws_manager.go:208-243).                     *)
THEOREM BatchOrderKept == DeliverySpec => []ClientsKeepBatchOrder
<1>1. DeliveryInit => TypeInv /\ OrderInv BY InitType, InitOrder
<1>2. TypeInv /\ OrderInv /\ [DeliveryNext]_deliveryVars => TypeInv' /\ OrderInv'
  BY TypeStep, BatchStep, SentStep DEF OrderInv
<1>3. OrderInv => ClientsKeepBatchOrder BY DEF OrderInv
<1> QED BY <1>1, <1>2, <1>3, PTL DEF DeliverySpec

----------------------------------------------------------------------------
(* The sessions and the shared data. *)
LEMMA InitSession == DeliveryInit => SessionInv
BY DEF DeliveryInit, Nothing, SessionInv, WorkIsUpdating, WritersAreKnown,
   PendingOrComplete, PendingOrRecent, Settled

(* A step that is not part of a broadcast of shared data, of the copy made  *)
(* by addClient or of a close.                                              *)
LEMMA SessionFrame ==
  ASSUME SessionInv,
         UNCHANGED <<shared, rivals, scan, todo, all>>,
         \A m \in Msg : job'[m] = "update" <=> job[m] = "update",
         Settled' \subseteq Settled
  PROVE  SessionInv'
<1>1. \A c, k : (Pending(c, k)' <=> Pending(c, k)) /\ (LastPending(c, k)' <=> LastPending(c, k))
  BY DEF Pending, LastPending
<1> QED BY <1>1 DEF SessionInv, WorkIsUpdating, WritersAreKnown, PendingOrComplete,
           PendingOrRecent

(* The data is written before the clients are looked at. *)
LEMMA WriteSession ==
  ASSUME TypeInv, SessionInv, NEW m \in Msg, WriteShared(m)
  PROVE  SessionInv'
<1>1. /\ job[m] # "update" /\ job' = [job EXCEPT ![m] = "update"]
      /\ shared' = [k \in Key |-> IF k \in Keys[m] THEN m ELSE shared[k]]
      /\ scan' = [scan EXCEPT ![m] = Bucket]
      /\ rivals' = [k \in Key |-> IF k \in Keys[m] THEN {n \in Updating : k \in Keys[n]}
                                  ELSE rivals[k]]
      /\ UNCHANGED <<all, todo, clients, closed, admission>>
  BY DEF WriteShared, sessionVars, clientVars
<1>2. /\ job \in [Msg -> JobPC] /\ scan \in [Msg -> SUBSET Bucket] /\ m # None
  BY MessageAssumption DEF TypeInv, DeliveryTypeOK
<1>3. \A n \in Msg : (job'[n] = "update" <=> job[n] = "update" \/ n = m)
                     /\ (n # m => scan'[n] = scan[n])
  BY <1>1, <1>2
<1>4. job'[m] = "update" /\ scan'[m] = Bucket BY <1>1, <1>2
<1>5. Settled' = Settled /\ Settled \subseteq Cid
  BY <1>1 DEF Settled, TypeInv, DeliveryTypeOK
<1>6. WorkIsUpdating'
  BY <1>1, <1>3 DEF SessionInv, WorkIsUpdating
<1>7. WritersAreKnown'
  <2> SUFFICES ASSUME NEW k \in Key
      PROVE  /\ shared'[k] = None => \A c \in Cid : all[c][k] = None
             /\ \A n \in Msg : job'[n] = "update" /\ k \in Keys[n] =>
                    /\ shared'[k] # None
                    /\ n \in {shared'[k]} \union rivals'[k]
    BY <1>1 DEF WritersAreKnown
  <2>1. CASE k \in Keys[m]
    <3>1. shared'[k] = m BY <1>1, <2>1
    <3>2. \A n \in Msg : job'[n] = "update" /\ k \in Keys[n] /\ n # m => n \in rivals'[k]
      BY <1>1, <1>3, <2>1 DEF Updating
    <3> QED BY <1>2, <3>1, <3>2
  <2>2. CASE k \notin Keys[m]
    <3>1. shared'[k] = shared[k] /\ rivals'[k] = rivals[k] BY <1>1, <2>2
    <3> QED BY <1>3, <2>2, <3>1 DEF SessionInv, WritersAreKnown
  <2> QED BY <2>1, <2>2
<1>8. \A c \in Settled, k \in Key : k \in Keys[m] => Pending(c, k)' /\ LastPending(c, k)'
  BY <1>1, <1>4, <1>5, ClientAssumption DEF Pending, LastPending
<1>9. \A c, k : Pending(c, k) => Pending(c, k)'
  BY <1>1, <1>3, <1>4, <1>2 DEF Pending, SessionInv, WorkIsUpdating
<1>10. \A k \in Key : k \notin Keys[m] => shared'[k] = shared[k] /\ rivals'[k] = rivals[k]
  BY <1>1
<1>11. \A c, k : k \in Key /\ k \notin Keys[m] /\ LastPending(c, k) => LastPending(c, k)'
  BY <1>1, <1>3, <1>4, <1>2, <1>10 DEF LastPending
<1>12. PendingOrComplete'
  BY <1>1, <1>5, <1>8, <1>9, <1>10 DEF SessionInv, PendingOrComplete
<1>13. PendingOrRecent'
  BY <1>1, <1>5, <1>8, <1>10, <1>11 DEF SessionInv, PendingOrRecent
<1> QED BY <1>6, <1>7, <1>12, <1>13 DEF SessionInv

(* Whoever is in a bucket when it is read will be updated. *)
LEMMA SnapshotSession ==
  ASSUME TypeInv, SessionInv, NEW m \in Msg, NEW b \in Bucket, Snapshot(m, b)
  PROVE  SessionInv'
<1>1. /\ b \in scan[m]
      /\ scan' = [scan EXCEPT ![m] = @ \ {b}]
      /\ todo' = [todo EXCEPT ![m] = @ \union {c \in clients : BucketOf[c] = b}]
      /\ UNCHANGED <<job, shared, rivals, all, clients, closed, admission>>
  BY DEF Snapshot, sessionVars, clientVars
<1>2. scan \in [Msg -> SUBSET Bucket] /\ todo \in [Msg -> SUBSET Cid]
  BY DEF TypeInv, DeliveryTypeOK
<1>3. \A n \in Msg : n # m => scan'[n] = scan[n] /\ todo'[n] = todo[n]
  BY <1>1, <1>2
<1>4. /\ scan'[m] = scan[m] \ {b}
      /\ todo'[m] = todo[m] \union {c \in clients : BucketOf[c] = b}
  BY <1>1, <1>2
<1>5. Settled' = Settled /\ Settled \subseteq clients BY <1>1 DEF Settled
<1>6. WorkIsUpdating'
  BY <1>1, <1>3 DEF SessionInv, WorkIsUpdating
<1>7. WritersAreKnown' BY <1>1 DEF SessionInv, WritersAreKnown
<1>8. \A c \in Settled, k \in Key : /\ Pending(c, k) => Pending(c, k)'
                                    /\ LastPending(c, k) => LastPending(c, k)'
  BY <1>1, <1>3, <1>4, <1>5 DEF Pending, LastPending
<1> QED BY <1>1, <1>5, <1>6, <1>7, <1>8
        DEF SessionInv, PendingOrComplete, PendingOrRecent

(* SetAll gives the session the broadcast's value. *)
LEMMA UpdateSessions ==
  ASSUME TypeInv, SessionInv, NEW m \in Msg, NEW d \in Cid, UpdateSession(m, d)
  PROVE  SessionInv'
<1>1. /\ d \in todo[m]
      /\ todo' = [todo EXCEPT ![m] = @ \ {d}]
      /\ all' = [all EXCEPT ![d] = SetAll(d, m)]
      /\ UNCHANGED <<job, shared, scan, rivals, clients, closed, admission>>
  BY DEF UpdateSession, clientVars
<1>2. /\ todo \in [Msg -> SUBSET Cid] /\ all \in [Cid -> [Key -> Msg \union {None}]]
      /\ m # None
  BY MessageAssumption DEF TypeInv, DeliveryTypeOK
<1>3. job[m] = "update" BY <1>1 DEF SessionInv, WorkIsUpdating
<1>4. /\ \A n \in Msg : n # m => todo'[n] = todo[n]
      /\ todo'[m] = todo[m] \ {d}
  BY <1>1, <1>2
<1>5. /\ \A c \in Cid : c # d => all'[c] = all[c]
      /\ \A k \in Key : all'[d][k] = IF k \in Keys[m] THEN m ELSE all[d][k]
  BY <1>1, <1>2 DEF SetAll
<1>6. Settled' = Settled /\ Settled \subseteq Cid
  BY <1>1 DEF Settled, TypeInv, DeliveryTypeOK
<1>7. WorkIsUpdating'
  BY <1>1, <1>3, <1>4 DEF SessionInv, WorkIsUpdating
<1>8. WritersAreKnown'
  <2>1. \A k \in Key : k \in Keys[m] => shared[k] # None
    BY <1>3 DEF SessionInv, WritersAreKnown
  <2>2. \A k \in Key, c \in Cid : shared[k] = None => all'[c][k] = None
    BY <1>5, <2>1 DEF SessionInv, WritersAreKnown
  <2> QED BY <1>1, <2>2 DEF SessionInv, WritersAreKnown
<1>9. \A c \in Settled, k \in Key :
         /\ Pending(c, k) => Pending(c, k)' \/ (c = d /\ k \in Keys[m])
         /\ LastPending(c, k) => LastPending(c, k)' \/ (c = d /\ k \in Keys[m])
  BY <1>1, <1>4 DEF Pending, LastPending
<1>10. \A k \in Key : k \in Keys[m] => /\ all'[d][k] = m
                                       /\ m \in {shared[k]} \union rivals[k]
  BY <1>3, <1>5 DEF SessionInv, WritersAreKnown
<1>11. PendingOrComplete'
  BY <1>1, <1>2, <1>5, <1>6, <1>9, <1>10 DEF SessionInv, PendingOrComplete
<1>12. PendingOrRecent'
  BY <1>1, <1>5, <1>6, <1>9, <1>10 DEF SessionInv, PendingOrRecent
<1> QED BY <1>7, <1>8, <1>11, <1>12 DEF SessionInv

LEMMA EndSession ==
  ASSUME TypeInv, SessionInv, NEW m \in Msg, BroadcastEnds(m)
  PROVE  SessionInv'
<1>1. /\ job' = [job EXCEPT ![m] = "done"] /\ scan[m] = {} /\ todo[m] = {}
      /\ UNCHANGED <<shared, scan, todo, rivals, all, clients, closed, admission>>
  BY DEF BroadcastEnds, AllUpdated, dataVars, sessionVars, clientVars
<1>2. \A n \in Msg : job'[n] = "update" <=> job[n] = "update" /\ n # m
  BY <1>1 DEF TypeInv, DeliveryTypeOK
<1>3. \A c \in Settled, k \in Key : Pending(c, k) => Pending(c, k)'
  BY <1>1, <1>2 DEF Pending
<1>4. \A c \in Settled, k \in Key : LastPending(c, k) => LastPending(c, k)'
  BY <1>1, <1>2 DEF LastPending
<1>5. Settled' = Settled BY <1>1 DEF Settled
<1>6. WorkIsUpdating' BY <1>1, <1>2 DEF SessionInv, WorkIsUpdating
<1>7. WritersAreKnown' BY <1>1, <1>2 DEF SessionInv, WritersAreKnown
<1>8. PendingOrComplete' BY <1>1, <1>3, <1>5 DEF SessionInv, PendingOrComplete
<1>9. PendingOrRecent' BY <1>1, <1>5, <1>4 DEF SessionInv, PendingOrRecent
<1> QED BY <1>6, <1>7, <1>8, <1>9 DEF SessionInv

(* addClient copies the shared data after it has put the client into the    *)
(* map: a broadcast it does not see in the data will see the client.        *)
LEMMA CopySession ==
  ASSUME TypeInv, SessionInv, NEW d \in Cid, CopyShared(d)
  PROVE  SessionInv'
<1>1. /\ admission' = [admission EXCEPT ![d] = "done"]
      /\ all' = [all EXCEPT ![d] =
                   [k \in Key |-> IF shared[k] = None THEN @[k] ELSE shared[k]]]
      /\ UNCHANGED <<job, shared, scan, todo, rivals, clients, closed>>
  BY DEF CopyShared, dataVars
<1>2. /\ admission \in [Cid -> {"new", "inserted", "done"}]
      /\ all \in [Cid -> [Key -> Msg \union {None}]]
      /\ clients \subseteq Cid
  BY DEF TypeInv, DeliveryTypeOK
<1>3. \A c \in Cid : c # d => all'[c] = all[c] BY <1>1, <1>2
<1>4. \A k \in Key : all'[d][k] = IF shared[k] = None THEN all[d][k] ELSE shared[k]
  BY <1>1, <1>2
<1>5. \A k \in Key : all'[d][k] = shared[k]
  BY <1>4 DEF SessionInv, WritersAreKnown
<1>6. Settled' \subseteq Settled \union {d} /\ Settled' \subseteq Cid
  BY <1>1, <1>2 DEF Settled
<1>7. \A c, k : (Pending(c, k)' <=> Pending(c, k)) /\ (LastPending(c, k)' <=> LastPending(c, k))
  BY <1>1 DEF Pending, LastPending
<1>8. WorkIsUpdating' BY <1>1 DEF SessionInv, WorkIsUpdating
<1>9. WritersAreKnown' BY <1>1, <1>3, <1>5 DEF SessionInv, WritersAreKnown
<1>10. PendingOrComplete'
  BY <1>1, <1>3, <1>5, <1>6, <1>7 DEF SessionInv, PendingOrComplete
<1>11. PendingOrRecent'
  BY <1>1, <1>3, <1>5, <1>6, <1>7 DEF SessionInv, PendingOrRecent
<1> QED BY <1>8, <1>9, <1>10, <1>11 DEF SessionInv

LEMMA CloseSession ==
  ASSUME TypeInv, SessionInv, NEW d \in Cid, CloseClient(d)
  PROVE  SessionInv'
<1>1. /\ closed' = closed \union {d}
      /\ all' = [all EXCEPT ![d] = Nothing]
      /\ UNCHANGED <<job, shared, scan, todo, rivals, clients, admission>>
  BY DEF CloseClient, dataVars
<1>2. all \in [Cid -> [Key -> Msg \union {None}]] /\ clients \subseteq Cid
  BY DEF TypeInv, DeliveryTypeOK
<1>3. /\ \A c \in Cid : c # d => all'[c] = all[c]
      /\ \A k \in Key : all'[d][k] = None
  BY <1>1, <1>2 DEF Nothing
<1>4. Settled' \subseteq Settled \ {d} /\ Settled \subseteq Cid BY <1>1, <1>2 DEF Settled
<1>5. \A c, k : (Pending(c, k)' <=> Pending(c, k)) /\ (LastPending(c, k)' <=> LastPending(c, k))
  BY <1>1 DEF Pending, LastPending
<1>6. WorkIsUpdating' BY <1>1 DEF SessionInv, WorkIsUpdating
<1>7. WritersAreKnown' BY <1>1, <1>3 DEF SessionInv, WritersAreKnown
<1>8. PendingOrComplete'
  BY <1>1, <1>3, <1>4, <1>5 DEF SessionInv, PendingOrComplete
<1>9. PendingOrRecent'
  BY <1>1, <1>3, <1>4, <1>5 DEF SessionInv, PendingOrRecent
<1> QED BY <1>6, <1>7, <1>8, <1>9 DEF SessionInv

LEMMA ClientSession ==
  ASSUME TypeInv, SessionInv, NEW c \in Cid, ClientStep(c)
  PROVE  SessionInv'
<1> USE DEF TypeInv, DeliveryTypeOK, Settled
<1>1. CASE Insert(c) \/ Remove(c) \/ WriterStep(c)
  <2>1. UNCHANGED <<job, shared, scan, todo, rivals, all, closed>>
    BY <1>1 DEF Insert, Remove, WriterStep, Write, WriterEnds, dataVars, sessionVars,
       clientVars
  <2>2. Settled' \subseteq Settled
    BY <1>1 DEF Insert, Remove, WriterStep, Write, WriterEnds, clientVars
  <2> QED BY <2>1, <2>2, SessionFrame
<1>2. CASE CopyShared(c) BY <1>2, CopySession
<1>3. CASE CloseClient(c) BY <1>3, CloseSession
<1> QED BY <1>1, <1>2, <1>3 DEF ClientStep

(* The other jobs neither begin nor end a broadcast of shared data. *)
LEMMA JobSession ==
  ASSUME TypeInv, SessionInv, NEW m \in Msg, JobStep(m)
  PROVE  SessionInv'
<1>1. CASE LookupSingle(m) \/ SetData(m) \/ AnswerStep(m) \/ PushStep(m)
  <2>1. UNCHANGED <<shared, scan, todo, rivals, all, clients, closed, admission>>
    BY <1>1 DEF LookupSingle, SetData, AnswerStep, AnswerHit, AnswerMiss, SendAnswer,
       SendPanics, PushStep, HandOver, PushOut, dataVars, sessionVars, clientVars
  <2>2. \A n \in Msg : job'[n] = "update" <=> job[n] = "update"
    BY <1>1 DEF LookupSingle, SetData, AnswerStep, AnswerHit, AnswerMiss, SendAnswer,
       SendPanics, PushStep, HandOver, PushOut, TypeInv, DeliveryTypeOK
  <2> QED BY <2>1, <2>2, SessionFrame DEF Settled
<1> QED BY <1>1, WriteSession, SnapshotSession, UpdateSessions, EndSession
        DEF JobStep, BroadcastStep

LEMMA HandlerSession ==
  ASSUME TypeInv, SessionInv, HandlerStep \/ \E m \in Msg : Take(m)
  PROVE  SessionInv'
<1>1. UNCHANGED <<shared, scan, todo, rivals, all, clients, closed, admission>>
  <2>1. CASE HandlerStep
    BY <2>1 DEF HandlerStep, Tick, NextBatch, dataVars, sessionVars, clientVars
  <2>2. ASSUME NEW m \in Msg, Take(m)
        PROVE  UNCHANGED <<shared, scan, todo, rivals, all, clients, closed, admission>>
    BY <2>2, TakeEffect DEF dataVars, sessionVars, clientVars
  <2> QED BY <2>1, <2>2
<1>2. \A n \in Msg : job'[n] = "update" <=> job[n] = "update"
  <2>1. CASE HandlerStep
    BY <2>1 DEF HandlerStep, Tick, NextBatch, Started, Batch
  <2>2. ASSUME NEW m \in Msg, Take(m)
        PROVE  \A n \in Msg : job'[n] = "update" <=> job[n] = "update"
    <3>1. /\ job[m] = "new"
          /\ \/ job' = Started(Batch \union {m})
             \/ job' = [job EXCEPT ![m] = "batched"]
      BY <2>2, TakeEffect
    <3> QED BY <3>1 DEF Started, Batch, TypeInv, DeliveryTypeOK
  <2> QED BY <2>1, <2>2
<1> QED BY <1>1, <1>2, SessionFrame DEF Settled

(* The inductive invariant of the session data. *)
THEOREM SessionsHold == DeliverySpec => [](TypeInv /\ SessionInv)
<1>1. DeliveryInit => TypeInv /\ SessionInv BY InitType, InitSession
<1>2. TypeInv /\ SessionInv /\ [DeliveryNext]_deliveryVars => SessionInv'
  <2> SUFFICES ASSUME TypeInv, SessionInv, [DeliveryNext]_deliveryVars PROVE SessionInv'
    OBVIOUS
  <2>1. CASE UNCHANGED deliveryVars
    BY <2>1, SessionFrame DEF deliveryVars, dataVars, sessionVars, clientVars, Settled
  <2>2. CASE DeliveryNext
    BY <2>2, HandlerSession, JobSession, ClientSession DEF DeliveryNext, ClientStep
  <2> QED BY <2>1, <2>2
<1> QED BY <1>1, <1>2, TypeStep, PTL DEF DeliverySpec

(* No client that is admitted while a broadcast is under way misses it:     *)
(* addClient copies the data after the map has the client                   *)
(* (ws_manager.go:485-490), setSessionData reads the maps after it has      *)
(* changed the data (413-430).                                              *)
THEOREM BroadcastsComplete == DeliverySpec => []SessionsComplete
<1>1. TypeInv /\ SessionInv => SessionsComplete
  BY DEF SessionInv, PendingOrComplete, Pending, SessionsComplete, Quiet, Updating
<1> QED BY <1>1, SessionsHold, PTL

(* Once the broadcasts of a key have ended, every session has the value of   *)
(* Manager.data or that of a broadcast which was under way when that was    *)
(* written (ws_manager.go:408-446): no older one survives.                  *)
THEOREM BroadcastsAgree == DeliverySpec => []SessionsAgree
<1>1. TypeInv /\ SessionInv => SessionsAgree
  BY DEF SessionInv, PendingOrRecent, LastPending, SessionsAgree, Quiet, Updating
<1> QED BY <1>1, SessionsHold, PTL
=============================================================================
