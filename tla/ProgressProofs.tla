--------------------------- MODULE ProgressProofs ---------------------------
(***************************************************************************)
(* Theorems about Dispatch, for every number of clients, messages and      *)
(* workers, every hash and every capacity; about Register and Resolver,    *)
(* for every number of instances and changes; and about the composition of *)
(* these with Shutdown.                                                    *)
(***************************************************************************)
EXTENDS MCProgress, WellOrder, SequenceTheorems, TLAPS

(* A client's messages are read in the order in which it sent them. *)
ReadInOrder ==
    \A m, n \in Packet : m[1] = n[1] /\ m[2] < n[2] /\ stage[m] = "unread"
                         => stage[n] = "unread"

(* Messages of one client stand in the order of sending. *)
Sorted(s) ==
    \A i, j \in DOMAIN s : i < j /\ s[i][1] = s[j][1] => s[i][2] < s[j][2]

(* What waits is in ClientReadChan or in the queue of its client's worker,  *)
(* in order, and what is in the queue was sent before what is not.          *)
Queued ==
    /\ Sorted(readChan)
    /\ \A m \in Range(readChan) : stage[m] = "waiting" /\ m \notin overflowed
    /\ \A w \in Worker :
           /\ Sorted(queue[w])
           /\ \A m \in Range(queue[w]) :
                  /\ stage[m] = "waiting" /\ m \notin overflowed /\ WorkerOf[m[1]] = w
                  /\ \A n \in Range(readChan) : m[1] = n[1] => m[2] < n[2]
    /\ \A m \in Packet :
           stage[m] = "waiting" => m \in Range(readChan) \union Range(queue[WorkerOf[m[1]]])

(* A worker takes up a message only when it is done with all that the       *)
(* client sent before and that went through the queue.                      *)
HandledInOrder ==
    \A m, n \in Packet \ overflowed :
        m[1] = n[1] /\ m[2] < n[2] /\ stage[n] \in {"decode", "send", "done"}
        => stage[m] = "done"

EffectsAreDone ==
    \A c \in Peer : \A m \in Range(effects[c]) : m[1] = c /\ stage[m] = "done"

(* A message with a goroutine of its own has left ClientReadChan. *)
OverflowedAreRead == \A m \in overflowed : stage[m] \notin {"unread", "waiting"}

OrderInv ==
    /\ ReadInOrder
    /\ OverflowedAreRead
    /\ Queued
    /\ HandledInOrder
    /\ EffectsAreDone
    /\ OrderUnlessOverflow

----------------------------------------------------------------------------
(* Messages and sequences of messages. *)
LEMMA PacketShape ==
  /\ \A m \in Packet : /\ m[1] \in Peer /\ m[2] \in Nat \ {0}
                       /\ m = <<m[1], m[2]>>
                       /\ Inbox[m[1]] \in Seq(Refused \union Answered \union Silent
                                              \union {"remote"})
                       /\ m[2] \in DOMAIN Inbox[m[1]]
  /\ \A m \in Packet : m[2] > 1 => <<m[1], m[2] - 1>> \in Packet
<1>1. ASSUME NEW m \in Packet
      PROVE  /\ m[1] \in Peer /\ m[2] \in Nat \ {0} /\ m = <<m[1], m[2]>>
             /\ Inbox[m[1]] \in Seq(Refused \union Answered \union Silent
                                    \union {"remote"})
             /\ m[2] \in DOMAIN Inbox[m[1]]
             /\ m[2] > 1 => <<m[1], m[2] - 1>> \in Packet
  <2>1. PICK c \in Peer : m \in {c} \X DOMAIN Inbox[c] BY DEF Packet
  <2>2. m[1] = c /\ m[2] \in DOMAIN Inbox[c] /\ m = <<c, m[2]>> BY <2>1
  <2>3. Inbox[c] \in Seq(Refused \union Answered \union Silent \union {"remote"})
    BY DispatchAssumption
  <2>4. DOMAIN Inbox[c] = 1 .. Len(Inbox[c]) /\ Len(Inbox[c]) \in Nat BY <2>3, LenProperties
  <2>5. m[2] \in Nat \ {0} BY <2>2, <2>4
  <2>6. ASSUME m[2] > 1 PROVE <<c, m[2] - 1>> \in Packet
    <3>1. m[2] - 1 \in DOMAIN Inbox[c] BY <2>2, <2>4, <2>6
    <3> QED BY <3>1 DEF Packet
  <2> QED BY <2>2, <2>3, <2>5, <2>6
<1> QED BY <1>1

LEMMA RangeAppend ==
  ASSUME NEW S, NEW s \in Seq(S), NEW e \in S
  PROVE  Range(Append(s, e)) = Range(s) \union {e}
<1> DEFINE t == Append(s, e)
<1>1. /\ Len(s) \in Nat /\ DOMAIN s = 1 .. Len(s) /\ DOMAIN t = 1 .. (Len(s) + 1)
      /\ \A i \in 1 .. Len(s) : t[i] = s[i]
      /\ t[Len(s) + 1] = e
  BY AppendProperties, LenProperties
<1>2. Range(t) \subseteq Range(s) \union {e}
  <2> SUFFICES ASSUME NEW i \in DOMAIN t PROVE t[i] \in Range(s) \union {e}
    BY DEF Range
  <2> QED BY <1>1 DEF Range
<1>3. Range(s) \union {e} \subseteq Range(t)
  <2>1. \A i \in DOMAIN s : i \in DOMAIN t /\ t[i] = s[i] BY <1>1
  <2>2. Len(s) + 1 \in DOMAIN t BY <1>1
  <2> QED BY <1>1, <2>1, <2>2 DEF Range
<1> QED BY <1>2, <1>3

LEMMA RangeTail ==
  ASSUME NEW S, NEW s \in Seq(S), s # <<>>
  PROVE  /\ Head(s) \in S /\ Tail(s) \in Seq(S)
         /\ Range(s) = Range(Tail(s)) \union {Head(s)}
         /\ \A i \in DOMAIN Tail(s) : i + 1 \in DOMAIN s /\ Tail(s)[i] = s[i + 1]
         /\ 1 \in DOMAIN s /\ Head(s) = s[1]
         /\ DOMAIN s \subseteq Nat /\ DOMAIN Tail(s) \subseteq Nat \ {0}
<1> DEFINE t == Tail(s)
<1>1. /\ Head(s) \in S /\ t \in Seq(S) /\ Len(t) = Len(s) - 1
      /\ \A i \in 1 .. Len(t) : t[i] = s[i + 1]
  BY HeadTailProperties
<1>2. /\ Len(s) \in Nat /\ DOMAIN s = 1 .. Len(s) /\ DOMAIN t = 1 .. Len(t)
      /\ Len(t) \in Nat
  BY <1>1, LenProperties
<1>3. /\ \A i \in DOMAIN t : i + 1 \in DOMAIN s /\ t[i] = s[i + 1]
      /\ 1 \in DOMAIN s /\ Head(s) = s[1]
      /\ DOMAIN s \subseteq Nat /\ DOMAIN t \subseteq Nat \ {0}
  <2> HIDE DEF t
  <2> QED BY <1>1, <1>2
<1>4. Range(t) \union {Head(s)} \subseteq Range(s)
  <2> SUFFICES ASSUME NEW i \in DOMAIN t PROVE t[i] \in Range(s)
    BY <1>3 DEF Range
  <2> QED BY <1>3 DEF Range
<1>5. Range(s) \subseteq Range(t) \union {Head(s)}
  <2> SUFFICES ASSUME NEW i \in DOMAIN s, i # 1 PROVE s[i] \in Range(t)
    BY <1>3 DEF Range
  <2>1. i - 1 \in DOMAIN t /\ (i - 1) + 1 = i BY <1>1, <1>2
  <2>2. t[i - 1] = s[i] BY <1>3, <2>1
  <2> QED BY <2>1, <2>2 DEF Range
<1> QED BY <1>1, <1>3, <1>4, <1>5

(* A message goes to the end when what is there was sent before. *)
LEMMA SortedAppend ==
  ASSUME NEW s \in Seq(Packet), Sorted(s), NEW m \in Packet,
         \A n \in Range(s) : n[1] = m[1] => n[2] < m[2]
  PROVE  Sorted(Append(s, m))
<1> DEFINE t == Append(s, m)
<1>1. /\ Len(s) \in Nat /\ DOMAIN s = 1 .. Len(s) /\ DOMAIN t = 1 .. (Len(s) + 1)
      /\ \A i \in 1 .. Len(s) : t[i] = s[i]
      /\ t[Len(s) + 1] = m
  BY AppendProperties, LenProperties
<1> SUFFICES ASSUME NEW i \in DOMAIN t, NEW j \in DOMAIN t, i < j, t[i][1] = t[j][1]
             PROVE  t[i][2] < t[j][2]
  BY DEF Sorted
<1>2. i \in 1 .. Len(s) /\ t[i] = s[i] /\ s[i] \in Range(s) BY <1>1 DEF Range
<1>3. CASE j = Len(s) + 1 BY <1>1, <1>2, <1>3
<1>4. CASE j \in 1 .. Len(s) BY <1>1, <1>2, <1>4 DEF Sorted
<1> QED BY <1>1, <1>3, <1>4

(* What is taken from the front was sent before what remains. *)
LEMMA SortedTail ==
  ASSUME NEW s \in Seq(Packet), Sorted(s), s # <<>>
  PROVE  /\ Sorted(Tail(s))
         /\ \A n \in Range(Tail(s)) : n[1] = Head(s)[1] => Head(s)[2] < n[2]
<1> DEFINE t == Tail(s)
<1>1. /\ \A i \in DOMAIN t : i + 1 \in DOMAIN s /\ t[i] = s[i + 1]
      /\ 1 \in DOMAIN s /\ Head(s) = s[1]
      /\ DOMAIN s \subseteq Nat /\ DOMAIN t \subseteq Nat \ {0}
  BY RangeTail
<1> HIDE DEF t
<1>2. Sorted(t) BY <1>1 DEF Sorted
<1>3. ASSUME NEW n \in Range(t), n[1] = Head(s)[1] PROVE Head(s)[2] < n[2]
  <2>1. PICK i \in DOMAIN t : n = t[i] BY DEF Range
  <2>2. i + 1 \in DOMAIN s /\ n = s[i + 1] /\ 1 < i + 1 BY <1>1, <2>1
  <2> QED BY <1>1, <1>3, <2>2 DEF Sorted
<1> QED BY <1>2, <1>3 DEF t

----------------------------------------------------------------------------
(* Type correctness. *)
LEMMA InitType == DispatchInit => DispatchTypeOK
<1> SUFFICES ASSUME DispatchInit PROVE DispatchTypeOK OBVIOUS
<1>1. <<>> \in Seq(Packet) /\ Len(<<>>) = 0 OBVIOUS
<1>2. ReadCap \in Nat /\ WorkerCap \in Nat /\ WriteCap \in Nat BY DispatchAssumption
<1>3. readChan \in Seq(Packet) /\ Len(readChan) <= ReadCap BY <1>1, <1>2 DEF DispatchInit
<1>4. queue \in [Worker -> Seq(Packet)] /\ \A w \in Worker : Len(queue[w]) <= WorkerCap
  BY <1>1, <1>2 DEF DispatchInit
<1>5. effects \in [Peer -> Seq(Packet)] BY <1>1 DEF DispatchInit
<1>6. outbox \in [Peer -> 0..WriteCap] BY <1>2 DEF DispatchInit
<1>7. stage \in [Packet -> {"unread", "waiting", "decode", "send", "done"}]
  BY DEF DispatchInit
<1> QED BY <1>3, <1>4, <1>5, <1>6, <1>7 DEF DispatchInit, DispatchTypeOK

LEMMA ReadType ==
  ASSUME DispatchTypeOK, NEW m \in Packet, ReadMessage(m)
  PROVE  DispatchTypeOK'
<1>1. readChan' \in Seq(Packet) /\ Len(readChan') = Len(readChan) + 1
  BY AppendProperties DEF DispatchTypeOK, ReadMessage
<1>2. Len(readChan') <= ReadCap
  BY <1>1, DispatchAssumption, LenProperties DEF DispatchTypeOK, ReadMessage
<1> QED BY <1>1, <1>2 DEF DispatchTypeOK, ReadMessage, Move, peerVars

LEMMA DistributeType ==
  ASSUME DispatchTypeOK, Distribute
  PROVE  DispatchTypeOK'
<1> DEFINE m == Head(readChan)
<1>1. /\ m \in Packet /\ readChan' \in Seq(Packet) /\ Len(readChan') = Len(readChan) - 1
      /\ UNCHANGED <<present, outbox, writerEnded, effects, panicked>>
  BY HeadTailProperties DEF DispatchTypeOK, Distribute, peerVars
<1>2. Len(readChan') <= ReadCap
  BY <1>1, DispatchAssumption, LenProperties DEF DispatchTypeOK
<1>3. m[1] \in Peer /\ WorkerOf[m[1]] \in Worker BY <1>1, PacketShape, DispatchAssumption
<1>4. PICK w \in Worker : IF Room(w) THEN Enqueue(m, w) ELSE Overflow(m)
  BY <1>3 DEF Distribute, Choices
<1>5. CASE Enqueue(m, w) /\ Room(w)
  <2>1. /\ Append(queue[w], m) \in Seq(Packet) /\ Len(queue[w]) \in Nat
        /\ Len(Append(queue[w], m)) = Len(queue[w]) + 1
    BY <1>1, AppendProperties, LenProperties DEF DispatchTypeOK
  <2>2. Len(Append(queue[w], m)) <= WorkerCap BY <1>5, <2>1, DispatchAssumption DEF Room
  <2> HIDE DEF m
  <2>3. queue' \in [Worker -> Seq(Packet)] /\ \A v \in Worker : Len(queue'[v]) <= WorkerCap
    BY <1>5, <2>1, <2>2 DEF DispatchTypeOK, Enqueue
  <2> QED BY <1>1, <1>2, <1>5, <2>3 DEF DispatchTypeOK, Enqueue
<1>6. CASE Overflow(m)
  <2> HIDE DEF m
  <2> QED BY <1>1, <1>2, <1>6 DEF DispatchTypeOK, Overflow, Move
<1> QED BY <1>4, <1>5, <1>6

LEMMA TakeType ==
  ASSUME DispatchTypeOK, NEW w \in Worker, Take(w)
  PROVE  DispatchTypeOK'
<1> DEFINE m == Head(queue[w])
<1>1. /\ m \in Packet /\ Tail(queue[w]) \in Seq(Packet) /\ Len(queue[w]) \in Nat
      /\ Len(Tail(queue[w])) = Len(queue[w]) - 1
  BY HeadTailProperties, LenProperties DEF DispatchTypeOK, Take
<1>2. /\ queue' = [queue EXCEPT ![w] = Tail(@)] /\ Move(m, "decode")
      /\ UNCHANGED <<readChan, overflowed, present, outbox, writerEnded, effects, panicked>>
  BY DEF Take, peerVars
<1> HIDE DEF m
<1>3. queue' \in [Worker -> Seq(Packet)] /\ \A v \in Worker : Len(queue'[v]) <= WorkerCap
  BY <1>1, <1>2, DispatchAssumption DEF DispatchTypeOK
<1> QED BY <1>1, <1>2, <1>3 DEF DispatchTypeOK, Move

LEMMA HandlerType ==
  ASSUME DispatchTypeOK, NEW m \in Packet, HandlerStep(m)
  PROVE  DispatchTypeOK'
<1>1. m[1] \in Peer /\ Append(effects[m[1]], m) \in Seq(Packet)
  BY PacketShape, AppendProperties DEF DispatchTypeOK
<1>2. Effect(m) => effects' \in [Peer -> Seq(Packet)]
  BY <1>1 DEF DispatchTypeOK, Effect
<1>3. CASE Drop(m) BY <1>3 DEF DispatchTypeOK, Drop, Move, chanVars, peerVars
<1>4. CASE Answer(m) BY <1>4 DEF DispatchTypeOK, Answer, Move, chanVars, peerVars
<1>5. CASE Forward(m) BY <1>2, <1>5 DEF DispatchTypeOK, Forward, Move, chanVars, peerVars
<1>6. CASE SendMessage(m)
  <2>1. outbox' \in [Peer -> 0..WriteCap]
    BY <1>1, <1>6, DispatchAssumption DEF DispatchTypeOK, SendMessage
  <2> QED BY <1>2, <1>6, <2>1 DEF DispatchTypeOK, SendMessage, Move, chanVars
<1>7. CASE SendPanics(m) BY <1>7 DEF DispatchTypeOK, SendPanics, chanVars, peerVars
<1> QED BY <1>3, <1>4, <1>5, <1>6, <1>7 DEF HandlerStep

LEMMA ClientType ==
  ASSUME DispatchTypeOK, NEW c \in Peer, WriteOut(c) \/ RemoveClient(c) \/ WriterEnds(c)
  PROVE  DispatchTypeOK'
<1>1. CASE WriteOut(c)
  <2>1. outbox' \in [Peer -> 0..WriteCap]
    BY <1>1, DispatchAssumption DEF DispatchTypeOK, WriteOut
  <2> QED BY <1>1, <2>1 DEF DispatchTypeOK, WriteOut, chanVars
<1>2. CASE RemoveClient(c) BY <1>2 DEF DispatchTypeOK, RemoveClient, chanVars
<1>3. CASE WriterEnds(c) BY <1>3 DEF DispatchTypeOK, WriterEnds, chanVars
<1> QED BY <1>1, <1>2, <1>3

LEMMA DispatchStepType == DispatchTypeOK /\ [DispatchNext]_dispatchVars => DispatchTypeOK'
<1> SUFFICES ASSUME DispatchTypeOK, [DispatchNext]_dispatchVars PROVE DispatchTypeOK'
  OBVIOUS
<1>1. CASE UNCHANGED dispatchVars
  BY <1>1 DEF DispatchTypeOK, dispatchVars, chanVars, peerVars
<1>2. CASE DispatchNext
  BY <1>2, ReadType, DistributeType, TakeType, HandlerType, ClientType DEF DispatchNext
<1> QED BY <1>1, <1>2

(* No queue holds more than its capacity, and everything has its type. *)
THEOREM DispatchTypeCorrect == DispatchSpec => []DispatchTypeOK
BY DispatchStepType, InitType, PTL DEF DispatchSpec

----------------------------------------------------------------------------
(* The order of a client's messages, from the read pump to the effects. *)
LEMMA RangeType ==
  ASSUME NEW S, NEW s \in Seq(S)
  PROVE  Range(s) \subseteq S
BY LenProperties DEF Range

LEMMA InitOrder == DispatchInit => OrderInv
<1> SUFFICES ASSUME DispatchInit PROVE OrderInv OBVIOUS
<1>1. DOMAIN <<>> = {} /\ Range(<<>>) = {} BY DEF Range
<1>2. \A w \in Worker : queue[w] = <<>> BY DEF DispatchInit
<1>3. \A c \in Peer : effects[c] = <<>>
  <2>1. effects = [c \in Peer |-> <<>>] BY DEF DispatchInit
  <2> QED BY <2>1, Zenon
<1>4. \A m \in Packet : stage[m] = "unread" BY DEF DispatchInit
<1>5. readChan = <<>> /\ overflowed = {} BY DEF DispatchInit
<1>6. Queued BY <1>1, <1>2, <1>4, <1>5 DEF Queued, Sorted
<1>7. EffectsAreDone /\ OrderUnlessOverflow BY <1>1, <1>3 DEF EffectsAreDone, OrderUnlessOverflow
<1> QED
  BY <1>4, <1>5, <1>6, <1>7 DEF OrderInv, ReadInOrder, OverflowedAreRead, HandledInOrder

LEMMA OrderFrame ==
  ASSUME OrderInv, UNCHANGED <<stage, chanVars, effects>>
  PROVE  OrderInv'
BY DEF OrderInv, ReadInOrder, OverflowedAreRead, Queued, Sorted, HandledInOrder,
       EffectsAreDone, OrderUnlessOverflow, chanVars

LEMMA ReadOrder ==
  ASSUME DispatchTypeOK, OrderInv, NEW m \in Packet, ReadMessage(m)
  PROVE  OrderInv'
<1>1. /\ stage[m] = "unread" /\ stage' = [stage EXCEPT ![m] = "waiting"]
      /\ stage'[m] = "waiting" /\ \A n \in Packet \ {m} : stage'[n] = stage[n]
      /\ m[2] > 1 => stage[<<m[1], m[2] - 1>>] # "unread"
      /\ readChan' = Append(readChan, m)
      /\ UNCHANGED <<queue, overflowed, effects>>
  BY DEF ReadMessage, Move, DispatchTypeOK
<1>2. /\ readChan \in Seq(Packet) /\ Range(readChan') = Range(readChan) \union {m}
      /\ Range(readChan) \subseteq Packet /\ overflowed \subseteq Packet
      /\ \A w \in Worker : Range(queue[w]) \subseteq Packet
  BY <1>1, RangeAppend, RangeType DEF DispatchTypeOK
<1>3. ASSUME NEW n \in Packet, stage[n] # "unread", n[1] = m[1] PROVE n[2] < m[2]
  <2>1. n[2] \in Nat /\ m[2] \in Nat /\ n = <<n[1], n[2]>> /\ m = <<m[1], m[2]>>
    BY PacketShape
  <2>2. n[2] # m[2] BY <1>1, <1>3, <2>1
  <2>3. ~(m[2] < n[2]) BY <1>1, <1>3 DEF OrderInv, ReadInOrder
  <2> QED BY <2>1, <2>2, <2>3
<1>4. ReadInOrder'
  <2> SUFFICES ASSUME NEW a \in Packet, NEW b \in Packet, a[1] = b[1], a[2] < b[2],
                      stage'[a] = "unread"
               PROVE  stage'[b] = "unread"
    BY DEF ReadInOrder
  <2>1. a # m /\ stage[a] = "unread" /\ stage[b] = "unread"
    BY <1>1 DEF OrderInv, ReadInOrder
  <2>2. b # m
    <3> SUFFICES ASSUME b = m PROVE FALSE OBVIOUS
    <3> DEFINE p == <<m[1], m[2] - 1>>
    <3>1. /\ a[2] \in Nat \ {0} /\ m[2] \in Nat /\ m[2] > 1 /\ a = <<a[1], a[2]>>
          /\ p \in Packet
      BY PacketShape
    <3>2. stage[p] # "unread" BY <1>1, <3>1
    <3>3. a[2] = m[2] - 1 \/ a[2] < m[2] - 1 BY <3>1
    <3>4. p[1] = m[1] /\ p[2] = m[2] - 1 OBVIOUS
    <3> HIDE DEF p
    <3>5. CASE a[2] = m[2] - 1
      <4>1. a = p BY <3>1, <3>5 DEF p
      <4> QED BY <2>1, <3>2, <4>1
    <3>6. CASE a[2] < m[2] - 1 BY <2>1, <3>1, <3>2, <3>4, <3>6 DEF OrderInv, ReadInOrder
    <3> QED BY <3>3, <3>5, <3>6
  <2> QED BY <1>1, <2>1, <2>2
<1>5. OverflowedAreRead' BY <1>1, <1>2 DEF OrderInv, OverflowedAreRead
<1>6. Queued'
  <2>1. Sorted(readChan')
    BY <1>1, <1>2, <1>3, SortedAppend DEF OrderInv, Queued
  <2>2. \A n \in Range(readChan') : stage'[n] = "waiting" /\ n \notin overflowed'
    BY <1>1, <1>2 DEF OrderInv, Queued, OverflowedAreRead
  <2>3. ASSUME NEW w \in Worker
        PROVE  /\ Sorted(queue'[w])
               /\ \A a \in Range(queue'[w]) :
                      /\ stage'[a] = "waiting" /\ a \notin overflowed' /\ WorkerOf[a[1]] = w
                      /\ \A n \in Range(readChan') : a[1] = n[1] => a[2] < n[2]
    BY <1>1, <1>2, <1>3 DEF OrderInv, Queued
  <2>4. \A n \in Packet :
           stage'[n] = "waiting" => n \in Range(readChan') \union Range(queue'[WorkerOf[n[1]]])
    BY <1>1, <1>2 DEF OrderInv, Queued
  <2> QED BY <2>1, <2>2, <2>3, <2>4 DEF Queued
<1>7. HandledInOrder' BY <1>1 DEF OrderInv, HandledInOrder
<1>8. EffectsAreDone'
  <2>1. \A c \in Peer : Range(effects[c]) \subseteq Packet BY RangeType DEF DispatchTypeOK
  <2> QED BY <1>1, <2>1 DEF OrderInv, EffectsAreDone
<1>9. OrderUnlessOverflow' BY <1>1 DEF OrderInv, OrderUnlessOverflow
<1> QED BY <1>4, <1>5, <1>6, <1>7, <1>8, <1>9 DEF OrderInv

(* What is at the head of ClientReadChan, or of a worker's queue, is        *)
(* nowhere else.                                                            *)
LEMMA HeadOfReadChan ==
  ASSUME DispatchTypeOK, OrderInv, readChan # <<>>
  PROVE  LET m == Head(readChan)
         IN /\ m \in Packet /\ stage[m] = "waiting" /\ m \notin overflowed
            /\ WorkerOf[m[1]] \in Worker
            /\ Range(readChan) = Range(Tail(readChan)) \union {m}
            /\ Sorted(Tail(readChan))
            /\ \A n \in Range(Tail(readChan)) : n[1] = m[1] => m[2] < n[2]
            /\ m \notin Range(Tail(readChan))
            /\ \A w \in Worker : \A n \in Range(queue[w]) : n[1] = m[1] => n[2] < m[2]
            /\ \A w \in Worker : m \notin Range(queue[w])
<1> DEFINE m == Head(readChan)
<1>1. /\ readChan \in Seq(Packet) /\ m \in Packet
      /\ Range(readChan) = Range(Tail(readChan)) \union {m}
  BY RangeTail DEF DispatchTypeOK
<1>2. /\ Sorted(Tail(readChan))
      /\ \A n \in Range(Tail(readChan)) : n[1] = m[1] => m[2] < n[2]
  BY <1>1, SortedTail DEF OrderInv, Queued
<1>3. m[1] \in Peer /\ m[2] \in Nat /\ WorkerOf[m[1]] \in Worker
  BY <1>1, PacketShape, DispatchAssumption
<1> HIDE DEF m
<1>4. stage[m] = "waiting" /\ m \notin overflowed BY <1>1 DEF OrderInv, Queued
<1>5. \A w \in Worker : \A n \in Range(queue[w]) : n[1] = m[1] => n[2] < m[2]
  BY <1>1 DEF OrderInv, Queued
<1>6. m \notin Range(Tail(readChan)) /\ \A w \in Worker : m \notin Range(queue[w])
  BY <1>2, <1>3, <1>5
<1> QED BY <1>1, <1>2, <1>3, <1>4, <1>5, <1>6 DEF m

LEMMA HeadOfQueue ==
  ASSUME DispatchTypeOK, OrderInv, NEW w \in Worker, queue[w] # <<>>
  PROVE  LET m == Head(queue[w])
         IN /\ m \in Packet /\ stage[m] = "waiting" /\ m \notin overflowed
            /\ WorkerOf[m[1]] = w
            /\ Range(queue[w]) = Range(Tail(queue[w])) \union {m}
            /\ Sorted(Tail(queue[w]))
            /\ \A n \in Range(Tail(queue[w])) : n[1] = m[1] => m[2] < n[2]
            /\ m \notin Range(Tail(queue[w]))
            /\ \A n \in Range(readChan) : n[1] = m[1] => m[2] < n[2]
            /\ m \notin Range(readChan)
            /\ \A v \in Worker \ {w} : m \notin Range(queue[v])
<1> DEFINE m == Head(queue[w])
<1>1. /\ queue[w] \in Seq(Packet) /\ m \in Packet
      /\ Range(queue[w]) = Range(Tail(queue[w])) \union {m}
  BY RangeTail DEF DispatchTypeOK
<1>2. /\ Sorted(Tail(queue[w]))
      /\ \A n \in Range(Tail(queue[w])) : n[1] = m[1] => m[2] < n[2]
  BY <1>1, SortedTail DEF OrderInv, Queued
<1>3. m[1] \in Peer /\ m[2] \in Nat BY <1>1, PacketShape
<1> HIDE DEF m
<1>4. stage[m] = "waiting" /\ m \notin overflowed /\ WorkerOf[m[1]] = w
  BY <1>1 DEF OrderInv, Queued
<1>5. \A n \in Range(readChan) : n[1] = m[1] => m[2] < n[2]
  BY <1>1 DEF OrderInv, Queued
<1>6. m \notin Range(Tail(queue[w])) /\ m \notin Range(readChan) BY <1>2, <1>3, <1>5
<1>7. \A v \in Worker \ {w} : m \notin Range(queue[v]) BY <1>4 DEF OrderInv, Queued
<1> QED BY <1>1, <1>2, <1>4, <1>5, <1>6, <1>7 DEF m

LEMMA EnqueueOrder ==
  ASSUME DispatchTypeOK, OrderInv, readChan # <<>>, readChan' = Tail(readChan),
         Enqueue(Head(readChan), WorkerOf[Head(readChan)[1]]), UNCHANGED effects
  PROVE  OrderInv'
<1> DEFINE m == Head(readChan)
           v == WorkerOf[m[1]]
           rest == Tail(readChan)
<1>1. /\ m \in Packet /\ stage[m] = "waiting" /\ m \notin overflowed /\ v \in Worker
      /\ Range(readChan) = Range(rest) \union {m} /\ Sorted(rest)
      /\ \A n \in Range(rest) : n[1] = m[1] => m[2] < n[2]
      /\ \A w \in Worker : \A n \in Range(queue[w]) : n[1] = m[1] => n[2] < m[2]
  BY HeadOfReadChan
<1>2. /\ queue' = [queue EXCEPT ![v] = Append(@, m)] /\ readChan' = rest
      /\ UNCHANGED <<stage, overflowed, effects>>
  BY DEF Enqueue
<1> HIDE DEF m, v, rest
<1>3. /\ queue'[v] = Append(queue[v], m) /\ queue[v] \in Seq(Packet)
      /\ \A w \in Worker \ {v} : queue'[w] = queue[w]
  BY <1>1, <1>2 DEF DispatchTypeOK
<1>4. Range(queue'[v]) = Range(queue[v]) \union {m} BY <1>1, <1>3, RangeAppend
<1>5. Sorted(queue'[v])
  <2>1. Sorted(queue[v]) BY <1>1 DEF OrderInv, Queued
  <2>2. \A n \in Range(queue[v]) : n[1] = m[1] => n[2] < m[2] BY <1>1
  <2> QED BY <1>1, <1>3, <2>1, <2>2, SortedAppend
<1>6. Queued'
  <2>1. Sorted(readChan')
        /\ \A n \in Range(readChan') : stage'[n] = "waiting" /\ n \notin overflowed'
    BY <1>1, <1>2 DEF OrderInv, Queued
  <2>2. ASSUME NEW w \in Worker
        PROVE  /\ Sorted(queue'[w])
               /\ \A a \in Range(queue'[w]) :
                      /\ stage'[a] = "waiting" /\ a \notin overflowed' /\ WorkerOf[a[1]] = w
                      /\ \A n \in Range(readChan') : a[1] = n[1] => a[2] < n[2]
    <3>1. CASE w # v BY <1>1, <1>2, <1>3, <3>1 DEF OrderInv, Queued
    <3>2. CASE w = v
      <4>1. WorkerOf[m[1]] = v BY DEF v
      <4>2. ASSUME NEW a \in Range(queue[v])
            PROVE  /\ stage'[a] = "waiting" /\ a \notin overflowed' /\ WorkerOf[a[1]] = v
                   /\ \A n \in Range(readChan') : a[1] = n[1] => a[2] < n[2]
        BY <1>1, <1>2 DEF OrderInv, Queued
      <4> QED BY <1>1, <1>2, <1>4, <1>5, <3>2, <4>1, <4>2
    <3> QED BY <3>1, <3>2
  <2>3. ASSUME NEW n \in Packet, stage'[n] = "waiting"
        PROVE  n \in Range(readChan') \union Range(queue'[WorkerOf[n[1]]])
    <3>1. n \in Range(rest) \union {m} \union Range(queue[WorkerOf[n[1]]])
      BY <1>1, <1>2, <2>3 DEF OrderInv, Queued
    <3>2. WorkerOf[n[1]] \in Worker BY PacketShape, DispatchAssumption
    <3>3. CASE WorkerOf[n[1]] = v BY <1>2, <1>4, <3>1, <3>3
    <3>4. CASE WorkerOf[n[1]] # v
      <4>1. n # m BY <3>4 DEF v
      <4> QED BY <1>2, <1>3, <3>1, <3>2, <3>4, <4>1
    <3> QED BY <3>3, <3>4
  <2> QED BY <2>1, <2>2, <2>3 DEF Queued
<1> QED BY <1>2, <1>6 DEF OrderInv, ReadInOrder, OverflowedAreRead, HandledInOrder,
                       EffectsAreDone, OrderUnlessOverflow

LEMMA OverflowOrder ==
  ASSUME DispatchTypeOK, OrderInv, readChan # <<>>, readChan' = Tail(readChan),
         Overflow(Head(readChan)), UNCHANGED effects
  PROVE  OrderInv'
<1> DEFINE m == Head(readChan)
           rest == Tail(readChan)
<1>1. /\ m \in Packet /\ stage[m] = "waiting" /\ m \notin overflowed
      /\ Range(readChan) = Range(rest) \union {m} /\ Sorted(rest)
      /\ m \notin Range(rest) /\ \A w \in Worker : m \notin Range(queue[w])
  BY HeadOfReadChan
<1>2. /\ stage' = [stage EXCEPT ![m] = "decode"] /\ readChan' = rest
      /\ overflowed' = overflowed \union {m} /\ UNCHANGED <<queue, effects>>
  BY DEF Overflow, Move
<1> HIDE DEF m, rest
<1>3. /\ stage'[m] = "decode" /\ \A n \in Packet \ {m} : stage'[n] = stage[n]
      /\ Range(rest) \subseteq Packet
      /\ \A w \in Worker : Range(queue[w]) \subseteq Packet
      /\ \A c \in Peer : Range(effects[c]) \subseteq Packet
      /\ overflowed \subseteq Packet
  BY <1>1, <1>2, RangeType DEF DispatchTypeOK
<1>4. ReadInOrder' /\ OverflowedAreRead'
  BY <1>1, <1>2, <1>3 DEF OrderInv, ReadInOrder, OverflowedAreRead
<1>5. Queued'
  <2>1. Sorted(readChan')
        /\ \A n \in Range(readChan') : stage'[n] = "waiting" /\ n \notin overflowed'
    BY <1>1, <1>2, <1>3 DEF OrderInv, Queued
  <2>2. ASSUME NEW w \in Worker
        PROVE  /\ Sorted(queue'[w])
               /\ \A a \in Range(queue'[w]) :
                      /\ stage'[a] = "waiting" /\ a \notin overflowed' /\ WorkerOf[a[1]] = w
                      /\ \A n \in Range(readChan') : a[1] = n[1] => a[2] < n[2]
    <3>1. Sorted(queue[w]) BY DEF OrderInv, Queued
    <3> SUFFICES ASSUME NEW a \in Range(queue[w])
                 PROVE  /\ stage'[a] = "waiting" /\ a \notin overflowed' /\ WorkerOf[a[1]] = w
                        /\ \A n \in Range(readChan') : a[1] = n[1] => a[2] < n[2]
      BY <1>2, <3>1 DEF Sorted
    <3>2. /\ stage[a] = "waiting" /\ a \notin overflowed /\ WorkerOf[a[1]] = w
          /\ \A n \in Range(readChan) : a[1] = n[1] => a[2] < n[2]
      BY DEF OrderInv, Queued
    <3>3. a \in Packet /\ a # m BY <1>1, <1>3
    <3> QED BY <1>1, <1>2, <1>3, <3>2, <3>3
  <2>3. \A n \in Packet :
           stage'[n] = "waiting" => n \in Range(readChan') \union Range(queue'[WorkerOf[n[1]]])
    BY <1>1, <1>2, <1>3 DEF OrderInv, Queued
  <2> QED BY <2>1, <2>2, <2>3 DEF Queued
<1>6. HandledInOrder' BY <1>1, <1>2, <1>3 DEF OrderInv, HandledInOrder
<1>7. EffectsAreDone' BY <1>1, <1>2, <1>3 DEF OrderInv, EffectsAreDone
<1>8. OrderUnlessOverflow' BY <1>2 DEF OrderInv, OrderUnlessOverflow
<1> QED BY <1>4, <1>5, <1>6, <1>7, <1>8 DEF OrderInv

LEMMA DistributeOrder ==
  ASSUME DispatchTypeOK, OrderInv, Distribute
  PROVE  OrderInv'
<1> DEFINE m == Head(readChan)
<1>1. /\ readChan # <<>> /\ readChan' = Tail(readChan) /\ UNCHANGED effects
      /\ Enqueue(m, WorkerOf[m[1]]) \/ Overflow(m)
  BY DEF Distribute, Choices
<1> QED BY <1>1, EnqueueOrder, OverflowOrder

LEMMA TakeOrder ==
  ASSUME DispatchTypeOK, OrderInv, NEW w \in Worker, Take(w)
  PROVE  OrderInv'
<1> DEFINE m == Head(queue[w])
           rest == Tail(queue[w])
<1>0. queue[w] # <<>> BY DEF Take
<1>1. /\ m \in Packet /\ stage[m] = "waiting" /\ m \notin overflowed /\ WorkerOf[m[1]] = w
      /\ Range(queue[w]) = Range(rest) \union {m} /\ Sorted(rest)
      /\ \A n \in Range(rest) : n[1] = m[1] => m[2] < n[2]
      /\ m \notin Range(rest)
      /\ \A n \in Range(readChan) : n[1] = m[1] => m[2] < n[2]
      /\ m \notin Range(readChan)
      /\ \A v \in Worker \ {w} : m \notin Range(queue[v])
  BY <1>0, HeadOfQueue
<1>2. /\ stage' = [stage EXCEPT ![m] = "decode"] /\ queue' = [queue EXCEPT ![w] = rest]
      /\ UNCHANGED <<readChan, overflowed, effects>> /\ Idle(w)
  BY DEF Take, Move
<1> HIDE DEF m, rest
<1>3. /\ stage'[m] = "decode" /\ \A n \in Packet \ {m} : stage'[n] = stage[n]
      /\ queue'[w] = rest /\ \A v \in Worker \ {w} : queue'[v] = queue[v]
      /\ Range(readChan) \subseteq Packet
      /\ \A v \in Worker : Range(queue[v]) \subseteq Packet
      /\ \A c \in Peer : Range(effects[c]) \subseteq Packet
      /\ overflowed \subseteq Packet
  BY <1>1, <1>2, RangeType DEF DispatchTypeOK
<1>4. ReadInOrder' /\ OverflowedAreRead'
  BY <1>1, <1>2, <1>3 DEF OrderInv, ReadInOrder, OverflowedAreRead
<1>5. Queued'
  <2>1. Sorted(readChan')
        /\ \A n \in Range(readChan') : stage'[n] = "waiting" /\ n \notin overflowed'
    BY <1>1, <1>2, <1>3 DEF OrderInv, Queued
  <2>2. ASSUME NEW v \in Worker
        PROVE  /\ Sorted(queue'[v])
               /\ \A a \in Range(queue'[v]) :
                      /\ stage'[a] = "waiting" /\ a \notin overflowed' /\ WorkerOf[a[1]] = v
                      /\ \A n \in Range(readChan') : a[1] = n[1] => a[2] < n[2]
    <3>1. CASE v = w
      <4>1. Sorted(queue'[w]) /\ Range(queue'[w]) \subseteq Range(queue[w]) \ {m}
        BY <1>1, <1>3
      <4> QED BY <1>2, <1>3, <3>1, <4>1 DEF OrderInv, Queued
    <3>2. CASE v # w BY <1>1, <1>2, <1>3, <3>2 DEF OrderInv, Queued
    <3> QED BY <3>1, <3>2
  <2>3. ASSUME NEW n \in Packet, stage'[n] = "waiting"
        PROVE  n \in Range(readChan') \union Range(queue'[WorkerOf[n[1]]])
    <3>1. n # m /\ n \in Range(readChan) \union Range(queue[WorkerOf[n[1]]])
      BY <1>3, <2>3 DEF OrderInv, Queued
    <3>2. WorkerOf[n[1]] \in Worker BY PacketShape, DispatchAssumption
    <3> QED BY <1>1, <1>2, <1>3, <3>1, <3>2
  <2> QED BY <2>1, <2>2, <2>3 DEF Queued
<1>6. HandledInOrder'
  <2> SUFFICES ASSUME NEW a \in Packet \ overflowed, NEW b \in Packet \ overflowed,
                      a[1] = b[1], a[2] < b[2], stage'[b] \in {"decode", "send", "done"}
               PROVE  stage'[a] = "done"
    BY <1>2 DEF HandledInOrder
  <2>1. CASE b # m
    <3>1. stage[a] = "done" BY <1>3, <2>1 DEF OrderInv, HandledInOrder
    <3> QED BY <1>1, <1>3, <3>1
  <2>2. CASE b = m
    <3>1. a # m /\ m[2] \in Nat /\ a[2] \in Nat BY <2>2, PacketShape
    <3>2. stage[a] # "unread" BY <1>1, <2>2 DEF OrderInv, ReadInOrder
    <3>3. stage[a] # "waiting"
      <4>1. a \notin Range(readChan) /\ a \notin Range(rest) BY <1>1, <2>2, <3>1
      <4> QED BY <1>1, <2>2, <3>1, <4>1 DEF OrderInv, Queued
    <3>4. stage[a] \notin {"decode", "send"} BY <1>1, <1>2, <2>2 DEF Idle, Choices
    <3> QED BY <1>3, <3>1, <3>2, <3>3, <3>4 DEF DispatchTypeOK
  <2> QED BY <2>1, <2>2
<1>7. EffectsAreDone' BY <1>1, <1>2, <1>3 DEF OrderInv, EffectsAreDone
<1>8. OrderUnlessOverflow' BY <1>2 DEF OrderInv, OrderUnlessOverflow
<1> QED BY <1>4, <1>5, <1>6, <1>7, <1>8 DEF OrderInv

(* A handler takes its message one stage on, maybe with an effect at the   *)
(* end.                                                                    *)
LEMMA HandledOrder ==
  ASSUME DispatchTypeOK, OrderInv, NEW m \in Packet, NEW s \in {"send", "done"},
         stage[m] \in {"decode", "send"}, Move(m, s), UNCHANGED chanVars,
         UNCHANGED effects \/ (s = "done" /\ Effect(m))
  PROVE  OrderInv'
<1>1. /\ stage'[m] = s /\ \A n \in Packet \ {m} : stage'[n] = stage[n]
      /\ UNCHANGED <<readChan, queue, overflowed>>
      /\ m[1] \in Peer /\ m[2] \in Nat /\ m = <<m[1], m[2]>>
  BY PacketShape DEF DispatchTypeOK, Move, chanVars
<1>2. /\ Range(readChan) \subseteq Packet
      /\ \A w \in Worker : Range(queue[w]) \subseteq Packet
      /\ \A c \in Peer : Range(effects[c]) \subseteq Packet
      /\ overflowed \subseteq Packet
  BY RangeType DEF DispatchTypeOK
<1>3. ReadInOrder' /\ OverflowedAreRead'
  BY <1>1, <1>2 DEF OrderInv, ReadInOrder, OverflowedAreRead
<1>4. Queued'
  <2>1. m \notin Range(readChan) /\ \A w \in Worker : m \notin Range(queue[w])
    BY DEF OrderInv, Queued
  <2> QED BY <1>1, <1>2, <2>1 DEF OrderInv, Queued, Sorted
<1>5. HandledInOrder'
  <2> SUFFICES ASSUME NEW a \in Packet \ overflowed, NEW b \in Packet \ overflowed,
                      a[1] = b[1], a[2] < b[2], stage'[b] \in {"decode", "send", "done"}
               PROVE  stage'[a] = "done"
    BY <1>1 DEF HandledInOrder
  <2>1. stage[b] \in {"decode", "send", "done"} BY <1>1
  <2>2. stage[a] = "done" BY <2>1 DEF OrderInv, HandledInOrder
  <2> QED BY <1>1, <2>2
<1>6. CASE UNCHANGED effects
  <2>1. EffectsAreDone' BY <1>1, <1>2, <1>6 DEF OrderInv, EffectsAreDone
  <2>2. OrderUnlessOverflow' BY <1>1, <1>6 DEF OrderInv, OrderUnlessOverflow
  <2> QED BY <1>3, <1>4, <1>5, <2>1, <2>2 DEF OrderInv
<1>7. CASE s = "done" /\ Effect(m)
  <2> DEFINE old == effects[m[1]]
             new == effects'[m[1]]
  <2>1. /\ \A c \in Peer \ {m[1]} : effects'[c] = effects[c]
        /\ new = Append(old, m) /\ old \in Seq(Packet)
    BY <1>1, <1>7 DEF Effect, DispatchTypeOK
  <2> HIDE DEF old, new
  <2>2. Range(new) = Range(old) \union {m} BY <2>1, RangeAppend
  <2>3. EffectsAreDone'
    <3> SUFFICES ASSUME NEW c \in Peer, NEW n \in Range(effects'[c])
                 PROVE  n[1] = c /\ stage'[n] = "done"
      BY DEF EffectsAreDone
    <3>1. CASE c # m[1] BY <1>1, <1>2, <2>1, <3>1 DEF OrderInv, EffectsAreDone
    <3>2. CASE c = m[1] BY <1>1, <1>2, <1>7, <2>2, <3>2 DEF OrderInv, EffectsAreDone, old, new
    <3> QED BY <3>1, <3>2
  <2>4. ASSUME NEW n \in Range(old), n \notin overflowed, m \notin overflowed
        PROVE  n[2] < m[2]
    <3>1. n \in Packet /\ n[1] = m[1] /\ stage[n] = "done"
      BY <1>1, <1>2 DEF OrderInv, EffectsAreDone, old
    <3>2. n[2] \in Nat /\ n = <<n[1], n[2]>> BY <3>1, PacketShape
    <3>3. n[2] # m[2] BY <1>1, <3>1, <3>2
    <3>4. ~(m[2] < n[2]) BY <2>4, <3>1 DEF OrderInv, HandledInOrder
    <3> QED BY <1>1, <3>2, <3>3, <3>4
  <2>5. OrderUnlessOverflow'
    <3> SUFFICES ASSUME NEW c \in Peer, NEW i \in DOMAIN effects'[c],
                        NEW j \in DOMAIN effects'[c], i < j
                 PROVE  \/ effects'[c][i][2] < effects'[c][j][2]
                        \/ {effects'[c][i], effects'[c][j]} \cap overflowed # {}
      BY <1>1 DEF OrderUnlessOverflow
    <3>1. CASE c # m[1] BY <2>1, <3>1 DEF OrderInv, OrderUnlessOverflow
    <3>2. CASE c = m[1]
      <4>1. /\ Len(old) \in Nat /\ DOMAIN old = 1 .. Len(old)
            /\ DOMAIN new = 1 .. (Len(old) + 1)
            /\ \A k \in 1 .. Len(old) : new[k] = old[k]
            /\ new[Len(old) + 1] = m
        BY <2>1, AppendProperties, LenProperties
      <4>2. i \in DOMAIN new /\ j \in DOMAIN new BY <3>2 DEF new
      <4>3. i \in DOMAIN old /\ new[i] = old[i] BY <4>1, <4>2
      <4>4. CASE j = Len(old) + 1
        <5>1. new[i] \in Range(old) /\ new[j] = m BY <4>1, <4>3, <4>4 DEF Range
        <5>2. new[i][2] < new[j][2] \/ {new[i], new[j]} \cap overflowed # {}
          BY <2>4, <5>1
        <5> QED BY <3>2, <5>2 DEF new
      <4>5. CASE j \in 1 .. Len(old)
        <5>1. j \in DOMAIN old /\ new[j] = old[j] BY <4>1, <4>5
        <5>2. \/ old[i][2] < old[j][2]
              \/ {old[i], old[j]} \cap overflowed # {}
          BY <1>1, <4>3, <5>1 DEF OrderInv, OrderUnlessOverflow, old
        <5> QED BY <3>2, <4>3, <5>1, <5>2 DEF new
      <4> QED BY <4>1, <4>2, <4>4, <4>5
    <3> QED BY <3>1, <3>2
  <2> QED BY <1>3, <1>4, <1>5, <2>3, <2>5 DEF OrderInv
<1> QED BY <1>6, <1>7

LEMMA HandlerOrder ==
  ASSUME DispatchTypeOK, OrderInv, NEW m \in Packet, HandlerStep(m)
  PROVE  OrderInv'
<1>1. CASE Drop(m)
  <2>1. stage[m] = "decode" /\ Move(m, "done") /\ UNCHANGED <<chanVars, effects>>
    BY <1>1 DEF Drop
  <2> QED BY <2>1, HandledOrder
<1>2. CASE Answer(m)
  <2>1. /\ stage[m] = "decode" /\ UNCHANGED <<chanVars, effects>>
        /\ \E s \in {"send", "done"} : Move(m, s)
    BY <1>2 DEF Answer, Found
  <2> QED BY <2>1, HandledOrder
<1>3. CASE Forward(m)
  <2>1. /\ stage[m] = "decode" /\ Move(m, "done") /\ UNCHANGED chanVars
        /\ UNCHANGED effects \/ Effect(m)
    BY <1>3 DEF Forward, Found
  <2> QED BY <2>1, HandledOrder
<1>4. CASE SendMessage(m)
  <2>1. /\ stage[m] = "send" /\ Move(m, "done") /\ UNCHANGED chanVars /\ Effect(m)
    BY <1>4 DEF SendMessage
  <2> QED BY <2>1, HandledOrder
<1>5. CASE SendPanics(m) BY <1>5, OrderFrame DEF SendPanics
<1> QED BY <1>1, <1>2, <1>3, <1>4, <1>5 DEF HandlerStep

(* What comes of a client's messages keeps the order in which the client   *)
(* sent them, except around one that met a full queue                      *)
(* (ws_manager.go:188): everything up to the handler keeps the order, and  *)
(* a worker handles one message at a time.                                 *)
THEOREM EffectsInOrder == DispatchSpec => []OrderUnlessOverflow
<1>1. DispatchInit => DispatchTypeOK /\ OrderInv BY InitType, InitOrder
<1>2. DispatchTypeOK /\ OrderInv /\ [DispatchNext]_dispatchVars => OrderInv'
  <2> SUFFICES ASSUME DispatchTypeOK, OrderInv, [DispatchNext]_dispatchVars
               PROVE  OrderInv'
    OBVIOUS
  <2>1. CASE UNCHANGED dispatchVars BY <2>1, OrderFrame DEF dispatchVars
  <2>2. CASE Distribute BY <2>2, DistributeOrder
  <2>3. ASSUME NEW w \in Worker, Take(w) PROVE OrderInv' BY <2>3, TakeOrder
  <2>4. ASSUME NEW m \in Packet, ReadMessage(m) PROVE OrderInv' BY <2>4, ReadOrder
  <2>5. ASSUME NEW m \in Packet, HandlerStep(m) PROVE OrderInv' BY <2>5, HandlerOrder
  <2>6. ASSUME NEW c \in Peer, WriteOut(c) \/ RemoveClient(c) \/ WriterEnds(c)
        PROVE  OrderInv'
    BY <2>6, OrderFrame DEF WriteOut, RemoveClient, WriterEnds
  <2> QED BY <2>1, <2>2, <2>3, <2>4, <2>5, <2>6 DEF DispatchNext
<1>3. OrderInv => OrderUnlessOverflow BY DEF OrderInv
<1> QED BY <1>1, <1>2, <1>3, DispatchTypeCorrect, PTL DEF DispatchSpec

----------------------------------------------------------------------------
(* Register: a key bound to the current lease is in etcd only while that   *)
(* lease is live, and what Close leaves behind sends no more commands.     *)
KeyHasLease == key = "current" => lease = "live"

CommandsNeedClient ==
    /\ pc = "down" => ~client
    /\ pc = "revoke" => closing = "taken"
    /\ closing # "no" => pc = "down" \/ ~first
    /\ closing = "taken" => pc # "bindLease" /\ (pc = "revoke" \/ ~client)

RegisterInv == RegisterTypeOK /\ KeyHasLease /\ CommandsNeedClient

LEMMA RegisterInitInv == RegisterInit => RegisterInv
BY DEF RegisterInit, RegisterInv, RegisterTypeOK, KeyHasLease, CommandsNeedClient

LEMMA RegisterStepInv == RegisterInv /\ [RegisterNext]_registerVars => RegisterInv'
<1> SUFFICES ASSUME RegisterInv, [RegisterNext]_registerVars PROVE RegisterInv'
  OBVIOUS
<1> USE DEF RegisterInv, RegisterTypeOK, KeyHasLease, CommandsNeedClient
<1>1. CASE Outage  BY <1>1 DEF Outage
<1>2. CASE LeaseExpires  BY <1>2 DEF LeaseExpires
<1>3. CASE OldLeaseExpires  BY <1>3 DEF OldLeaseExpires
<1>4. CASE KeepAliveEnds  BY <1>4 DEF KeepAliveEnds
<1>5. CASE Start  BY <1>5 DEF Start
<1>6. CASE Crash  BY <1>6 DEF Crash, Ended
<1>7. CASE Close  BY <1>7 DEF Close
<1>8. CASE Unregister  BY <1>8 DEF Unregister
<1>9. CASE CreateLease  BY <1>9 DEF CreateLease, CanCommand, RegisterFails, Ended
<1>10. CASE BindLease  BY <1>10 DEF BindLease, CanCommand
<1>11. CASE BindLeaseFails  BY <1>11 DEF BindLeaseFails, CanCommand, RegisterFails, Ended
<1>12. CASE Again  BY <1>12 DEF Again
<1>13. CASE Revoke  BY <1>13 DEF Revoke
<1>14. CASE UNCHANGED registerVars  BY <1>14 DEF registerVars
<1>15. QED
  BY <1>1, <1>2, <1>3, <1>4, <1>5, <1>6, <1>7, <1>8, <1>9, <1>10, <1>11, <1>12,
     <1>13, <1>14
  DEF RegisterNext, WatcherStep

(* The fields of Register keep their types, and the key is bound to the    *)
(* current lease only while etcd keeps that lease (register.go).           *)
THEOREM RegisterCorrect == RegisterSpec => [](RegisterTypeOK /\ KeyHasLease)
<1>1. RegisterInv => RegisterTypeOK /\ KeyHasLease  BY DEF RegisterInv
<1>2. QED  BY <1>1, RegisterInitInv, RegisterStepInv, PTL DEF RegisterSpec

(* An instance whose watcher has taken the Close binds its key no more,    *)
(* although the watcher goes on and registers again and again              *)
(* (register.go:147), until the process is started anew.                   *)
BindsNoMore ==
    closing = "taken" /\ closing' = "taken" /\ key' = "current" => key = "current"

THEOREM ClosedStaysAway == RegisterSpec => [][BindsNoMore]_registerVars
<1>1. RegisterInv /\ [RegisterNext]_registerVars => [BindsNoMore]_registerVars
  <2> SUFFICES ASSUME RegisterInv, RegisterNext, closing = "taken", closing' = "taken",
                      key' = "current", key # "current"
               PROVE  FALSE
    BY DEF BindsNoMore
  <2>1. pc # "bindLease"  BY DEF RegisterInv, CommandsNeedClient
  <2>2. ~BindLease /\ ~BindLeaseFails  BY <2>1 DEF BindLease, BindLeaseFails
  <2>3. CASE LeaseExpires \/ OldLeaseExpires \/ Unregister \/ CreateLease \/ Revoke
    BY <2>3 DEF LeaseExpires, OldLeaseExpires, Unregister, CreateLease, Revoke
  <2>4. CASE Outage \/ KeepAliveEnds \/ Start \/ Crash \/ Close \/ Again
    BY <2>4 DEF Outage, KeepAliveEnds, Start, Crash, Close, Again
  <2>5. QED  BY <2>2, <2>3, <2>4 DEF RegisterNext, WatcherStep
<1>2. QED  BY <1>1, RegisterInitInv, RegisterStepInv, PTL DEF RegisterSpec

----------------------------------------------------------------------------
(* Resolver: what a batch of changes makes of the addresses. *)
Change == [type : {"put", "delete"}, instance : Instance]
Named(batch) == {batch[k].instance : k \in DOMAIN batch}

(* The addresses stay, or are among the instances the batch is about,      *)
(* because every batch starts with an empty list (resolver.go:145).        *)
LEMMA UpdatedNamed ==
  ASSUME NEW batch \in Seq(Change), addresses \subseteq Instance
  PROVE  Updated(batch) = addresses \/ Updated(batch) \subseteq Named(batch)
<1> DEFINE N == Len(batch)
<1> DEFINE Instances == SUBSET Instance
<1> DEFINE S == [list : Instances, told : Instances]
<1> DEFINE b == [list |-> {}, told |-> addresses]
<1> DEFINE After(n, was) ==
             LET i == batch[n].instance
             IN IF batch[n].type = "put" /\ ~Exist(was.list, i)
                THEN Listed(was.list \union {i})
                ELSE IF batch[n].type = "delete" /\ Remove(was.list, i) # was.list
                THEN Listed(Remove(was.list, i))
                ELSE was
<1> DEFINE Runs(f) == f = [n \in 0..N |-> IF n = 0 THEN b ELSE After(n, f[n - 1])]
<1>1. N \in Nat /\ DOMAIN batch = 1..N /\ \A n \in 1..N : batch[n] \in Change
  BY LenProperties, ElementOfSeq
<1> HIDE DEF N
<1>2. \A n \in 1..N : batch[n].instance \in Instance /\ batch[n].instance \in Named(batch)
  BY <1>1 DEF Change, Named
<1>3. \A list \in SUBSET Instance : \A i \in Instance :
          /\ list \union {i} \in SUBSET Instance
          /\ Remove(list, i) \subseteq list
  BY DEF Remove
<1>4. ASSUME NEW n \in 1..N, NEW was \in S
      PROVE  /\ After(n, was) \in S
             /\ \/ After(n, was) = was
                \/ /\ After(n, was).list \subseteq was.list \union Named(batch)
                   /\ After(n, was).told = After(n, was).list
  <2> DEFINE i == batch[n].instance
  <2>1. i \in Instance /\ i \in Named(batch) /\ was.list \in SUBSET Instance  BY <1>2
  <2>2. CASE After(n, was) = Listed(was.list \union {i})
    <3>1. was.list \union {i} \in SUBSET Instance  BY <2>1
    <3> HIDE DEF After, i
    <3>2. QED  BY <2>1, <2>2, <3>1 DEF Listed
  <2>3. CASE After(n, was) = Listed(Remove(was.list, i))
    <3>1. Remove(was.list, i) \subseteq was.list  BY <2>1, <1>3
    <3> HIDE DEF After, i
    <3>2. QED  BY <2>1, <2>3, <3>1 DEF Listed
  <2>4. CASE After(n, was) = was
    <3> HIDE DEF After
    <3>1. QED  BY <2>4
  <2>5. \/ After(n, was) = Listed(was.list \union {i})
        \/ After(n, was) = Listed(Remove(was.list, i))
        \/ After(n, was) = was
    OBVIOUS
  <2> HIDE DEF After, i
  <2>6. QED  BY <2>2, <2>3, <2>4, <2>5
<1>5. b \in S  OBVIOUS
<1> HIDE DEF After
<1>6. \E f : Runs(f)
  <2> DEFINE G == [x \in (1..N) \X S |-> After(x[1], x[2])]
  <2>1. G \in [(1..N) \X S -> S]  BY <1>4
  <2>2. \A n \in 1..N : \A s \in S : G[<<n, s>>] = After(n, s)  OBVIOUS
  <2> HIDE DEF G, S, b
  <2>3. PICK f : Loop(f, S, N, b, G)  BY ONLY <1>1, <1>5, <2>1, Recursion
  <2>4. ASSUME NEW n \in 1..N PROVE f[n] = After(n, f[n - 1])
    <3>1. n - 1 \in 0..N  BY <1>1
    <3>2. f[n - 1] \in S  BY <2>3, <3>1 DEF Loop
    <3>3. QED  BY <2>2, <2>3, <3>2 DEF Loop
  <2>5. \A n \in 0..N : f[n] = IF n = 0 THEN b ELSE After(n, f[n - 1])
    BY <1>1, <2>3, <2>4 DEF Loop
  <2>6. Runs(f)  BY <2>3, <2>5 DEF Loop
  <2> HIDE DEF Runs
  <2>7. QED  BY <2>6
<1>7. PICK f : Runs(f) /\ Updated(batch) = f[N].told
  BY <1>6 DEF Updated, After, N
<1> DEFINE Z == {n \in 0..N : /\ f[n] \in S
                              /\ f[n].list \subseteq Named(batch)
                              /\ f[n].told = addresses \/ f[n].told \subseteq Named(batch)}
<1>8. f[0] = b /\ \A n \in 1..N : f[n] = After(n, f[n - 1])
  <2> DEFINE Next1(n) == IF n = 0 THEN b ELSE After(n, f[n - 1])
  <2>1. f = [n \in 0..N |-> Next1(n)]  BY <1>7
  <2> HIDE DEF Next1
  <2>2. \A n \in 0..N : f[n] = Next1(n)  BY <2>1
  <2>3. 0 \in 0..N /\ \A n \in 1..N : n \in 0..N /\ n # 0  BY <1>1
  <2>4. QED  BY <2>2, <2>3 DEF Next1
<1>9. 0 \in Z  BY <1>1, <1>5, <1>8
<1>10. ASSUME NEW n \in 1..N, n - 1 \in Z PROVE n \in Z
  <2> DEFINE was == f[n - 1]
  <2>1. /\ was \in S /\ was.list \subseteq Named(batch)
        /\ was.told = addresses \/ was.told \subseteq Named(batch)
    BY <1>10
  <2>2. f[n] = After(n, was) /\ n \in 0..N  BY <1>1, <1>8
  <2> HIDE DEF was, S
  <2>3. QED  BY <1>4, <2>1, <2>2
<1> HIDE DEF Z
<1>11. \A n \in 0..N : n \in Z  BY ONLY <1>1, <1>9, <1>10, InductionTo
<1>12. N \in 0..N  BY <1>1
<1>13. QED  BY <1>7, <1>11, <1>12 DEF Z

(* Changes are pending only for a watch that is open, and gRPC is told     *)
(* nothing before the first list.                                          *)
WatchDelivers ==
    /\ pending # <<>> => watch = "open"
    /\ watch = "none" => addresses = {}

ResolverInv == ResolverTypeOK /\ WatchDelivers

LEMMA ResolverInitInv == ResolverInit => ResolverInv
<1>1. <<>> \in Seq(Change) /\ Len(<<>>) = 0  OBVIOUS
<1>2. QED
  BY <1>1, PendingAssumption DEF ResolverInit, ResolverInv, ResolverTypeOK, WatchDelivers, Change

LEMMA NotifyPending ==
  ASSUME ResolverInv, NEW i \in Instance, NEW t \in {"put", "delete"}, Notify(t, i)
  PROVE  /\ pending' \in Seq(Change) /\ Len(pending') <= MaxPending
         /\ pending' # <<>> => watch = "open"
<1> DEFINE e == [type |-> t, instance |-> i]
<1>1. e \in Change  BY DEF Change
<1>2. pending \in Seq(Change) /\ Len(pending) \in Nat
  BY LenProperties DEF ResolverInv, ResolverTypeOK, Change
<1>3. CASE watch = "open"
  <2>1. pending' = Append(pending, e) /\ Len(pending) < MaxPending
    BY <1>3 DEF Notify
  <2> HIDE DEF e
  <2>2. pending' \in Seq(Change) /\ Len(pending') = Len(pending) + 1
    BY <1>1, <1>2, <2>1, AppendProperties
  <2>3. QED  BY <1>2, <1>3, <2>1, <2>2, PendingAssumption
<1>4. CASE watch # "open"
  <2>1. pending' = pending  BY <1>4 DEF Notify
  <2>2. QED  BY <1>2, <2>1 DEF ResolverInv, ResolverTypeOK, WatchDelivers
<1>5. QED  BY <1>3, <1>4

(* What Update does with a batch. *)
LEMMA UpdateBatch ==
  ASSUME ResolverInv, Update
  PROVE  /\ \/ addresses' = addresses
            \/ addresses' \subseteq Named(pending)
         /\ addresses' \subseteq Instance
         /\ pending' \in Seq(Change) /\ Len(pending') <= MaxPending
         /\ watch = "open"
<1>1. pending \in Seq(Change) /\ Len(pending) \in Nat /\ DOMAIN pending = 1..Len(pending)
  BY LenProperties DEF ResolverInv, ResolverTypeOK, Change
<1>2. PICK n \in 1..Len(pending) : /\ addresses' = Updated(SubSeq(pending, 1, n))
                                   /\ pending' = SubSeq(pending, n + 1, Len(pending))
  BY DEF Update
<1> DEFINE batch == SubSeq(pending, 1, n)
<1>3. /\ batch \in Seq(Change)
      /\ \A k \in DOMAIN batch : k \in DOMAIN pending /\ batch[k] = pending[k]
  <2>1. /\ batch \in Seq(Change) /\ Len(batch) = n
        /\ \A k \in 1..n : batch[k] = pending[1 + k - 1]
    BY <1>1, SubSeqProperties
  <2>2. DOMAIN batch = 1..n  BY <2>1, LenProperties
  <2> HIDE DEF batch
  <2>3. ASSUME NEW k \in 1..n PROVE k \in DOMAIN pending /\ batch[k] = pending[k]
    <3>1. 1 + k - 1 = k /\ k \in 1..Len(pending)  BY <1>1
    <3>2. QED  BY <1>1, <2>1, <3>1
  <2>4. QED  BY <2>1, <2>2, <2>3
<1>4. /\ pending' \in Seq(Change) /\ Len(pending') <= Len(pending)
  <2> DEFINE m == n + 1
  <2> DEFINE l == Len(pending)
  <2>1. m \in Nat \ {0} /\ l \in Nat /\ l - m + 1 <= l /\ n <= l  BY <1>1
  <2> HIDE DEF m, l
  <2>2. /\ SubSeq(pending, m, l) \in Seq(Change)
        /\ Len(SubSeq(pending, m, l)) = IF m <= l THEN l - m + 1 ELSE 0
    <3>1. \A i \in m..l : pending[i] \in Change
      <4>1. \A i \in 1..l : pending[i] \in Change  BY <1>1, ElementOfSeq DEF l
      <4>2. QED  BY <2>1, <4>1
    <3>2. m \in Int /\ l \in Int  BY <2>1
    <3>3. QED  BY ONLY <3>1, <3>2, SubSeqProperties
  <2>3. Len(SubSeq(pending, m, l)) <= l  BY <2>1, <2>2
  <2>4. QED  BY <1>2, <2>2, <2>3 DEF m, l
<1> HIDE DEF batch
<1>5. Named(batch) \subseteq Named(pending)  BY <1>3 DEF Named
<1>6. Named(pending) \subseteq Instance
  <2>1. \A k \in DOMAIN pending : pending[k] \in Change  BY <1>1, ElementOfSeq
  <2>2. QED  BY <2>1 DEF Named, Change
<1>7. addresses \subseteq Instance  BY DEF ResolverInv, ResolverTypeOK
<1>8. addresses' = addresses \/ addresses' \subseteq Named(pending)
  <2>1. addresses' = Updated(batch)  BY <1>2 DEF batch
  <2>2. QED  BY <1>3, <1>5, <1>7, <2>1, UpdatedNamed
<1>9. pending # <<>>
  <2>1. 1 \in DOMAIN pending  BY <1>1
  <2>2. QED  BY <2>1
<1>10. Len(pending) <= MaxPending /\ watch = "open"
  BY <1>9 DEF ResolverInv, ResolverTypeOK, WatchDelivers
<1>11. QED  BY <1>1, <1>4, <1>6, <1>7, <1>8, <1>10, LenProperties, PendingAssumption

LEMMA ResolverStepInv == ResolverInv /\ [ResolverNext]_resolverVars => ResolverInv'
<1> SUFFICES ASSUME ResolverInv, [ResolverNext]_resolverVars PROVE ResolverInv'
  OBVIOUS
<1>1. ASSUME NEW i \in Instance, PutKey(i) \/ DeleteKey(i) PROVE ResolverInv'
  <2>1. /\ pending' \in Seq(Change) /\ Len(pending') <= MaxPending
        /\ pending' # <<>> => watch = "open"
    BY <1>1, NotifyPending DEF PutKey, DeleteKey
  <2>2. QED
    BY <1>1, <2>1 DEF ResolverInv, ResolverTypeOK, WatchDelivers, PutKey, DeleteKey, Change
<1>2. CASE Disconnect
  BY <1>2 DEF ResolverInv, ResolverTypeOK, WatchDelivers, Disconnect
<1>3. CASE WatchEnds
  <2>1. <<>> \in Seq(Change) /\ Len(<<>>) = 0  OBVIOUS
  <2>2. QED
    BY <1>3, <2>1, PendingAssumption
    DEF ResolverInv, ResolverTypeOK, WatchDelivers, WatchEnds, Change
<1>4. CASE Build \/ OpenWatch \/ Sync
  BY <1>4 DEF ResolverInv, ResolverTypeOK, WatchDelivers, Build, OpenWatch, Sync, Synced
<1>5. CASE Update
  <2>1. UNCHANGED <<connected, registered, watch>>  BY <1>5 DEF Update
  <2>2. QED
    BY <1>5, <2>1, UpdateBatch DEF ResolverInv, ResolverTypeOK, WatchDelivers, Change
<1>6. CASE UNCHANGED resolverVars
  BY <1>6 DEF ResolverInv, ResolverTypeOK, WatchDelivers, resolverVars
<1>7. QED  BY <1>1, <1>2, <1>3, <1>4, <1>5, <1>6 DEF ResolverNext

(* The addresses are instances, and the watch has no changes that it does  *)
(* not deliver (resolver.go: sync, watch).                                 *)
THEOREM ResolverCorrect == ResolverSpec => [](ResolverTypeOK /\ WatchDelivers)
<1>1. ResolverInv => ResolverTypeOK /\ WatchDelivers  BY DEF ResolverInv
<1>2. QED  BY <1>1, ResolverInitInv, ResolverStepInv, PTL DEF ResolverSpec

(* When a batch of the watch changes the addresses, gRPC keeps none of an  *)
(* instance that the pending changes do not name, registered or not: the   *)
(* methods of the list have value receivers (resolver.go:145).             *)
ForgetsOthers ==
    Update => addresses' = addresses \/ addresses' \subseteq Named(pending)

THEOREM BatchesForgetOthers == ResolverSpec => [][ForgetsOthers]_resolverVars
<1>1. ResolverInv /\ [ResolverNext]_resolverVars => [ForgetsOthers]_resolverVars
  BY UpdateBatch DEF ForgetsOthers
<1>2. QED  BY <1>1, ResolverInitInv, ResolverStepInv, PTL DEF ResolverSpec

----------------------------------------------------------------------------
(* Shutdown: who waits for signals has registered its channel. *)
WaitersListen ==
    /\ main \notin {"starting", "ended"} => "service" \in listening
    /\ main = "waiting" => "main" \in listening
    /\ app \in {"waiting", "closing", "sleeping"} => "app" \in listening

ProcessInv == ProcessTypeOK /\ WaitersListen

LEMMA ProcessInitInv == ProcessInit => ProcessInv
BY DEF ProcessInit, ProcessInv, ProcessTypeOK, WaitersListen

LEMMA ProcessStepInv == ProcessInv /\ [ProcessNext]_processVars => ProcessInv'
<1> SUFFICES ASSUME ProcessInv, [ProcessNext]_processVars PROVE ProcessInv'
  OBVIOUS
<1> USE DEF ProcessInv, ProcessTypeOK, WaitersListen
<1>1. CASE MainStep
  BY <1>1 DEF MainStep, StartService, Stop, MainNotify, Exit
<1>2. CASE InitConfig \/ Run \/ AppNotify \/ CallExit \/ Closed \/ Quit
  BY <1>2 DEF InitConfig, Run, Go, AppNotify, CallExit, Closed, Quit
<1>3. CASE ServerStep
  BY <1>3 DEF ServerStep, RunServer, RunRouter, AssignExit, RunManager, Serve, Go
<1>4. CASE Fails  BY <1>4 DEF Fails, Alive
<1>5. ASSUME NEW s \in Signals, Signal(s) PROVE ProcessInv'
  BY <1>5 DEF Signal, Alive
<1>6. CASE UNCHANGED processVars  BY <1>6 DEF processVars
<1>7. QED  BY <1>1, <1>2, <1>3, <1>4, <1>5, <1>6 DEF ProcessNext, AppStep

(* A signal is only in a registered channel, and main, service.Run and     *)
(* app.Run wait only after they have registered (connector/main.go, app.go).*)
THEOREM ProcessCorrect == ProcessSpec => [](ProcessTypeOK /\ WaitersListen)
<1>1. ProcessInv => ProcessTypeOK /\ WaitersListen  BY DEF ProcessInv
<1>2. QED  BY <1>1, ProcessInitInv, ProcessStepInv, PTL DEF ProcessSpec

----------------------------------------------------------------------------
(* The composition: a step of one component leaves the others as they are. *)
ProgressInv == DispatchTypeOK /\ RegisterInv /\ ResolverInv /\ ProcessInv

(* Dispatch, Register, Resolver and Shutdown keep their types in the       *)
(* composition that the run checks.                                        *)
THEOREM ProgressTypeCorrect == ProgressSpec => []ProgressTypeOK
<1> DEFINE all == <<part, dispatchVars, registerVars, resolverVars, processVars>>
<1>1. ProgressInit => ProgressInv
  BY InitType, RegisterInitInv, ResolverInitInv, ProcessInitInv
  DEF ProgressInit, ProgressInv
<1>2. ProgressInv /\ [ProgressNext]_all => ProgressInv'
  <2> SUFFICES ASSUME ProgressInv, [ProgressNext]_all PROVE ProgressInv'
    OBVIOUS
  <2>1. /\ DispatchTypeOK /\ RegisterInv /\ ResolverInv /\ ProcessInv
        /\ [DispatchNext]_dispatchVars /\ [RegisterNext]_registerVars
        /\ [ResolverNext]_resolverVars /\ [ProcessNext]_processVars
    BY DEF ProgressInv, ProgressNext
  <2>2. DispatchTypeOK'  BY <2>1, DispatchStepType
  <2>3. RegisterInv' /\ ResolverInv' /\ ProcessInv'
    BY <2>1, RegisterStepInv, ResolverStepInv, ProcessStepInv
  <2>4. QED  BY <2>2, <2>3 DEF ProgressInv
<1>3. ProgressInv => ProgressTypeOK
  BY DEF ProgressInv, ProgressTypeOK, RegisterInv, ResolverInv, ProcessInv
<1>4. QED  BY <1>1, <1>2, <1>3, PTL DEF ProgressSpec
=============================================================================
