------------------------ MODULE ConnLifecycleProofs ------------------------
(***************************************************************************)
(* Theorems about ConnLifecycle, for every number of connections, structs, *)
(* buckets and senders, and every limit.  Those up to SweptClientsClosed   *)
(* need no assumption on time; the last ones name theirs.                  *)
(***************************************************************************)
EXTENDS ConnLifecycle, FiniteSetTheorems, SequenceTheorems, TLAPS

(* A connection has a struct from Get on, its pumps start with Run, and a  *)
(* sender that holds a struct or a channel holds a real one.               *)
Decided == {c \in Cid : serve[c] \in {"count", "run", "done"}}

Owned ==
    \A c \in Cid : serve[c] \notin {"idle", "get"} => owner[c] \in Obj

PumpsFollowRun ==
    \A c \in Cid : serve[c] # "done" => reader[c] = "off" /\ writer[c] = "off"

Registered == clients \subseteq Decided /\ doomed \subseteq Decided

SenderHolds ==
    \A s \in Sender :
        /\ sender[s].pc = "held" => sender[s].obj \in Obj /\ sender[s].dest \in Cid
        /\ sender[s].pc = "sending" => sender[s].ch \in Cid /\ sender[s].dest \in Cid

TypeInv == TypeOK /\ Owned /\ PumpsFollowRun /\ Registered /\ SenderHolds

LEMMA InitType == Init => TypeInv
BY NoneAssumption DEF Init, TypeInv, TypeOK, Owned, PumpsFollowRun, Registered,
   SenderHolds, ServePC, ReaderPC, WriterPC, SenderPC, PoolState, Panic, Idle,
   Decided

(* What a struct holds is a connection, so Close closes connections only. *)
LEMMA HoldsCid ==
  ASSUME TypeInv, NEW c \in Cid, serve[c] \notin {"idle", "get"}
  PROVE  /\ owner[c] \in Obj
         /\ field[owner[c]] \in Cid \union {None}
         /\ CloseStruct(owner[c]) => closed' \subseteq Cid
<1>1. owner[c] \in Obj BY DEF TypeInv, Owned
<1>2. field[owner[c]] \in Cid \union {None} BY <1>1 DEF TypeInv, TypeOK
<1> QED BY <1>1, <1>2 DEF TypeInv, TypeOK, CloseStruct

LEMMA ServeType ==
  ASSUME TypeInv, NEW c \in Cid,
         Accept(c) \/ UpgradeFails(c) \/ ServeStep(c) \/ PeerLost(c)
  PROVE  TypeInv'
<1> USE NoneAssumption, LimitAssumption
    DEF TypeInv, TypeOK, Owned, PumpsFollowRun, Registered, SenderHolds, Decided,
        ServePC, ReaderPC, WriterPC, PoolState,
        serveVars, readVars, writeVars, structVars, connVars, chanVars, mgrVars,
        shutVars
<1>1. CASE Accept(c) BY <1>1 DEF Accept
<1>2. CASE UpgradeFails(c) BY <1>2 DEF UpgradeFails
<1>3. CASE Acquire(c) BY <1>3 DEF Acquire
<1>4. CASE Refuse(c)
  <2>1. closed' \subseteq Cid BY <1>4, HoldsCid DEF Refuse
  <2> QED BY <1>4, <2>1 DEF Refuse
<1>5. CASE Insert(c) BY <1>5 DEF Insert
<1>6. CASE CountIn(c) BY <1>6 DEF CountIn
<1>7. CASE Run(c) BY <1>7 DEF Run
<1>8. ASSUME NEW o \in Obj, Get(c, o) PROVE TypeInv' BY <1>8 DEF Get
<1>9. CASE PeerLost(c) BY <1>9 DEF PeerLost
<1> QED BY <1>1, <1>2, <1>3, <1>4, <1>5, <1>6, <1>7, <1>8, <1>9 DEF ServeStep

LEMMA ReaderType ==
  ASSUME TypeInv, NEW c \in Cid, ReadMessage(c) \/ ReaderStep(c)
  PROVE  TypeInv'
<1> USE NoneAssumption, LimitAssumption
    DEF TypeInv, TypeOK, Owned, PumpsFollowRun, Registered, SenderHolds, Decided,
        ServePC, ReaderPC, WriterPC, PoolState,
        serveVars, readVars, writeVars, structVars, connVars, chanVars, mgrVars,
        shutVars
<1>1. CASE ReadMessage(c) BY <1>1 DEF ReadMessage
<1>2. CASE ReaderLoop(c) BY <1>2 DEF ReaderLoop
<1>12. CASE ReaderCall(c) \/ EnterSelect(c)
  <2>1. field[owner[c]] \in Cid \union {None}
    BY <1>12, HoldsCid DEF ReaderCall, EnterSelect
  <2>2. CASE ReaderCall(c) BY <2>1, <2>2 DEF ReaderCall
  <2>3. CASE EnterSelect(c) BY <2>1, <2>3 DEF EnterSelect
  <2> QED BY <1>12, <2>2, <2>3
<1>3. CASE ReadFails(c) BY <1>3 DEF ReadFails
<1>4. CASE Push(c) BY <1>4 DEF Push
<1>5. CASE PushAborts(c) BY <1>5 DEF PushAborts
<1>6. CASE RemoveHit(c) BY <1>6 DEF RemoveHit
<1>7. CASE RemoveMiss(c) BY <1>7 DEF RemoveMiss
<1>8. CASE ReaderClose(c)
  <2>1. closed' \subseteq Cid BY <1>8, HoldsCid DEF ReaderClose
  <2> QED BY <1>8, <2>1 DEF ReaderClose
<1>9. CASE Release(c) BY <1>9 DEF Release
<1>10. CASE CountOut(c) BY <1>10 DEF CountOut
<1>11. CASE ReaderPanics(c) BY <1>11 DEF ReaderPanics, Panic
<1> QED BY <1>1, <1>2, <1>3, <1>4, <1>5, <1>6, <1>7, <1>8, <1>9, <1>10, <1>11, <1>12
        DEF ReaderStep

LEMMA WriterType ==
  ASSUME TypeInv, NEW c \in Cid, Ping(c) \/ WriterStep(c)
  PROVE  TypeInv'
<1> USE NoneAssumption, LimitAssumption
    DEF TypeInv, TypeOK, Owned, PumpsFollowRun, Registered, SenderHolds, Decided,
        ServePC, ReaderPC, WriterPC, PoolState,
        serveVars, readVars, writeVars, structVars, connVars, chanVars, mgrVars,
        shutVars
<1>1. CASE Ping(c)
  <2>1. closed' \subseteq Cid BY <1>1, HoldsCid DEF Ping
  <2> QED BY <1>1, <2>1 DEF Ping
<1>2. CASE WriterStart(c) BY <1>2 DEF WriterStart
<1>3. CASE WriterSelect(c) BY <1>3 DEF WriterSelect
<1>4. CASE WriterRecv(c)
  <2> DEFINE q == queue[wsel[c]]
             f == field[owner[c]]
  <2>1. wsel[c] \in Cid /\ q \in Seq(Cid) /\ q # <<>>
    BY <1>4 DEF WriterRecv
  <2>5. serve[c] = "done" BY <1>4 DEF WriterRecv
  <2>6. f \in Cid BY <1>4, <2>5, HoldsCid DEF WriterRecv
  <2>2. Head(q) \in Cid /\ Tail(q) \in Seq(Cid) BY <2>1, HeadTailProperties
  <2>3. queue' \in [Cid -> Seq(Cid)] BY <1>4, <2>1, <2>2 DEF WriterRecv
  <2>4. wire' \in [Cid -> SUBSET Cid] BY <1>4, <2>6, <2>2 DEF WriterRecv
  <2> QED BY <1>4, <2>3, <2>4 DEF WriterRecv
<1>5. CASE WriterRecvClosed(c)
  <2>1. closed' \subseteq Cid BY <1>5, HoldsCid DEF WriterRecvClosed
  <2> QED BY <1>5, <2>1 DEF WriterRecvClosed
<1>6. CASE WriterSeesClose(c) BY <1>6 DEF WriterSeesClose
<1>7. CASE WriterExit(c)
  <2>2. serve[c] = "done" BY <1>7 DEF WriterExit
  <2>3. field[owner[c]] \in Cid \union {None} BY <2>2, HoldsCid
  <2>1. qclosed' \subseteq Cid BY <1>7, <2>3 DEF WriterExit
  <2> QED BY <1>7, <2>1 DEF WriterExit
<1>8. CASE WriterPanics(c) BY <1>8 DEF WriterPanics, Panic
<1> QED BY <1>1, <1>2, <1>3, <1>4, <1>5, <1>6, <1>7, <1>8 DEF WriterStep

LEMMA SenderType ==
  ASSUME TypeInv, NEW s \in Sender, SenderStep(s) \/ \E c \in Cid : Lookup(s, c)
  PROVE  TypeInv'
<1> USE NoneAssumption, LimitAssumption
    DEF TypeInv, TypeOK, Owned, PumpsFollowRun, Registered, SenderHolds, Decided,
        ServePC, ReaderPC, WriterPC, PoolState,
        serveVars, readVars, writeVars, structVars, connVars, chanVars, mgrVars,
        shutVars
<1>1. ASSUME NEW c \in Cid, Lookup(s, c) PROVE TypeInv'
  <2>1. owner[c] \in Obj BY <1>1, HoldsCid DEF Lookup
  <2> QED BY <1>1, <2>1 DEF Lookup, Idle, SenderPC
<1>2. CASE Send(s) BY <1>2 DEF Send, Idle, SenderPC
<1>3. CASE Enqueue(s) BY <1>3 DEF Enqueue, Idle, SenderPC
<1>4. CASE SenderPanics(s) BY <1>4 DEF SenderPanics, Panic
<1> QED BY <1>1, <1>2, <1>3, <1>4 DEF SenderStep

LEMMA PutType ==
  ASSUME TypeInv, NEW o \in Obj, Put(o)
  PROVE  TypeInv'
<1> USE NoneAssumption, LimitAssumption
    DEF TypeInv, TypeOK, Owned, PumpsFollowRun, Registered, SenderHolds, Decided,
        ServePC, ReaderPC, WriterPC, PoolState,
        serveVars, readVars, writeVars, structVars, connVars, chanVars, mgrVars,
        shutVars
<1>1. CASE Put(o)
  <2>1. CASE Count > PoolMax BY <1>1, <2>1 DEF Put
  <2>2. CASE ~(Count > PoolMax)
    <3>1. /\ pool' = [pool EXCEPT ![o] = "idle"]
          /\ field' = [field EXCEPT ![o] = None]
          /\ ticker' = ticker \ {o}
          /\ recycled' = recycled \union {field[o]}
          /\ field[o] \in closed
      BY <1>1, <2>2 DEF Put
    <3>2. field' \in [Obj -> Cid \union {None}] BY <3>1
    <3>3. recycled' \subseteq Cid BY <3>1
    <3> QED BY <1>1, <3>1, <3>2, <3>3 DEF Put
  <2> QED BY <2>1, <2>2
<1> QED BY <1>1

LEMMA CloseType ==
  ASSUME TypeInv, StartClose \/ ShutStep
  PROVE  TypeInv'
<1> USE NoneAssumption, LimitAssumption
    DEF TypeInv, TypeOK, Owned, PumpsFollowRun, Registered, SenderHolds, Decided,
        ServePC, ReaderPC, WriterPC, PoolState,
        serveVars, readVars, writeVars, structVars, connVars, chanVars, mgrVars,
        shutVars
<1>1. CASE StartClose BY <1>1 DEF StartClose
<1>2. CASE CloseReturns BY <1>2 DEF CloseReturns
<1>3. ASSUME NEW b \in Bucket, Sweep(b) PROVE TypeInv' BY <1>3 DEF Sweep, InBucket
<1>4. ASSUME NEW c \in Cid, CloseSwept(c) PROVE TypeInv'
  <2>1. closed' \subseteq Cid BY <1>4, HoldsCid DEF CloseSwept
  <2> QED BY <1>4, <2>1 DEF CloseSwept
<1> QED BY <1>1, <1>2, <1>3, <1>4 DEF ShutStep

LEMMA TypeStep == TypeInv /\ [Next]_vars => TypeInv'
<1> SUFFICES ASSUME TypeInv, [Next]_vars PROVE TypeInv'
  OBVIOUS
<1>1. CASE UNCHANGED vars
  BY <1>1 DEF vars, TypeInv, TypeOK, Owned, PumpsFollowRun, Registered,
     SenderHolds, Decided, serveVars, readVars, writeVars, structVars, connVars,
     chanVars, mgrVars, shutVars
<1>2. CASE Next
  BY <1>2, ServeType, ReaderType, WriterType, SenderType, PutType, CloseType
  DEF Next, ConnStep
<1> QED BY <1>1, <1>2

(* Type correctness: every variable keeps its type, whatever the timing    *)
(* (the fields of Manager, WsConnection and WsConnectionPool).             *)
THEOREM TypeCorrect == Spec => []TypeOK
<1>1. TypeInv => TypeOK BY DEF TypeInv
<1> QED BY InitType, TypeStep, <1>1, PTL DEF Spec

----------------------------------------------------------------------------
(* What makes the two accounts inductive: a sweep and a removal never take *)
(* the same client, nothing is in the maps before addClient put it there,  *)
(* and the channel of tokens never holds more than its capacity.           *)
AccountInv ==
    /\ clients \intersect swept = {}
    /\ swept \subseteq Decided
    /\ sem <= MaxConn
    /\ SlotAccounting
    /\ StatsAccounting

(* All the sets that are counted are finite, and the counters are numbers. *)
LEMMA FiniteSets ==
  ASSUME TypeInv
  PROVE  /\ IsFiniteSet(Inserting) /\ Cardinality(Inserting) \in Nat
         /\ IsFiniteSet(Releasing) /\ Cardinality(Releasing) \in Nat
         /\ IsFiniteSet(Uncounted) /\ Cardinality(Uncounted) \in Nat
         /\ IsFiniteSet(Overcounted) /\ Cardinality(Overcounted) \in Nat
         /\ IsFiniteSet(clients) /\ Cardinality(clients) \in Nat
         /\ IsFiniteSet(Taken) /\ Cardinality(Taken) \in Nat
         /\ sem \in Nat /\ current \in Int
<1>1. /\ Inserting \in SUBSET Cid /\ Releasing \in SUBSET Cid
      /\ Uncounted \in SUBSET Cid /\ Overcounted \in SUBSET Cid
      /\ clients \in SUBSET Cid /\ Taken \in SUBSET Cid
  BY DEF TypeInv, TypeOK, Inserting, Releasing, Uncounted, Overcounted, Taken
<1>2. \A T \in SUBSET Cid : IsFiniteSet(T) /\ Cardinality(T) \in Nat
  BY FiniteAssumption, FS_Subset, FS_CardinalityType
<1>3. sem \in Nat /\ current \in Int BY DEF TypeInv, TypeOK
<1> QED BY <1>1, <1>2, <1>3

(* A step that moves nobody between the counted sets keeps the accounts. *)
LEMMA AccountFrame ==
  ASSUME AccountInv,
         Inserting' = Inserting, Releasing' = Releasing,
         Uncounted' = Uncounted, Overcounted' = Overcounted,
         Decided \subseteq Decided',
         UNCHANGED <<mgrVars, swept>>
  PROVE  AccountInv'
BY DEF AccountInv, SlotAccounting, StatsAccounting, Taken, mgrVars

(* A goroutine that serves a request and stays outside addClient's count. *)
LEMMA ServeFrame ==
  ASSUME TypeInv, AccountInv, NEW c \in Cid, NEW pc \in ServePC,
         serve' = [serve EXCEPT ![c] = pc],
         serve[c] \notin {"insert", "count"}, pc \notin {"insert", "count"},
         serve[c] \in {"run", "done"} => pc \in {"run", "done"},
         Releasing' = Releasing, Overcounted' = Overcounted,
         UNCHANGED <<mgrVars, swept>>
  PROVE  AccountInv'
<1>1. Inserting' = Inserting /\ Uncounted' = Uncounted /\ Decided \subseteq Decided'
  BY DEF TypeInv, TypeOK, Inserting, Uncounted, Decided
<1> QED BY <1>1, AccountFrame

(* A reader that stays outside removeClient's accounts. *)
LEMMA ReaderFrame ==
  ASSUME TypeInv, AccountInv, NEW c \in Cid, NEW pc \in ReaderPC,
         reader' = [reader EXCEPT ![c] = pc],
         reader[c] \notin {"close", "release", "uncount"},
         pc \notin {"close", "release", "uncount"},
         UNCHANGED <<serve, mgrVars, swept>>
  PROVE  AccountInv'
<1>1. Releasing' = Releasing /\ Overcounted' = Overcounted
  BY DEF TypeInv, TypeOK, Releasing, Overcounted
<1>2. Inserting' = Inserting /\ Uncounted' = Uncounted /\ Decided' = Decided
  BY DEF Inserting, Uncounted, Decided
<1> QED BY <1>1, <1>2, AccountFrame

(* A step of a goroutine that is neither. *)
LEMMA OtherFrame ==
  ASSUME AccountInv, UNCHANGED <<serve, reader, mgrVars, swept>>
  PROVE  AccountInv'
BY DEF AccountInv, SlotAccounting, StatsAccounting, mgrVars, Taken, Inserting, Releasing,
   Uncounted, Overcounted, Decided

LEMMA ServeAccount ==
  ASSUME TypeInv, AccountInv, NEW c \in Cid,
         Accept(c) \/ UpgradeFails(c) \/ ServeStep(c) \/ PeerLost(c)
  PROVE  AccountInv'
<1> USE DEF shutVars, readVars, serveVars
<1>s. /\ UNCHANGED reader => Releasing' = Releasing /\ Overcounted' = Overcounted
      /\ {"get", "idle", "add", "run", "done"} \subseteq ServePC
  BY DEF Releasing, Overcounted, ServePC
<1>f. ASSUME UNCHANGED <<reader, mgrVars, swept>>, NEW pc \in ServePC,
             serve' = [serve EXCEPT ![c] = pc],
             serve[c] \notin {"insert", "count", "run", "done"},
             pc \notin {"insert", "count"}
      PROVE  AccountInv'
  BY <1>f, <1>s, ServeFrame
<1>1. CASE Accept(c) BY <1>1, <1>f, <1>s DEF Accept
<1>2. CASE UpgradeFails(c) BY <1>2, <1>f, <1>s DEF UpgradeFails
<1>3. CASE Acquire(c)
  <2>1. c \notin Inserting /\ Inserting' = Inserting \union {c}
        /\ Uncounted' = Uncounted /\ Decided' = Decided
    BY <1>3 DEF Acquire, TypeInv, TypeOK, Inserting, Uncounted, Decided
  <2>2. Releasing' = Releasing /\ Overcounted' = Overcounted
        /\ sem' = sem + 1 /\ sem < MaxConn /\ UNCHANGED <<clients, current, swept, Taken>>
    BY <1>3, <1>s DEF Acquire, SlotFree, Taken
  <2>3. Cardinality(Inserting') = Cardinality(Inserting) + 1
    BY <2>1, FiniteSets, FS_AddElement
  <2> QED BY <2>1, <2>2, <2>3, FiniteSets, LimitAssumption
          DEF AccountInv, SlotAccounting, StatsAccounting
<1>4. CASE Refuse(c) BY <1>4, <1>f, <1>s DEF Refuse
<1>5. CASE Insert(c)
  <2>1. c \in Inserting /\ Inserting' = Inserting \ {c}
        /\ c \notin Uncounted /\ Uncounted' = Uncounted \union {c}
        /\ c \notin Decided /\ Decided' = Decided \union {c}
    BY <1>5 DEF Insert, TypeInv, TypeOK, Inserting, Uncounted, Decided
  <2>2. Releasing' = Releasing /\ Overcounted' = Overcounted
        /\ clients' = clients \union {c} /\ UNCHANGED <<sem, current, swept>>
    BY <1>5, <1>s DEF Insert
  <2>3. c \notin Taken /\ Taken' = Taken \union {c}
    BY <2>1, <2>2 DEF TypeInv, Registered, AccountInv, Taken
  <2>4. /\ Cardinality(Inserting') = Cardinality(Inserting) - 1
        /\ Cardinality(Uncounted') = Cardinality(Uncounted) + 1
        /\ Cardinality(Taken') = Cardinality(Taken) + 1
    BY <2>1, <2>3, FiniteSets, FS_AddElement, FS_RemoveElement
  <2>5. clients' \intersect swept' = {} /\ swept' \subseteq Decided' /\ sem' <= MaxConn
    BY <2>1, <2>2, <2>3 DEF AccountInv, Taken
  <2>6. SlotAccounting' /\ StatsAccounting'
    BY <2>2, <2>4, FiniteSets
    DEF AccountInv, SlotAccounting, StatsAccounting
  <2> QED BY <2>5, <2>6 DEF AccountInv
<1>6. CASE CountIn(c)
  <2>1. c \in Uncounted /\ Uncounted' = Uncounted \ {c}
        /\ Inserting' = Inserting /\ Decided' = Decided
    BY <1>6 DEF CountIn, TypeInv, TypeOK, Inserting, Uncounted, Decided
  <2>2. Releasing' = Releasing /\ Overcounted' = Overcounted
        /\ current' = current + 1 /\ UNCHANGED <<clients, sem, swept, Taken>>
    BY <1>6, <1>s DEF CountIn, Taken
  <2>3. Cardinality(Uncounted') = Cardinality(Uncounted) - 1
    BY <2>1, FiniteSets, FS_RemoveElement
  <2> QED BY <2>1, <2>2, <2>3, FiniteSets
          DEF AccountInv, SlotAccounting, StatsAccounting
<1>7. CASE Run(c)
  <2>1. Releasing' = Releasing /\ Overcounted' = Overcounted
    BY <1>7 DEF Run, TypeInv, TypeOK, PumpsFollowRun, Releasing, Overcounted
  <2> QED BY <1>7, <1>s, <2>1, ServeFrame DEF Run
<1>8. ASSUME NEW o \in Obj, Get(c, o) PROVE AccountInv'
  BY <1>8, <1>f, <1>s DEF Get
<1>9. CASE PeerLost(c) BY <1>9, OtherFrame DEF PeerLost
<1> QED BY <1>1, <1>2, <1>3, <1>4, <1>5, <1>6, <1>7, <1>8, <1>9 DEF ServeStep

LEMMA ReaderAccount ==
  ASSUME TypeInv, AccountInv, NEW c \in Cid, ReadMessage(c) \/ ReaderStep(c)
  PROVE  AccountInv'
<1> USE DEF shutVars, readVars, serveVars
<1>s. {"loop", "call", "read", "got", "push", "stuck", "remove", "done"} \subseteq ReaderPC
  BY DEF ReaderPC
<1>f. ASSUME UNCHANGED <<serve, mgrVars, swept>>, NEW pc \in ReaderPC,
             reader' = [reader EXCEPT ![c] = pc],
             reader[c] \in Reading,
             pc \notin {"close", "release", "uncount"}
      PROVE  AccountInv'
  BY <1>f, ReaderFrame DEF Reading
<1>e. UNCHANGED serve => Inserting' = Inserting /\ Uncounted' = Uncounted
                         /\ Decided' = Decided
  BY DEF Inserting, Uncounted, Decided
<1>1. CASE ReadMessage(c) \/ EnterSelect(c)
  BY <1>1, <1>f, <1>s DEF ReadMessage, EnterSelect, Reading
<1>2. CASE ReaderLoop(c) \/ ReaderCall(c)
  BY <1>2, <1>f, <1>s DEF ReaderLoop, ReaderCall, Reading
<1>3. CASE ReadFails(c) BY <1>3, <1>f, <1>s DEF ReadFails, Reading
<1>4. CASE Push(c) BY <1>4, <1>f, <1>s DEF Push, Reading
<1>5. CASE PushAborts(c) BY <1>5, <1>f, <1>s DEF PushAborts, Reading
<1>6. CASE RemoveHit(c)
  <2> DEFINE f == field[owner[c]]
  <2>1. /\ c \notin Releasing /\ Releasing' = Releasing \union {c}
        /\ c \notin Overcounted /\ Overcounted' = Overcounted \union {c}
    BY <1>6 DEF RemoveHit, TypeInv, TypeOK, Releasing, Overcounted
  <2>2. /\ f \in clients /\ clients' = clients \ {f}
        /\ UNCHANGED <<serve, sem, current, swept>>
    BY <1>6 DEF RemoveHit
  <2>3. f \in Taken /\ Taken' = Taken \ {f}
    BY <2>2 DEF AccountInv, Taken
  <2>4. /\ Cardinality(Releasing') = Cardinality(Releasing) + 1
        /\ Cardinality(Overcounted') = Cardinality(Overcounted) + 1
        /\ Cardinality(Taken') = Cardinality(Taken) - 1
    BY <2>1, <2>3, FiniteSets, FS_AddElement, FS_RemoveElement
  <2>5. clients' \intersect swept' = {} /\ swept' \subseteq Decided' /\ sem' <= MaxConn
    BY <2>2, <1>e DEF AccountInv
  <2>6. SlotAccounting' /\ StatsAccounting'
    BY <2>2, <2>4, <1>e, FiniteSets
    DEF AccountInv, SlotAccounting, StatsAccounting
  <2> QED BY <2>5, <2>6 DEF AccountInv
<1>7. CASE RemoveMiss(c) BY <1>7, <1>f, <1>s DEF RemoveMiss, Reading
<1>8. CASE ReaderClose(c)
  <2>1. Releasing' = Releasing /\ Overcounted' = Overcounted
    BY <1>8 DEF ReaderClose, TypeInv, TypeOK, Releasing, Overcounted
  <2> QED BY <1>8, <1>e, <2>1, AccountFrame DEF ReaderClose
<1>9. CASE Release(c)
  <2>1. c \in Releasing /\ Releasing' = Releasing \ {c} /\ Overcounted' = Overcounted
    BY <1>9 DEF Release, TypeInv, TypeOK, Releasing, Overcounted
  <2>2. sem' = sem - 1 /\ UNCHANGED <<serve, clients, current, swept, Taken>>
    BY <1>9 DEF Release, Taken
  <2>3. Cardinality(Releasing') = Cardinality(Releasing) - 1
    BY <2>1, FiniteSets, FS_RemoveElement
  <2> QED BY <2>1, <2>2, <2>3, <1>e, FiniteSets, LimitAssumption
          DEF AccountInv, SlotAccounting, StatsAccounting
<1>10. CASE CountOut(c)
  <2>1. c \in Overcounted /\ Overcounted' = Overcounted \ {c} /\ Releasing' = Releasing
    BY <1>10 DEF CountOut, TypeInv, TypeOK, Releasing, Overcounted
  <2>2. current' = current - 1 /\ UNCHANGED <<serve, clients, sem, swept, Taken>>
    BY <1>10 DEF CountOut, Taken
  <2>3. Cardinality(Overcounted') = Cardinality(Overcounted) - 1
    BY <2>1, FiniteSets, FS_RemoveElement
  <2> QED BY <2>1, <2>2, <2>3, <1>e, FiniteSets
          DEF AccountInv, SlotAccounting, StatsAccounting
<1>11. CASE ReaderPanics(c) BY <1>11, OtherFrame DEF ReaderPanics
<1> QED BY <1>1, <1>2, <1>3, <1>4, <1>5, <1>6, <1>7, <1>8, <1>9, <1>10, <1>11
        DEF ReaderStep

LEMMA CloseAccount ==
  ASSUME TypeInv, AccountInv, StartClose \/ ShutStep
  PROVE  AccountInv'
<1> USE DEF readVars, serveVars, mgrVars
<1>1. CASE StartClose BY <1>1, OtherFrame DEF StartClose
<1>2. CASE CloseReturns BY <1>2, OtherFrame DEF CloseReturns
<1>3. ASSUME NEW c \in Cid, CloseSwept(c) PROVE AccountInv'
  BY <1>3, OtherFrame DEF CloseSwept
<1>4. ASSUME NEW b \in Bucket, Sweep(b) PROVE AccountInv'
  <2>1. Taken' = Taken /\ clients' \intersect swept' = {} /\ swept' \subseteq Decided
    BY <1>4 DEF Sweep, InBucket, Taken, AccountInv, TypeInv, Registered
  <2>2. UNCHANGED <<serve, reader, sem, current>> BY <1>4 DEF Sweep
  <2> QED BY <2>1, <2>2 DEF AccountInv, SlotAccounting, StatsAccounting, Taken,
             Inserting, Releasing, Uncounted, Overcounted, Decided
<1> QED BY <1>1, <1>2, <1>3, <1>4 DEF ShutStep

LEMMA OtherAccount ==
  ASSUME TypeInv, AccountInv
  PROVE  /\ \A c \in Cid : Ping(c) \/ WriterStep(c) => AccountInv'
         /\ \A o \in Obj : Put(o) => AccountInv'
         /\ \A s \in Sender : SenderStep(s) => AccountInv'
         /\ \A s \in Sender, c \in Cid : Lookup(s, c) => AccountInv'
<1> USE OtherFrame DEF readVars, serveVars, shutVars
<1>1. \A c \in Cid : Ping(c) \/ WriterStep(c) => AccountInv'
  BY DEF Ping, WriterStep, WriterStart, WriterSelect, WriterRecv, WriterRecvClosed,
     WriterSeesClose, WriterExit, WriterPanics
<1>2. \A o \in Obj : Put(o) => AccountInv' BY DEF Put
<1>3. \A s \in Sender : SenderStep(s) => AccountInv'
  BY DEF SenderStep, Send, Enqueue, SenderPanics
<1>4. \A s \in Sender, c \in Cid : Lookup(s, c) => AccountInv' BY DEF Lookup
<1> QED BY <1>1, <1>2, <1>3, <1>4

LEMMA InitAccount == Init => AccountInv
<1> SUFFICES ASSUME Init PROVE AccountInv OBVIOUS
<1>1. Inserting = {} /\ Releasing = {} /\ Uncounted = {} /\ Overcounted = {}
      /\ clients = {} /\ swept = {} /\ Taken = {}
  BY DEF Init, Inserting, Releasing, Uncounted, Overcounted, Taken
<1>2. sem = 0 /\ current = 0 BY DEF Init
<1> QED BY <1>1, <1>2, FS_EmptySet, LimitAssumption
        DEF AccountInv, SlotAccounting, StatsAccounting

(* The inductive invariant of everything that does not depend on timing.   *)
THEOREM AccountsHold == Spec => [](TypeInv /\ AccountInv)
<1>1. Init => TypeInv /\ AccountInv BY InitType, InitAccount
<1>2. TypeInv /\ AccountInv /\ [Next]_vars => AccountInv'
  <2> SUFFICES ASSUME TypeInv, AccountInv, [Next]_vars PROVE AccountInv'
    OBVIOUS
  <2>1. CASE UNCHANGED vars
    BY <2>1, OtherFrame DEF vars, serveVars, readVars, mgrVars, shutVars
  <2>2. CASE Next
    BY <2>2, ServeAccount, ReaderAccount, CloseAccount, OtherAccount
    DEF Next, ConnStep
  <2> QED BY <2>1, <2>2
<1>3. TypeInv /\ [Next]_vars => TypeInv' BY TypeStep
<1> QED BY <1>1, <1>2, <1>3, PTL DEF Spec

(* Every token of connSemaphore belongs to exactly one client: addClient,   *)
(* removeClient and Manager.Close never lose a slot nor return one twice.   *)
THEOREM SlotsAreAccounted == Spec => []SlotAccounting
<1>1. AccountInv => SlotAccounting BY DEF AccountInv
<1> QED BY <1>1, AccountsHold, PTL

(* The counter that serveWS reads differs from the number of clients only   *)
(* by goroutines that are between the map and the counter.                  *)
THEOREM StatsAreAccounted == Spec => []StatsAccounting
<1>1. AccountInv => StatsAccounting BY DEF AccountInv
<1> QED BY <1>1, AccountsHold, PTL

(* The bucket maps together never hold more than maxConnections clients.    *)
THEOREM CapacityHolds == Spec => []CapacityBound
<1>1. TypeInv /\ AccountInv => CapacityBound
  <2> SUFFICES ASSUME TypeInv, AccountInv PROVE CapacityBound OBVIOUS
  <2>1. Cardinality(clients) <= Cardinality(Taken)
    BY FiniteSets, FS_Subset DEF Taken
  <2>2. Cardinality(Taken) <= sem /\ sem <= MaxConn
    BY FiniteSets DEF AccountInv, SlotAccounting
  <2> QED BY <2>1, <2>2, FiniteSets, LimitAssumption
          DEF CapacityBound, TypeInv, TypeOK
<1> QED BY <1>1, AccountsHold, PTL

(* removeClient's receive from connSemaphore always finds a token.          *)
THEOREM ReleaseFindsToken == Spec => []ReleaseNeverWaits
<1>1. TypeInv /\ AccountInv => ReleaseNeverWaits
  <2> SUFFICES ASSUME TypeInv, AccountInv, NEW c \in Cid, reader[c] = "release"
               PROVE  sem > 0
    BY DEF ReleaseNeverWaits
  <2>1. Releasing # {} BY DEF Releasing
  <2>2. Cardinality(Releasing) # 0 BY <2>1, FiniteSets, FS_EmptySet
  <2> QED BY <2>2, FiniteSets DEF AccountInv, SlotAccounting
<1> QED BY <1>1, AccountsHold, PTL

----------------------------------------------------------------------------
(* The abstract state of ConnRegistry, as ConnLifecycle implements it. *)
RegistryVars == <<clients, Decided>>

(* addClient either admits an id with a free slot or turns it away, once;  *)
(* every other step of the serving goroutine is invisible.                 *)
LEMMA ServeMaps ==
  ASSUME TypeInv, AccountInv, NEW c \in Cid,
         Accept(c) \/ UpgradeFails(c) \/ ServeStep(c) \/ PeerLost(c)
  PROVE  Registry!Admit(c) \/ Registry!Turn(c) \/ UNCHANGED RegistryVars
<1> USE DEF serveVars, mgrVars, RegistryVars, TypeInv, TypeOK, Decided
<1>1. CASE Insert(c)
  <2>1. c \in Inserting /\ Inserting # {} BY <1>1 DEF Insert, Inserting
  <2>2. Cardinality(Inserting) # 0 BY <2>1, FiniteSets, FS_EmptySet
  <2>3. Cardinality(clients) <= Cardinality(Taken)
    BY FiniteSets, FS_Subset DEF Taken
  <2>4. Cardinality(clients) < MaxConn
    BY <2>2, <2>3, FiniteSets, LimitAssumption DEF AccountInv, SlotAccounting
  <2>5. c \notin Decided /\ Decided' = Decided \union {c} /\ clients' = clients \union {c}
    BY <1>1 DEF Insert
  <2>6. Registry!Admit(c)
    <3> HIDE DEF TypeInv, TypeOK
    <3>1. Registry!Cardinality(clients) = Cardinality(clients)
      BY DEF Registry!Cardinality, Cardinality
    <3> QED BY <3>1, <2>4, <2>5 DEF Registry!Admit
  <2> QED BY <2>6
<1>2. CASE Refuse(c)
  <2>1. c \notin Decided /\ Decided' = Decided \union {c} /\ clients' = clients
    BY <1>2 DEF Refuse
  <2> QED BY <2>1 DEF Registry!Turn
<1>3. CASE Accept(c) BY <1>3 DEF Accept
<1>4. CASE UpgradeFails(c) BY <1>4 DEF UpgradeFails
<1>5. CASE Acquire(c) BY <1>5 DEF Acquire
<1>6. CASE CountIn(c) BY <1>6 DEF CountIn
<1>7. CASE Run(c) BY <1>7 DEF Run
<1>8. ASSUME NEW o \in Obj, Get(c, o) PROVE UNCHANGED RegistryVars
  BY <1>8 DEF Get
<1>9. CASE PeerLost(c) BY <1>9 DEF PeerLost
<1> QED BY <1>1, <1>2, <1>3, <1>4, <1>5, <1>6, <1>7, <1>8, <1>9 DEF ServeStep

(* A reader takes at most one client out of the registry, in removeClient. *)
LEMMA ReaderMaps ==
  ASSUME NEW c \in Cid, ReadMessage(c) \/ ReaderStep(c)
  PROVE  (\E S \in SUBSET clients : Registry!Leave(S)) \/ UNCHANGED RegistryVars
<1> USE DEF serveVars, mgrVars, RegistryVars, Decided
<1>1. CASE RemoveHit(c)
  <2> DEFINE S == {field[owner[c]]}
  <2>1. S # {} /\ S \subseteq clients /\ clients' = clients \ S /\ Decided' = Decided
    BY <1>1 DEF RemoveHit
  <2> QED BY <2>1 DEF Registry!Leave
<1>2. CASE ReadMessage(c) \/ EnterSelect(c) BY <1>2 DEF ReadMessage, EnterSelect
<1>3. CASE ReaderLoop(c) \/ ReaderCall(c) BY <1>3 DEF ReaderLoop, ReaderCall
<1>4. CASE ReadFails(c) \/ Push(c) \/ PushAborts(c) \/ RemoveMiss(c)
  BY <1>4 DEF ReadFails, Push, PushAborts, RemoveMiss
<1>5. CASE ReaderClose(c) \/ Release(c) \/ CountOut(c) \/ ReaderPanics(c)
  BY <1>5 DEF ReaderClose, Release, CountOut, ReaderPanics
<1> QED BY <1>1, <1>2, <1>3, <1>4, <1>5 DEF ReaderStep

(* A sweep of Manager.Close takes all clients of a bucket at once. *)
LEMMA CloseMaps ==
  ASSUME StartClose \/ ShutStep
  PROVE  (\E S \in SUBSET clients : Registry!Leave(S)) \/ UNCHANGED RegistryVars
<1> USE DEF serveVars, mgrVars, RegistryVars, Decided
<1>1. ASSUME NEW b \in Bucket, Sweep(b)
      PROVE  (\E S \in SUBSET clients : Registry!Leave(S)) \/ UNCHANGED RegistryVars
  <2>1. InBucket(b) \subseteq clients /\ clients' = clients \ InBucket(b)
        /\ Decided' = Decided
    BY <1>1 DEF Sweep, InBucket
  <2>2. CASE InBucket(b) = {} BY <2>1, <2>2
  <2>3. CASE InBucket(b) # {} BY <2>1, <2>3 DEF Registry!Leave
  <2> QED BY <2>2, <2>3
<1>2. ASSUME NEW c \in Cid, CloseSwept(c) PROVE UNCHANGED RegistryVars
  BY <1>2 DEF CloseSwept
<1>3. CASE StartClose \/ CloseReturns BY <1>3 DEF StartClose, CloseReturns
<1> QED BY <1>1, <1>2, <1>3 DEF ShutStep

LEMMA OtherMaps ==
  /\ \A c \in Cid : Ping(c) \/ WriterStep(c) => UNCHANGED RegistryVars
  /\ \A o \in Obj : Put(o) => UNCHANGED RegistryVars
  /\ \A s \in Sender : SenderStep(s) => UNCHANGED RegistryVars
  /\ \A s \in Sender, c \in Cid : Lookup(s, c) => UNCHANGED RegistryVars
<1> USE DEF serveVars, mgrVars, RegistryVars, Decided
<1>1. \A c \in Cid : Ping(c) \/ WriterStep(c) => UNCHANGED RegistryVars
  BY DEF Ping, WriterStep, WriterStart, WriterSelect, WriterRecv, WriterRecvClosed,
     WriterSeesClose, WriterExit, WriterPanics
<1>2. \A o \in Obj : Put(o) => UNCHANGED RegistryVars BY DEF Put
<1>3. \A s \in Sender : SenderStep(s) => UNCHANGED RegistryVars
  BY DEF SenderStep, Send, Enqueue, SenderPanics
<1>4. \A s \in Sender, c \in Cid : Lookup(s, c) => UNCHANGED RegistryVars
  BY DEF Lookup
<1> QED BY <1>1, <1>2, <1>3, <1>4

(* The connection manager implements the registry: every step of its       *)
(* goroutines admits a client into a free slot, turns one away, takes      *)
(* clients out, or cannot be seen in the registry.                         *)
THEOREM RegistryImplemented == Spec => ImplementsRegistry
<1>1. Init => Registry!Init
  BY DEF Init, Registry!Init
<1>2. TypeInv /\ AccountInv /\ [Next]_vars => [Registry!Next]_(Registry!abstractVars)
  <2> SUFFICES ASSUME TypeInv, AccountInv, [Next]_vars
               PROVE  Registry!Next \/ UNCHANGED RegistryVars
    BY DEF Registry!abstractVars, RegistryVars, Decided
  <2>1. CASE UNCHANGED vars
    BY <2>1 DEF vars, serveVars, mgrVars, RegistryVars, Decided
  <2>2. CASE Next
    BY <2>2, ServeMaps, ReaderMaps, CloseMaps, OtherMaps
    DEF Next, ConnStep, Registry!Next
  <2> QED BY <2>1, <2>2
<1> QED BY <1>1, <1>2, AccountsHold, PTL DEF Spec, ImplementsRegistry, Registry!Spec

----------------------------------------------------------------------------
(* A struct loses a connection's data only after the connection is closed, *)
(* so that a sweep closes what it took through whatever struct it finds.   *)
IdleEmpty == \A o \in Obj : pool[o] \in {"new", "idle"} => field[o] = None

HeldOrClosed ==
    \A c \in Cid : serve[c] \notin {"idle", "get"} =>
        field[owner[c]] = c \/ c \in closed

SweepInv ==
    /\ IdleEmpty
    /\ HeldOrClosed
    /\ swept \ doomed \subseteq closed
    /\ shut = "done" => unswept = {} /\ doomed = {}

LEMMA InitSweep == Init => SweepInv
BY DEF Init, SweepInv, IdleEmpty, HeldOrClosed

(* A step that gives nobody a struct, empties none and is not part of a    *)
(* sweep.                                                                  *)
LEMMA SweepFrame ==
  ASSUME SweepInv,
         \A c \in Cid : serve'[c] \notin {"idle", "get"} => serve[c] \notin {"idle", "get"},
         closed \subseteq closed',
         UNCHANGED <<owner, field, pool, shutVars>>
  PROVE  SweepInv'
BY DEF SweepInv, IdleEmpty, HeldOrClosed, shutVars

LEMMA ServeSweep ==
  ASSUME TypeInv, SweepInv, NEW c \in Cid,
         Accept(c) \/ UpgradeFails(c) \/ ServeStep(c) \/ PeerLost(c)
  PROVE  SweepInv'
<1> USE DEF TypeInv, TypeOK, structVars, connVars, serveVars
<1>1. CASE Accept(c) BY <1>1, SweepFrame DEF Accept
<1>2. CASE UpgradeFails(c) BY <1>2, SweepFrame DEF UpgradeFails
<1>3. CASE Acquire(c) BY <1>3, SweepFrame DEF Acquire
<1>4. CASE Refuse(c) BY <1>4, SweepFrame DEF Refuse, CloseStruct
<1>5. CASE Insert(c) BY <1>5, SweepFrame DEF Insert
<1>6. CASE CountIn(c) BY <1>6, SweepFrame DEF CountIn
<1>7. CASE Run(c) BY <1>7, SweepFrame DEF Run
<1>8. CASE PeerLost(c) BY <1>8, SweepFrame DEF PeerLost
<1>9. ASSUME NEW o \in Obj, Get(c, o) PROVE SweepInv'
  <2>1. field[o] = None BY <1>9 DEF Get, SweepInv, IdleEmpty
  <2>2. IdleEmpty' BY <1>9 DEF Get, SweepInv, IdleEmpty
  <2>3. HeldOrClosed'
    <3> SUFFICES ASSUME NEW d \in Cid, serve'[d] \notin {"idle", "get"}
                 PROVE  field'[owner'[d]] = d \/ d \in closed'
      BY DEF HeldOrClosed
    <3>1. CASE d = c BY <1>9, <3>1 DEF Get
    <3>2. CASE d # c
      <4>1. serve[d] \notin {"idle", "get"} /\ owner'[d] = owner[d] /\ closed' = closed
        BY <1>9, <3>2 DEF Get
      <4>2. owner[d] \in Obj BY <4>1 DEF Owned
      <4>3. CASE owner[d] = o
        BY <2>1, <4>1, <4>3, NoneAssumption DEF SweepInv, HeldOrClosed
      <4>4. CASE owner[d] # o
        BY <1>9, <4>1, <4>2, <4>4 DEF Get, SweepInv, HeldOrClosed
      <4> QED BY <4>3, <4>4
    <3> QED BY <3>1, <3>2
  <2> QED BY <1>9, <2>2, <2>3 DEF Get, SweepInv, shutVars
<1> QED BY <1>1, <1>2, <1>3, <1>4, <1>5, <1>6, <1>7, <1>8, <1>9 DEF ServeStep

LEMMA PumpSweep ==
  ASSUME SweepInv, NEW c \in Cid,
         ReadMessage(c) \/ ReaderStep(c) \/ Ping(c) \/ WriterStep(c)
  PROVE  SweepInv'
<1> USE DEF structVars, connVars, serveVars
<1>1. closed \subseteq closed' /\ UNCHANGED <<serve, owner, field, pool, shutVars>>
  <2>1. CASE ReadMessage(c) \/ ReaderStep(c)
    BY <2>1 DEF ReadMessage, ReaderStep, ReaderLoop, ReaderCall, ReadFails,
       EnterSelect, Push, PushAborts,
       RemoveHit, RemoveMiss, ReaderClose, Release, CountOut, ReaderPanics, CloseStruct
  <2>2. CASE Ping(c) \/ WriterStep(c)
    BY <2>2 DEF Ping, WriterStep, WriterStart, WriterSelect, WriterRecv,
       WriterRecvClosed, WriterSeesClose, WriterExit, WriterPanics, CloseStruct
  <2> QED BY <2>1, <2>2
<1> QED BY <1>1, SweepFrame

LEMMA SenderSweep ==
  ASSUME SweepInv, NEW s \in Sender, SenderStep(s) \/ \E c \in Cid : Lookup(s, c)
  PROVE  SweepInv'
<1>1. UNCHANGED <<serve, owner, field, pool, closed, shutVars>>
  BY DEF SenderStep, Send, Enqueue, SenderPanics, Lookup, structVars, connVars, serveVars
<1> QED BY <1>1, SweepFrame

(* Put takes the data of a closed connection only. *)
LEMMA PutSweep ==
  ASSUME TypeInv, SweepInv, NEW o \in Obj, Put(o)
  PROVE  SweepInv'
<1> USE DEF TypeInv, TypeOK
<1>1. field[o] \in closed /\ UNCHANGED <<serve, owner, closed, shutVars>>
  BY DEF Put, serveVars
<1>2. CASE Count > PoolMax
  <2>1. field' = field /\ pool' = [pool EXCEPT ![o] = "dropped"] BY <1>2 DEF Put
  <2> QED BY <1>1, <2>1 DEF SweepInv, IdleEmpty, HeldOrClosed, shutVars
<1>3. CASE ~(Count > PoolMax)
  <2>1. field' = [field EXCEPT ![o] = None] /\ pool' = [pool EXCEPT ![o] = "idle"]
    BY <1>3 DEF Put
  <2>2. IdleEmpty' BY <2>1 DEF SweepInv, IdleEmpty
  <2>3. HeldOrClosed'
    BY <1>1, <2>1, NoneAssumption DEF SweepInv, HeldOrClosed, Owned
  <2> QED BY <1>1, <2>2, <2>3 DEF SweepInv, shutVars
<1> QED BY <1>2, <1>3

(* A client that a sweep closes is closed afterwards: through its struct,  *)
(* or because that has let go of it.                                       *)
LEMMA CloseSweep ==
  ASSUME TypeInv, SweepInv, StartClose \/ ShutStep
  PROVE  SweepInv'
<1> USE DEF serveVars, structVars, connVars
<1>1. CASE StartClose BY <1>1 DEF StartClose, SweepInv, IdleEmpty, HeldOrClosed
<1>2. CASE CloseReturns
  BY <1>2 DEF CloseReturns, SweepersDone, SweepInv, IdleEmpty, HeldOrClosed
<1>3. ASSUME NEW b \in Bucket, Sweep(b) PROVE SweepInv'
  BY <1>3 DEF Sweep, SweepInv, IdleEmpty, HeldOrClosed
<1>4. ASSUME NEW c \in Cid, CloseSwept(c) PROVE SweepInv'
  <2>1. closed \subseteq closed' /\ UNCHANGED <<serve, owner, field, pool, swept, unswept, shut>>
        /\ doomed' = doomed \ {c}
    BY <1>4 DEF CloseSwept, CloseStruct
  <2>2. serve[c] \notin {"idle", "get"}
    BY <1>4 DEF CloseSwept, TypeInv, Registered, Decided
  <2>3. c \in closed'
    BY <1>4, <2>2, NoneAssumption DEF CloseSwept, CloseStruct, SweepInv, HeldOrClosed
  <2> QED BY <2>1, <2>3 DEF SweepInv, IdleEmpty, HeldOrClosed
<1> QED BY <1>1, <1>2, <1>3, <1>4 DEF ShutStep

LEMMA SweepStep == TypeInv /\ SweepInv /\ [Next]_vars => SweepInv'
<1> SUFFICES ASSUME TypeInv, SweepInv, [Next]_vars PROVE SweepInv'
  OBVIOUS
<1>1. CASE UNCHANGED vars
  BY <1>1, SweepFrame DEF vars, serveVars, structVars, connVars
<1>2. CASE Next
  BY <1>2, ServeSweep, PumpSweep, SenderSweep, PutSweep, CloseSweep DEF Next, ConnStep
<1> QED BY <1>1, <1>2

(* When Manager.Close returns every client it took out of the maps is      *)
(* closed, however the pumps and the reuse of structs interfere            *)
(* (ws_manager.go:746-779).                                                *)
THEOREM SweptClientsClosed == Spec => []SweptAreClosed
<1>1. SweepInv => SweptAreClosed BY DEF SweepInv, SweptAreClosed
<1> QED BY InitType, TypeStep, InitSweep, SweepStep, <1>1, PTL DEF Spec

----------------------------------------------------------------------------
(* What the 100 ms delay buys (PumpsPrompt): a struct belongs to one        *)
(* connection from Get to Put, and Put is the last thing that happens to a  *)
(* connection, after its pumps have let go of the struct.                   *)
Served(c) == serve[c] \notin {"idle", "get"}

HeldUntilPut ==
    \A c \in Cid : Served(c) /\ c \notin recycled =>
        field[owner[c]] = c /\ pool[owner[c]] = "out"

FieldOfOwner ==
    \A o \in Obj : field[o] # None => Served(field[o]) /\ owner[field[o]] = o

PutIsLast ==
    \A c \in recycled : /\ serve[c] = "done"
                        /\ reader[c] \in {"release", "uncount", "done"}
                        /\ writer[c] = "done"

RunStartsPumps ==
    \A c \in Cid : serve[c] = "done" => reader[c] # "off"

ClientsAreRead ==
    \A c \in clients : reader[c] \in Reading \union {"off"}

PumpsSeeOwn ==
    \A c \in Cid :
        /\ reader[c] \in {"read", "got", "push"} => rsel[c] = c
        /\ writer[c] \in {"select", "wait"} => owner[c] \in ticker
        /\ writer[c] = "wait" => wsel[c] = c

PromptInv ==
    /\ HeldUntilPut
    /\ FieldOfOwner
    /\ PutIsLast
    /\ RunStartsPumps
    /\ ClientsAreRead
    /\ PumpsSeeOwn
    /\ NoNilDereference

(* And SendersPrompt: a sender that holds a struct holds that of the client *)
(* it looked up, so what a channel or a socket carries is for its client.   *)
SendersSeeOwn ==
    \A s \in Sender :
        /\ sender[s].pc = "held" =>
              /\ Served(sender[s].dest) /\ sender[s].dest \notin recycled
              /\ sender[s].obj = owner[sender[s].dest]
        /\ sender[s].pc = "sending" => sender[s].ch = sender[s].dest

QueuesCarryOwn == \A c \in Cid : queue[c] \in Seq({c})

DeliveryInv == SendersSeeOwn /\ QueuesCarryOwn /\ NoCrossDelivery

LEMMA InitPrompt == Init => PromptInv /\ DeliveryInv
<1> SUFFICES ASSUME Init PROVE PromptInv /\ DeliveryInv OBVIOUS
<1>1. QueuesCarryOwn
  <2>1. \A c \in Cid : <<>> \in Seq({c}) OBVIOUS
  <2> QED BY <2>1 DEF Init, QueuesCarryOwn
<1>2. SendersSeeOwn /\ NoCrossDelivery
  BY DEF Init, Idle, SendersSeeOwn, NoCrossDelivery
<1>3. \A c \in Cid : ~Served(c) BY DEF Init, Served
<1>4. PromptInv
  BY <1>3, NoneAssumption DEF Init, PromptInv, HeldUntilPut, FieldOfOwner, PutIsLast,
     RunStartsPumps, ClientsAreRead, Reading, PumpsSeeOwn, NoNilDereference
<1> QED BY <1>1, <1>2, <1>4 DEF DeliveryInv

(* A connection that has not been recycled, and what its struct holds. *)
LEMMA HoldsOwn ==
  ASSUME TypeInv, PromptInv, NEW c \in Cid, Served(c), c \notin recycled
  PROVE  /\ owner[c] \in Obj
         /\ field[owner[c]] = c
         /\ CloseStruct(owner[c]) => closed' = closed \union {c}
<1>1. owner[c] \in Obj BY DEF Served, TypeInv, Owned
<1>2. field[owner[c]] = c /\ c # None BY <1>1, NoneAssumption DEF PromptInv, HeldUntilPut
<1> QED BY <1>1, <1>2 DEF CloseStruct

(* A pump that is at work belongs to a connection that is not recycled. *)
LEMMA PumpAtWork ==
  ASSUME TypeInv, PromptInv, NEW c \in Cid,
         \/ reader[c] \in Reading \union {"stuck", "close"}
         \/ writer[c] \in {"start", "select", "wait", "exit"}
  PROVE  Served(c) /\ c \notin recycled
BY DEF TypeInv, PumpsFollowRun, Served, PromptInv, PutIsLast, Reading

LEMMA ServePrompt ==
  ASSUME TypeInv, PromptInv, NEW c \in Cid,
         Accept(c) \/ UpgradeFails(c) \/ ServeStep(c) \/ PeerLost(c)
  PROVE  PromptInv'
<1> USE DEF TypeInv, TypeOK, PumpsFollowRun, PromptInv, HeldUntilPut, FieldOfOwner,
        PutIsLast, RunStartsPumps, ClientsAreRead, PumpsSeeOwn, NoNilDereference, Served,
        serveVars, readVars, writeVars, structVars, connVars, mgrVars
<1>1. CASE Accept(c) BY <1>1 DEF Accept
<1>2. CASE UpgradeFails(c) BY <1>2 DEF UpgradeFails
<1>3. CASE Acquire(c) BY <1>3 DEF Acquire
<1>4. CASE Refuse(c) BY <1>4 DEF Refuse
<1>5. CASE Insert(c) BY <1>5 DEF Insert
<1>6. CASE CountIn(c) BY <1>6 DEF CountIn
<1>7. CASE Run(c) BY <1>7 DEF Run, Reading
<1>8. CASE PeerLost(c) BY <1>8 DEF PeerLost
<1>9. ASSUME NEW o \in Obj, Get(c, o) PROVE PromptInv'
  <2>1. HeldUntilPut' /\ FieldOfOwner' BY <1>9, NoneAssumption DEF Get, Owned
  <2>2. PutIsLast' /\ RunStartsPumps' BY <1>9 DEF Get
  <2>3. PumpsSeeOwn' BY <1>9, <2>1 DEF Get, Owned
  <2>4. ClientsAreRead' /\ NoNilDereference' BY <1>9 DEF Get
  <2> QED BY <2>1, <2>2, <2>3, <2>4
<1> QED BY <1>1, <1>2, <1>3, <1>4, <1>5, <1>6, <1>7, <1>8, <1>9 DEF ServeStep

LEMMA ReaderPrompt ==
  ASSUME TypeInv, PromptInv, NEW c \in Cid, ReadMessage(c) \/ ReaderStep(c)
  PROVE  PromptInv'
<1>a. reader[c] \in Reading => Served(c) /\ field[owner[c]] = c /\ c # None
  BY PumpAtWork, HoldsOwn, NoneAssumption
<1> USE DEF TypeInv, TypeOK, PumpsFollowRun, PromptInv, HeldUntilPut, FieldOfOwner,
        PutIsLast, RunStartsPumps, ClientsAreRead, PumpsSeeOwn, NoNilDereference, Served,
        serveVars, readVars, writeVars, structVars, connVars, mgrVars
<1>1. CASE ReadMessage(c) BY <1>1, <1>a DEF ReadMessage, Reading
<1>2. CASE ReaderLoop(c) BY <1>2, <1>a DEF ReaderLoop, Reading
<1>12. CASE ReaderCall(c) BY <1>12, <1>a DEF ReaderCall, Reading
<1>13. CASE EnterSelect(c) BY <1>13, <1>a DEF EnterSelect, Reading
<1>3. CASE ReadFails(c) BY <1>3 DEF ReadFails, Reading
<1>4. CASE Push(c) BY <1>4 DEF Push, Reading
<1>5. CASE PushAborts(c) BY <1>5 DEF PushAborts, Reading
<1>6. CASE RemoveHit(c) BY <1>6, <1>a DEF RemoveHit, Reading
<1>7. CASE RemoveMiss(c) BY <1>7, <1>a DEF RemoveMiss, Reading
<1>8. CASE ReaderClose(c) BY <1>8 DEF ReaderClose, Reading
<1>9. CASE Release(c) BY <1>9 DEF Release, Reading
<1>10. CASE CountOut(c) BY <1>10 DEF CountOut, Reading
<1>11. CASE ReaderPanics(c) BY <1>11, <1>a DEF ReaderPanics, Reading
<1> QED BY <1>1, <1>2, <1>3, <1>4, <1>5, <1>6, <1>7, <1>8, <1>9, <1>10, <1>11,
           <1>12, <1>13 DEF ReaderStep

LEMMA WriterPrompt ==
  ASSUME TypeInv, PromptInv, NEW c \in Cid, Ping(c) \/ WriterStep(c)
  PROVE  PromptInv'
<1>a. writer[c] \in {"start", "select", "wait", "exit"}
      => Served(c) /\ field[owner[c]] = c /\ c # None
  BY PumpAtWork, HoldsOwn, NoneAssumption
<1> USE DEF TypeInv, TypeOK, PumpsFollowRun, PromptInv, HeldUntilPut, FieldOfOwner,
        PutIsLast, RunStartsPumps, ClientsAreRead, PumpsSeeOwn, NoNilDereference, Served,
        serveVars, readVars, writeVars, structVars, connVars, mgrVars
<1>1. CASE Ping(c) BY <1>1 DEF Ping
<1>2. CASE WriterStart(c) BY <1>2 DEF WriterStart
<1>3. CASE WriterSelect(c) BY <1>3, <1>a DEF WriterSelect
<1>4. CASE WriterRecv(c) BY <1>4 DEF WriterRecv
<1>5. CASE WriterRecvClosed(c) BY <1>5 DEF WriterRecvClosed
<1>6. CASE WriterSeesClose(c) BY <1>6 DEF WriterSeesClose
<1>7. CASE WriterExit(c) BY <1>7 DEF WriterExit
<1>8. CASE WriterPanics(c) BY <1>8, <1>a DEF WriterPanics
<1> QED BY <1>1, <1>2, <1>3, <1>4, <1>5, <1>6, <1>7, <1>8 DEF WriterStep

(* Put waits until the pumps of the connection are through. *)
LEMMA PutPrompt ==
  ASSUME PumpsPrompt, TypeInv, PromptInv, NEW o \in Obj, Put(o)
  PROVE  PromptInv'
<1> DEFINE c == field[o]
<1>1. c \in Cid /\ Served(c) /\ owner[c] = o
  BY NoneAssumption DEF Put, TypeInv, TypeOK, PromptInv, FieldOfOwner
<1>2. /\ serve[c] = "done" /\ writer[c] = "done"
      /\ reader[c] \in {"release", "uncount", "done"}
  BY <1>1 DEF Put, Unused, Served
<1>3. recycled' = recycled \union {c}
      /\ UNCHANGED <<owner, serve, reader, rsel, writer, wsel, clients, down>>
  BY DEF Put, serveVars, readVars, writeVars, mgrVars
<1>4. \A d \in Cid : Served(d) /\ owner[d] = o /\ d # c => d \in recycled
  BY DEF PromptInv, HeldUntilPut
<1>5. \A p \in Obj \ {o} : field'[p] = field[p] /\ pool'[p] = pool[p]
                            /\ (p \in ticker => p \in ticker')
  BY DEF Put, TypeInv, TypeOK
<1>6. field'[o] \in {None, c} BY DEF Put, TypeInv, TypeOK
<1>7. \A d : Served(d)' <=> Served(d) BY <1>3 DEF Served
<1>8. HeldUntilPut'
  BY <1>3, <1>4, <1>5, <1>7 DEF HeldUntilPut, PromptInv, TypeInv, Owned, Served
<1>9. FieldOfOwner'
  BY <1>1, <1>3, <1>5, <1>6, <1>7 DEF FieldOfOwner, PromptInv
<1>10. PutIsLast' BY <1>2, <1>3 DEF PutIsLast, PromptInv
<1>11. PumpsSeeOwn'
  <2> SUFFICES ASSUME NEW d \in Cid PROVE
        /\ reader[d] \in {"read", "got", "push"} => rsel[d] = d
        /\ writer[d] \in {"select", "wait"} => owner[d] \in ticker'
        /\ writer[d] = "wait" => wsel[d] = d
    BY <1>3 DEF PumpsSeeOwn
  <2>1. CASE owner[d] = o
    <3>1. writer[d] = "done" BY <2>1 DEF Put, Unused
    <3> QED BY <3>1 DEF PromptInv, PumpsSeeOwn
  <2>2. CASE owner[d] # o
    <3>1. writer[d] \in {"select", "wait"} => owner[d] \in Obj /\ owner[d] \in ticker
      BY DEF PromptInv, PumpsSeeOwn, TypeInv, TypeOK
    <3> QED BY <2>2, <3>1, <1>5 DEF PromptInv, PumpsSeeOwn
  <2> QED BY <2>1, <2>2
<1> QED BY <1>3, <1>8, <1>9, <1>10, <1>11
        DEF PromptInv, RunStartsPumps, ClientsAreRead, NoNilDereference

LEMMA OtherPrompt ==
  ASSUME PromptInv
  PROVE  /\ UNCHANGED vars => PromptInv'
         /\ StartClose \/ ShutStep => PromptInv'
         /\ \A s \in Sender : SenderStep(s) => PromptInv'
         /\ \A s \in Sender, c \in Cid : Lookup(s, c) => PromptInv'
<1> USE DEF PromptInv, HeldUntilPut, FieldOfOwner, PutIsLast, RunStartsPumps,
        ClientsAreRead, PumpsSeeOwn, NoNilDereference, Served,
        serveVars, readVars, writeVars, structVars, connVars, mgrVars
<1>1. UNCHANGED vars => PromptInv' BY DEF vars
<1>2. StartClose \/ ShutStep => PromptInv'
  BY DEF StartClose, ShutStep, Sweep, CloseSwept, CloseReturns
<1>3. \A s \in Sender : Send(s) \/ Enqueue(s) => PromptInv'
  BY DEF Send, Enqueue
<1>4. \A s \in Sender : SenderPanics(s) => PromptInv' BY DEF SenderPanics
<1>5. \A s \in Sender, c \in Cid : Lookup(s, c) => PromptInv' BY DEF Lookup
<1> QED BY <1>1, <1>2, <1>3, <1>4, <1>5 DEF SenderStep

LEMMA PromptStep ==
  ASSUME PumpsPrompt, TypeInv, PromptInv, [Next]_vars
  PROVE  PromptInv'
BY ServePrompt, ReaderPrompt, WriterPrompt, PutPrompt, OtherPrompt DEF Next, ConnStep

(* The inductive invariant of the timed properties. *)
LEMMA PromptHolds ==
  ASSUME PumpsPrompt
  PROVE  Spec => [](TypeInv /\ PromptInv)
<1>1. Init => TypeInv /\ PromptInv BY InitType, InitPrompt
<1>2. TypeInv /\ PromptInv /\ [Next]_vars => TypeInv' /\ PromptInv'
  BY TypeStep, PromptStep
<1> QED BY <1>1, <1>2, PTL DEF Spec

(* As long as a connection is in the maps or one of its pumps is at work,   *)
(* its struct holds its own data, if pumps leave a struct within 100 ms     *)
(* (ws_connection_pool.go:53-102).                                          *)
THEOREM StructsNeverMix == ASSUME PumpsPrompt PROVE Spec => []StructHeld
<1>1. TypeInv /\ PromptInv => StructHeld
  <2> SUFFICES ASSUME TypeInv, PromptInv, NEW c \in Cid,
                      \/ c \in clients
                      \/ reader[c] \in Reading
                      \/ writer[c] \in {"start", "select", "wait", "exit"}
               PROVE  field[owner[c]] = c
    BY DEF StructHeld
  <2>1. c \in clients => Served(c) /\ c \notin recycled
    BY DEF TypeInv, Registered, Decided, Served, PromptInv, PutIsLast, ClientsAreRead, Reading
  <2> QED BY <2>1, PumpAtWork, HoldsOwn
<1> QED BY <1>1, PromptHolds, PTL

(* A client in the maps has a reader that will take it out again            *)
(* (ws_connection.go:128-131).                                              *)
THEOREM ClientsHaveReaders == ASSUME PumpsPrompt PROVE Spec => []ClientHasReader
<1>1. TypeInv /\ PromptInv => ClientHasReader
  BY DEF TypeInv, TypeOK, PromptInv, ClientsAreRead, RunStartsPumps, ClientHasReader
<1> QED BY <1>1, PromptHolds, PTL

(* No pump runs into a field that WsConnectionPool.Put has set to nil.      *)
THEOREM NoPumpPanics == ASSUME PumpsPrompt PROVE Spec => []NoNilDereference
<1>1. PromptInv => NoNilDereference BY DEF PromptInv
<1> QED BY <1>1, PromptHolds, PTL

(* readMessage dispatches what it read from a socket under the id of that   *)
(* socket's client: w.Cid is read after ReadMessage has returned, when the  *)
(* connection may have been closed meanwhile (ws_connection.go:147, 161).   *)
THEOREM MessagesKeepLabel == ASSUME PumpsPrompt PROVE Spec => LabelledBySource
<1>1. PromptInv /\ PromptInv' => [\A c \in Cid : reader[c] = "got" /\ reader'[c] = "push"
                                                => rsel'[c] = rsel[c]]_vars
  BY DEF PromptInv, PumpsSeeOwn
<1> QED BY <1>1, PromptHolds, PTL DEF LabelledBySource

(* removeClient takes the client of its own connection out of the maps and  *)
(* no other (ws_connection.go:128, ws_manager.go:448-456).                  *)
THEOREM ReadersRemoveOwn == ASSUME PumpsPrompt PROVE Spec => RemovesItsOwn
<1> DEFINE A == \A c \in Cid : reader[c] = "remove" /\ reader'[c] = "close"
                               => clients' = clients \ {c}
<1>1. TypeInv /\ PromptInv /\ [Next]_vars => [A]_vars
  <2> SUFFICES ASSUME TypeInv, PromptInv, Next, NEW c \in Cid,
                      reader[c] = "remove", reader'[c] = "close"
               PROVE  clients' = clients \ {c}
    OBVIOUS
  <2>1. field[owner[c]] = c BY PumpAtWork, HoldsOwn DEF Reading
  <2>2. ASSUME NEW d \in Cid, ConnStep(d) PROVE RemoveHit(c)
    <3> USE DEF TypeInv, TypeOK, readVars
    <3>1. ~(Accept(d) \/ UpgradeFails(d) \/ ServeStep(d) \/ PeerLost(d))
      BY DEF Accept, UpgradeFails, ServeStep, Acquire, Refuse, Insert, CountIn, Run,
         Get, PeerLost
    <3>2. ~(Ping(d) \/ WriterStep(d))
      BY DEF Ping, WriterStep, WriterStart, WriterSelect, WriterRecv,
         WriterRecvClosed, WriterSeesClose, WriterExit, WriterPanics
    <3>3. ~(ReadMessage(d) \/ ReaderLoop(d) \/ ReaderCall(d) \/ ReadFails(d)
            \/ EnterSelect(d) \/ Push(d) \/ PushAborts(d))
      BY DEF ReadMessage, ReaderLoop, ReaderCall, ReadFails, EnterSelect, Push,
         PushAborts
    <3>4. ~(RemoveMiss(d) \/ ReaderClose(d) \/ Release(d) \/ CountOut(d) \/ ReaderPanics(d))
      BY DEF RemoveMiss, ReaderClose, Release, CountOut, ReaderPanics
    <3>5. RemoveHit(d) => d = c BY DEF RemoveHit
    <3> QED BY <2>2, <3>1, <3>2, <3>3, <3>4, <3>5 DEF ConnStep, ReaderStep
  <2>3. reader' # reader BY DEF TypeInv, TypeOK
  <2>4. \E d \in Cid : ConnStep(d)
    BY <2>3 DEF Next, Put, SenderStep, Send, Enqueue, SenderPanics, Lookup,
       StartClose, ShutStep, Sweep, CloseSwept, CloseReturns, readVars
  <2> QED BY <2>1, <2>2, <2>4 DEF RemoveHit
<1> QED BY <1>1, PromptHolds, PTL DEF Spec, RemovesItsOwn

----------------------------------------------------------------------------
(* From the lookup of a client to its socket, with both assumptions.        *)

(* A step that touches no sender, channel or socket, empties no struct and  *)
(* gives no struct to a connection that has one.                            *)
LEMMA DeliveryFrame ==
  ASSUME DeliveryInv, SenderHolds,
         UNCHANGED <<sender, queue, wire>>,
         \A c \in Cid : Served(c) /\ c \notin recycled =>
             Served(c)' /\ c \notin recycled' /\ owner'[c] = owner[c]
  PROVE  DeliveryInv'
BY DEF DeliveryInv, SendersSeeOwn, QueuesCarryOwn, NoCrossDelivery, SenderHolds

LEMMA ServeDelivery ==
  ASSUME TypeInv, DeliveryInv, NEW c \in Cid,
         Accept(c) \/ UpgradeFails(c) \/ ServeStep(c) \/ PeerLost(c)
  PROVE  DeliveryInv'
<1>1. UNCHANGED <<sender, queue, wire, recycled>>
  BY DEF Accept, UpgradeFails, ServeStep, Acquire, Refuse, Insert, CountIn, Run, Get,
     PeerLost, chanVars, connVars
<1>2. \A d \in Cid : Served(d) => Served(d)' /\ owner'[d] = owner[d]
  BY DEF Served, TypeInv, TypeOK, Accept, UpgradeFails, ServeStep, Acquire, Refuse,
     Insert, CountIn, Run, Get, PeerLost, structVars, serveVars
<1> QED BY <1>1, <1>2, DeliveryFrame DEF TypeInv

(* The writer takes from its own channel and writes on its own socket. *)
LEMMA PumpDelivery ==
  ASSUME TypeInv, PromptInv, DeliveryInv, NEW c \in Cid,
         ReadMessage(c) \/ ReaderStep(c) \/ Ping(c) \/ WriterStep(c)
  PROVE  DeliveryInv'
<1>1. UNCHANGED <<sender, serve, owner, recycled>>
  BY DEF ReadMessage, ReaderStep, ReaderLoop, ReaderCall, ReadFails, EnterSelect, Push,
     PushAborts, RemoveHit, RemoveMiss, ReaderClose, Release, CountOut, ReaderPanics, Ping, WriterStep,
     WriterStart, WriterSelect, WriterRecv, WriterRecvClosed, WriterSeesClose,
     WriterExit, WriterPanics, serveVars, structVars, connVars
<1>2. SendersSeeOwn' BY <1>1 DEF DeliveryInv, SendersSeeOwn, Served
<1>3. CASE UNCHANGED <<queue, wire>>
  BY <1>2, <1>3 DEF DeliveryInv, QueuesCarryOwn, NoCrossDelivery
<1>4. CASE WriterRecv(c)
  <2>1. wsel[c] = c /\ field[owner[c]] = c
    BY <1>4, PumpAtWork, HoldsOwn DEF WriterRecv, PromptInv, PumpsSeeOwn
  <2>2. queue[c] \in Seq({c}) /\ queue[c] # <<>>
    BY <1>4, <2>1 DEF WriterRecv, DeliveryInv, QueuesCarryOwn
  <2>3. Head(queue[c]) = c /\ Tail(queue[c]) \in Seq({c}) BY <2>2, HeadTailProperties
  <2>4. QueuesCarryOwn'
    BY <1>4, <2>1, <2>3 DEF WriterRecv, DeliveryInv, QueuesCarryOwn, TypeInv, TypeOK
  <2>5. NoCrossDelivery'
    BY <1>4, <2>1, <2>3 DEF WriterRecv, DeliveryInv, NoCrossDelivery, TypeInv, TypeOK
  <2> QED BY <1>2, <2>4, <2>5 DEF DeliveryInv
<1>5. UNCHANGED <<queue, wire>> \/ WriterRecv(c)
  BY DEF ReadMessage, ReaderStep, ReaderLoop, ReaderCall, ReadFails, EnterSelect, Push,
     PushAborts, RemoveHit, RemoveMiss, ReaderClose, Release, CountOut, ReaderPanics, Ping, WriterStep,
     WriterStart, WriterSelect, WriterRecvClosed, WriterSeesClose, WriterExit,
     WriterPanics, chanVars
<1> QED BY <1>3, <1>4, <1>5

LEMMA SenderDelivery ==
  ASSUME TypeInv, PromptInv, DeliveryInv, NEW s \in Sender,
         SenderStep(s) \/ \E c \in Cid : Lookup(s, c)
  PROVE  DeliveryInv'
<1> USE DEF DeliveryInv, TypeInv, TypeOK, serveVars, structVars, connVars, chanVars
<1>1. ASSUME NEW c \in Cid, Lookup(s, c) PROVE DeliveryInv'
  <2>1. Served(c) /\ c \notin recycled
    BY <1>1 DEF Lookup, Registered, Decided, Served, PromptInv, PutIsLast, ClientsAreRead,
       Reading
  <2>2. SendersSeeOwn' BY <1>1, <2>1 DEF Lookup, SendersSeeOwn, Served
  <2> QED BY <1>1, <2>2 DEF Lookup, QueuesCarryOwn, NoCrossDelivery
<1>2. CASE Send(s)
  <2> DEFINE d == sender[s].dest
  <2>1. d \in Cid /\ sender[s].obj = owner[d] /\ field[owner[d]] = d
    BY <1>2, HoldsOwn DEF Send, SendersSeeOwn, SenderHolds
  <2>2. sender' = [sender EXCEPT ![s] =
                     [pc |-> "sending", obj |-> sender[s].obj, ch |-> d, dest |-> d]]
    BY <1>2, <2>1, NoneAssumption DEF Send
  <2>3. SendersSeeOwn' BY <1>2, <2>2 DEF Send, SendersSeeOwn, Served
  <2> QED BY <1>2, <2>3 DEF Send, QueuesCarryOwn, NoCrossDelivery
<1>3. CASE Enqueue(s)
  <2> DEFINE d == sender[s].dest
  <2>1. d \in Cid /\ sender[s].ch = d
    BY <1>3 DEF Enqueue, SendersSeeOwn, SenderHolds
  <2>2. queue[d] \in Seq({d}) BY <2>1 DEF QueuesCarryOwn
  <2>3. Append(queue[d], d) \in Seq({d}) BY <2>2, AppendProperties
  <2>4. queue' = [queue EXCEPT ![d] = Append(queue[d], d)] BY <1>3, <2>1 DEF Enqueue
  <2>5. QueuesCarryOwn' BY <2>1, <2>3, <2>4 DEF QueuesCarryOwn
  <2>6. SendersSeeOwn' BY <1>3 DEF Enqueue, SendersSeeOwn, Served, Idle
  <2> QED BY <1>3, <2>5, <2>6 DEF Enqueue, NoCrossDelivery
<1>4. CASE SenderPanics(s)
  BY <1>4 DEF SenderPanics, SendersSeeOwn, Served, QueuesCarryOwn, NoCrossDelivery
<1> QED BY <1>1, <1>2, <1>3, <1>4 DEF SenderStep

(* Put waits until nobody holds the struct between lookup and send. *)
LEMMA PutDelivery ==
  ASSUME SendersPrompt, TypeInv, PromptInv, DeliveryInv, NEW o \in Obj, Put(o)
  PROVE  DeliveryInv'
<1>1. UNCHANGED <<sender, queue, wire, owner, serve>> /\ recycled' = recycled \union {field[o]}
  BY DEF Put, chanVars, serveVars
<1>2. owner[field[o]] = o
  BY NoneAssumption DEF Put, TypeInv, TypeOK, PromptInv, FieldOfOwner
<1>3. \A s \in Sender : sender[s].pc = "held" => sender[s].obj # o
  BY DEF Put, Unused
<1>4. SendersSeeOwn' BY <1>1, <1>2, <1>3 DEF DeliveryInv, SendersSeeOwn, Served
<1> QED BY <1>1, <1>4 DEF DeliveryInv, QueuesCarryOwn, NoCrossDelivery

LEMMA DeliveryStep ==
  ASSUME SendersPrompt, TypeInv, PromptInv, DeliveryInv, [Next]_vars
  PROVE  DeliveryInv'
<1>1. CASE UNCHANGED vars \/ StartClose \/ ShutStep
  <2>1. UNCHANGED <<sender, queue, wire, owner, serve, recycled>>
    BY <1>1 DEF vars, StartClose, ShutStep, Sweep, CloseSwept, CloseReturns, chanVars,
       structVars, serveVars, connVars
  <2> QED BY <2>1, DeliveryFrame DEF Served, TypeInv
<1>2. CASE ~(UNCHANGED vars \/ StartClose \/ ShutStep)
  BY <1>2, ServeDelivery, PumpDelivery, SenderDelivery, PutDelivery DEF Next, ConnStep
<1> QED BY <1>1, <1>2

(* Nothing is written on the socket of another client than the one it is    *)
(* meant for, if pumps and senders leave a struct within 100 ms: the struct *)
(* a sender looked up still is its client's when SendMessage reads the      *)
(* channel and when writeMessage writes (ws_connection.go:39 and 106).      *)
THEOREM DeliveredToOwn ==
  ASSUME PumpsPrompt, SendersPrompt PROVE Spec => []NoCrossDelivery
<1>1. Init => TypeInv /\ PromptInv /\ DeliveryInv BY InitType, InitPrompt
<1>2. TypeInv /\ PromptInv /\ DeliveryInv /\ [Next]_vars
      => TypeInv' /\ PromptInv' /\ DeliveryInv'
  BY TypeStep, PromptStep, DeliveryStep
<1>3. DeliveryInv => NoCrossDelivery BY DEF DeliveryInv
<1> QED BY <1>1, <1>2, <1>3, PTL DEF Spec
=============================================================================
