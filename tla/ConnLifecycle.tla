--------------------------- MODULE ConnLifecycle ---------------------------
(***************************************************************************)
(* The life of a client connection in the connector:                       *)
(*   framework/net/ws_manager.go          serveWS, addClient, removeClient *)
(*                                        and Close                        *)
(*   framework/net/ws_connection.go       the read and the write pump,     *)
(*                                        SendMessage and Close            *)
(*   framework/net/ws_connection_pool.go  the pool of WsConnection structs *)
(*                                                                         *)
(* A Cid is one connection: one socket, one WriteChan, one closeChan and   *)
(* one set of sync.Onces.  An Obj is a WsConnection struct, which serves   *)
(* one Cid after another: 100 ms after Close it goes back to the pool with *)
(* its fields set to nil, and Get gives it a new Cid, new channels and new *)
(* Onces.  Every goroutine holds a pointer to the struct, not to the Cid,  *)
(* so what `w.Conn` or `w.WriteChan` means depends on when it is read:     *)
(* field[o] is the Cid whose data the struct holds at this moment.         *)
(***************************************************************************)
EXTENDS Integers, Sequences, FiniteSets

CONSTANTS
    Cid,            \* connection ids; each is used once (uuid and a counter)
    Obj,            \* WsConnection structs
    Bucket,         \* client buckets (32 in the code)
    BucketOf,       \* getBucket: the bucket of a connection id
    Sender,         \* goroutines that look a client up and send to it
    None,           \* nil
    MaxConn,        \* maxConnections, the capacity of connSemaphore
    PoolMax,        \* WsConnectionPool.maxSize
    WriteCap,       \* capacity of WriteChan (1024 in the code)
    PumpsPrompt,    \* timing: pumps leave a struct within the 100 ms delay
    SendersPrompt   \* timing: so do goroutines that looked a client up

ASSUME FiniteAssumption == IsFiniteSet(Cid) /\ IsFiniteSet(Obj)
ASSUME NoneAssumption   == None \notin Cid /\ None \notin Obj
ASSUME BucketAssumption == BucketOf \in [Cid -> Bucket]
ASSUME LimitAssumption  == MaxConn \in Nat /\ PoolMax \in Nat /\ WriteCap \in Nat
ASSUME TimingAssumption == PumpsPrompt \in BOOLEAN /\ SendersPrompt \in BOOLEAN

VARIABLES
    serve,      \* the goroutine of net/http that runs serveWS for a cid
    reader,     \* the readMessage goroutine of a cid
    rsel,       \* the cid whose socket it reads, then the one its message is
                \* labelled with and whose channels its select waits on
    writer,     \* the writeMessage goroutine of a cid
    wsel,       \* the cid whose channels its current select waits on
    owner,      \* the struct a cid was given by the pool
    field,      \* the cid whose data a struct holds, None after reset
    ticker,     \* structs whose pingTicker is not nil
    pool,       \* where a struct is: new, out, idle in the pool, dropped
    lost,       \* cids whose peer is gone and whose input is used up
    closed,     \* cids whose closeOnce has run: closeChan and socket closed
    recycled,   \* cids whose delayed Put has run
    queue,      \* WriteChan of a cid; a message is the cid it is meant for
    qclosed,    \* cids whose WriteChan is closed
    wire,       \* history: whose messages were written on a cid's socket
    sender,     \* the goroutines that call SendMessage
    clients,    \* keys of the bucket maps; key c points to struct owner[c]
    sem,        \* tokens in connSemaphore
    current,    \* stats.currentConnections
    shut,       \* Manager.Close: not called, at work, returned
    unswept,    \* buckets Manager.Close has still to empty
    doomed,     \* clients taken out of the maps, Close still to be called
    swept,      \* history: every client Manager.Close took out of the maps
    down        \* "no", or the panic that ended the process

serveVars  == serve
readVars   == <<reader, rsel>>
writeVars  == <<writer, wsel>>
structVars == <<owner, field, ticker, pool>>
connVars   == <<lost, closed, recycled>>
chanVars   == <<queue, qclosed, wire>>
mgrVars    == <<clients, sem, current>>
shutVars   == <<shut, unswept, doomed, swept>>
vars == <<serveVars, readVars, writeVars, structVars, connVars, chanVars,
          sender, mgrVars, shutVars, down>>

----------------------------------------------------------------------------
ServePC  == {"idle", "get", "add", "insert", "count", "run", "done"}
ReaderPC == {"off", "loop", "call", "read", "got", "push", "stuck",
             "remove", "close", "release", "uncount", "done"}
WriterPC == {"off", "start", "select", "wait", "exit", "done"}
SenderPC == {"idle", "held", "sending", "stuck"}
PoolState == {"new", "out", "idle", "dropped"}
Panic == {"nilDereference", "sendOnClosed"}
Idle == [pc |-> "idle", obj |-> None, ch |-> None, dest |-> None]

TypeOK ==
    /\ serve \in [Cid -> ServePC]
    /\ reader \in [Cid -> ReaderPC]
    /\ rsel \in [Cid -> Cid \union {None}]
    /\ writer \in [Cid -> WriterPC]
    /\ wsel \in [Cid -> Cid \union {None}]
    /\ owner \in [Cid -> Obj \union {None}]
    /\ field \in [Obj -> Cid \union {None}]
    /\ ticker \subseteq Obj
    /\ pool \in [Obj -> PoolState]
    /\ lost \subseteq Cid /\ closed \subseteq Cid /\ recycled \subseteq Cid
    /\ queue \in [Cid -> Seq(Cid)]
    /\ qclosed \subseteq Cid
    /\ wire \in [Cid -> SUBSET Cid]
    /\ sender \in [Sender -> [pc : SenderPC, obj : Obj \union {None},
                              ch : Cid \union {None}, dest : Cid \union {None}]]
    /\ clients \subseteq Cid /\ sem \in Nat /\ current \in Int
    /\ shut \in {"no", "sweeping", "done"}
    /\ unswept \subseteq Bucket /\ doomed \subseteq Cid /\ swept \subseteq Cid
    /\ down \in {"no"} \union Panic

Init ==
    /\ serve = [c \in Cid |-> "idle"]
    /\ reader = [c \in Cid |-> "off"]  /\ rsel = [c \in Cid |-> None]
    /\ writer = [c \in Cid |-> "off"]  /\ wsel = [c \in Cid |-> None]
    /\ owner = [c \in Cid |-> None]    /\ field = [o \in Obj |-> None]
    /\ ticker = {}                     /\ pool = [o \in Obj |-> "new"]
    /\ lost = {} /\ closed = {} /\ recycled = {}
    /\ queue = [c \in Cid |-> <<>>] /\ qclosed = {}
    /\ wire = [c \in Cid |-> {}]
    /\ sender = [s \in Sender |-> Idle]
    /\ clients = {} /\ sem = 0 /\ current = 0
    /\ shut = "no" /\ unswept = {} /\ doomed = {} /\ swept = {}
    /\ down = "no"

----------------------------------------------------------------------------
(* The operators named Mutant... are defects that the properties are tested *)
(* against: each is a wrong version of the definition that follows it, and  *)
(* is used by no specification.                                             *)

(* Mutant: no read deadline and no ping, a dead peer is never noticed. *)
MutantBroken(c) == c \in closed

(* Reading or writing the socket of c fails. *)
Broken(c) == c \in lost \union closed

(* WsConnection.Close: once per cid, close closeChan and the socket, and   *)
(* start the goroutine that will put the struct back.  The Once is part of *)
(* the struct and stays done through reset, so on an idle struct Close     *)
(* does nothing, and on a reused one it closes the cid it serves now.      *)
CloseStruct(o) == closed' = closed \union ({field[o]} \ {None})

(* The structs the pool has created and not discarded: its `count`. *)
Count == Cardinality({o \in Obj : pool[o] \in {"out", "idle"}})

(***************************************************************************)
(* serveWS and addClient.  The goroutine runs without waiting for          *)
(* anything from Get to Run.                                               *)
(***************************************************************************)

(* The rate limiter lets the request pass and the counter is below the     *)
(* limit.  It is only read here: the slot is taken later, by Acquire.      *)
(* Requests that are refused leave no trace.                               *)
Accept(c) ==
    /\ serve[c] = "idle"
    /\ current < MaxConn
    /\ serve' = [serve EXCEPT ![c] = "get"]
    /\ UNCHANGED <<readVars, writeVars, structVars, connVars, chanVars,
                   sender, mgrVars, shutVars, down>>

(* Upgrade failed: the handler returns and no cid is used. *)
UpgradeFails(c) ==
    /\ serve[c] = "get"
    /\ serve' = [serve EXCEPT ![c] = "idle"]
    /\ UNCHANGED <<readVars, writeVars, structVars, connVars, chanVars,
                   sender, mgrVars, shutVars, down>>

(* Mutant: the pool hands out a struct in use, as after a second Put. *)
MutantGet(c, o) ==
    /\ serve[c] = "get"
    /\ pool' = [pool EXCEPT ![o] = "out"]
    /\ owner' = [owner EXCEPT ![c] = o]
    /\ field' = [field EXCEPT ![o] = c]
    /\ serve' = [serve EXCEPT ![c] = "add"]
    /\ UNCHANGED <<readVars, writeVars, ticker, connVars, chanVars,
                   sender, mgrVars, shutVars, down>>

(* WsConnectionPool.Get: an idle struct or a new one (sync.Pool may        *)
(* allocate even when it has idle ones), every field set but pingTicker.   *)
Get(c, o) ==
    /\ serve[c] = "get"
    /\ pool[o] \in {"new", "idle"}
    /\ pool' = [pool EXCEPT ![o] = "out"]
    /\ owner' = [owner EXCEPT ![c] = o]
    /\ field' = [field EXCEPT ![o] = c]
    /\ serve' = [serve EXCEPT ![c] = "add"]
    /\ UNCHANGED <<readVars, writeVars, ticker, connVars, chanVars,
                   sender, mgrVars, shutVars, down>>

(* Mutant: admission relies on the counter that serveWS has checked. *)
MutantSlotFree == current < MaxConn

SlotFree == sem < MaxConn

(* addClient, `case m.connSemaphore <- struct{}{}` *)
Acquire(c) ==
    /\ serve[c] = "add"
    /\ SlotFree
    /\ sem' = sem + 1
    /\ serve' = [serve EXCEPT ![c] = "insert"]
    /\ UNCHANGED <<readVars, writeVars, structVars, connVars, chanVars,
                   sender, clients, current, shutVars, down>>

(* Mutant: a refused client goes on to the counter. *)
MutantRefuse(c) ==
    /\ serve[c] = "add"
    /\ ~SlotFree
    /\ CloseStruct(owner[c])
    /\ serve' = [serve EXCEPT ![c] = "count"]
    /\ UNCHANGED <<readVars, writeVars, structVars, lost, recycled, chanVars,
                   sender, mgrVars, shutVars, down>>

(* addClient, `default`: the client is closed, and still Run is called. *)
Refuse(c) ==
    /\ serve[c] = "add"
    /\ ~SlotFree
    /\ CloseStruct(owner[c])
    /\ serve' = [serve EXCEPT ![c] = "run"]
    /\ UNCHANGED <<readVars, writeVars, structVars, lost, recycled, chanVars,
                   sender, mgrVars, shutVars, down>>

Insert(c) ==
    /\ serve[c] = "insert"
    /\ clients' = clients \union {c}
    /\ serve' = [serve EXCEPT ![c] = "count"]
    /\ UNCHANGED <<readVars, writeVars, structVars, connVars, chanVars,
                   sender, sem, current, shutVars, down>>

(* The session gets the shared data (not modelled here), then the counter. *)
CountIn(c) ==
    /\ serve[c] = "count"
    /\ current' = current + 1
    /\ serve' = [serve EXCEPT ![c] = "run"]
    /\ UNCHANGED <<readVars, writeVars, structVars, connVars, chanVars,
                   sender, clients, sem, shutVars, down>>

Run(c) ==
    /\ serve[c] = "run"
    /\ reader' = [reader EXCEPT ![c] = "loop"]
    /\ writer' = [writer EXCEPT ![c] = "start"]
    /\ serve' = [serve EXCEPT ![c] = "done"]
    /\ UNCHANGED <<rsel, wsel, structVars, connVars, chanVars,
                   sender, mgrVars, shutVars, down>>

ServeStep(c) == \/ Acquire(c) \/ Refuse(c) \/ Insert(c) \/ CountIn(c) \/ Run(c)
                \/ \E o \in Obj : Get(c, o)

(***************************************************************************)
(* readMessage and its deferred removeClient.                              *)
(***************************************************************************)

(* Top of the loop: leave if closeChan is closed.  After reset it is nil,  *)
(* which is never ready either.                                            *)
ReaderLoop(c) ==
    /\ reader[c] = "loop"
    /\ reader' = [reader EXCEPT ![c] =
                     IF field[owner[c]] \in closed THEN "remove" ELSE "call"]
    /\ UNCHANGED <<rsel, serveVars, writeVars, structVars, connVars, chanVars,
                   sender, mgrVars, shutVars, down>>

(* The call of ReadMessage, on the socket the struct has now. *)
ReaderCall(c) ==
    LET f == field[owner[c]] IN
    /\ reader[c] = "call"
    /\ f # None
    /\ reader' = [reader EXCEPT ![c] = "read"]
    /\ rsel' = [rsel EXCEPT ![c] = f]
    /\ UNCHANGED <<serveVars, writeVars, structVars, connVars, chanVars,
                   sender, mgrVars, shutVars, down>>

(* ReadMessage returned an error: socket closed, peer gone, or no pong for *)
(* pongWait.                                                               *)
ReadFails(c) ==
    /\ reader[c] = "read"
    /\ Broken(rsel[c])
    /\ reader' = [reader EXCEPT ![c] = "remove"]
    /\ UNCHANGED <<rsel, serveVars, writeVars, structVars, connVars, chanVars,
                   sender, mgrVars, shutVars, down>>

(* ReadMessage returned a message, be it one that had been read ahead when *)
(* the socket was closed.  It is a binary or a text message: there is no   *)
(* other (the library handles pings and pongs itself).                     *)
ReadMessage(c) ==
    /\ reader[c] = "read"
    /\ rsel[c] \notin lost
    /\ reader' = [reader EXCEPT ![c] = "got"]
    /\ UNCHANGED <<rsel, serveVars, writeVars, structVars, connVars, chanVars,
                   sender, mgrVars, shutVars, down>>

(* Entering the select reads w.ReadChan, w.Cid for the label and           *)
(* w.closeChan, from whatever the struct holds by then: after reset both   *)
(* channels are nil and the select waits forever.                          *)
EnterSelect(c) ==
    LET f == field[owner[c]] IN
    /\ reader[c] = "got"
    /\ reader' = [reader EXCEPT ![c] = IF f = None THEN "stuck" ELSE "push"]
    /\ rsel' = [rsel EXCEPT ![c] = f]
    /\ UNCHANGED <<serveVars, writeVars, structVars, connVars, chanVars,
                   sender, mgrVars, shutVars, down>>

(* The dispatcher takes the message, labelled rsel[c]. *)
Push(c) ==
    /\ reader[c] = "push"
    /\ reader' = [reader EXCEPT ![c] = "loop"]
    /\ UNCHANGED <<rsel, serveVars, writeVars, structVars, connVars, chanVars,
                   sender, mgrVars, shutVars, down>>

(* Mutant: the reader returns without the deferred removeClient. *)
MutantPushAborts(c) ==
    /\ reader[c] = "push"
    /\ rsel[c] \in closed
    /\ reader' = [reader EXCEPT ![c] = "done"]
    /\ UNCHANGED <<rsel, serveVars, writeVars, structVars, connVars, chanVars,
                   sender, mgrVars, shutVars, down>>

PushAborts(c) ==
    /\ reader[c] = "push"
    /\ rsel[c] \in closed
    /\ reader' = [reader EXCEPT ![c] = "remove"]
    /\ UNCHANGED <<rsel, serveVars, writeVars, structVars, connVars, chanVars,
                   sender, mgrVars, shutVars, down>>

(* Mutant: the client is removed and its slot is not given back. *)
MutantRemoveHit(c) ==
    LET f == field[owner[c]] IN
    /\ reader[c] = "remove"
    /\ f \in clients
    /\ clients' = clients \ {f}
    /\ reader' = [reader EXCEPT ![c] = "done"]
    /\ UNCHANGED <<rsel, serveVars, writeVars, structVars, connVars, chanVars,
                   sender, sem, current, shutVars, down>>

(* removeClient: whoever finds the key in the map takes it out ... *)
RemoveHit(c) ==
    LET f == field[owner[c]] IN
    /\ reader[c] = "remove"
    /\ f \in clients
    /\ clients' = clients \ {f}
    /\ reader' = [reader EXCEPT ![c] = "close"]
    /\ UNCHANGED <<rsel, serveVars, writeVars, structVars, connVars, chanVars,
                   sender, sem, current, shutVars, down>>

(* Mutant: a slot is given back although the key was not in the map. *)
MutantRemoveMiss(c) ==
    /\ reader[c] = "remove"
    /\ field[owner[c]] \notin clients
    /\ reader' = [reader EXCEPT ![c] = "release"]
    /\ UNCHANGED <<rsel, serveVars, writeVars, structVars, connVars, chanVars,
                   sender, mgrVars, shutVars, down>>

(* ... and whoever does not has nothing to do: it does not close either. *)
RemoveMiss(c) ==
    /\ reader[c] = "remove"
    /\ field[owner[c]] \notin clients
    /\ reader' = [reader EXCEPT ![c] = "done"]
    /\ UNCHANGED <<rsel, serveVars, writeVars, structVars, connVars, chanVars,
                   sender, mgrVars, shutVars, down>>

ReaderClose(c) ==
    /\ reader[c] = "close"
    /\ CloseStruct(owner[c])
    /\ reader' = [reader EXCEPT ![c] = "release"]
    /\ UNCHANGED <<rsel, serveVars, writeVars, structVars, lost, recycled,
                   chanVars, sender, mgrVars, shutVars, down>>

(* Mutant: the slot is given back twice. *)
MutantRelease(c) ==
    /\ reader[c] = "release"
    /\ sem > 0
    /\ sem' = sem - 2
    /\ reader' = [reader EXCEPT ![c] = "uncount"]
    /\ UNCHANGED <<rsel, serveVars, writeVars, structVars, connVars, chanVars,
                   sender, clients, current, shutVars, down>>

(* `<-m.connSemaphore` waits while the channel is empty. *)
Release(c) ==
    /\ reader[c] = "release"
    /\ sem > 0
    /\ sem' = sem - 1
    /\ reader' = [reader EXCEPT ![c] = "uncount"]
    /\ UNCHANGED <<rsel, serveVars, writeVars, structVars, connVars, chanVars,
                   sender, clients, current, shutVars, down>>

CountOut(c) ==
    /\ reader[c] = "uncount"
    /\ current' = current - 1
    /\ reader' = [reader EXCEPT ![c] = "done"]
    /\ UNCHANGED <<rsel, serveVars, writeVars, structVars, connVars, chanVars,
                   sender, clients, sem, shutVars, down>>

(* Through a struct that was reset, Conn and manager are nil. *)
ReaderPanics(c) ==
    /\ reader[c] \in {"call", "remove"}
    /\ field[owner[c]] = None
    /\ down' = "nilDereference"
    /\ UNCHANGED <<serveVars, readVars, writeVars, structVars, connVars,
                   chanVars, sender, mgrVars, shutVars>>

ReaderStep(c) == \/ ReaderLoop(c) \/ ReaderCall(c) \/ ReadFails(c)
                 \/ EnterSelect(c) \/ Push(c) \/ PushAborts(c)
                 \/ RemoveHit(c) \/ RemoveMiss(c) \/ ReaderClose(c)
                 \/ Release(c) \/ CountOut(c) \/ ReaderPanics(c)

(***************************************************************************)
(* writeMessage.                                                           *)
(***************************************************************************)

WriterStart(c) ==
    /\ writer[c] = "start"
    /\ ticker' = ticker \union {owner[c]}
    /\ writer' = [writer EXCEPT ![c] = "select"]
    /\ UNCHANGED <<wsel, serveVars, readVars, owner, field, pool, connVars,
                   chanVars, sender, mgrVars, shutVars, down>>

(* Entering the select reads the three channels from the struct. *)
WriterSelect(c) ==
    /\ writer[c] = "select"
    /\ owner[c] \in ticker
    /\ wsel' = [wsel EXCEPT ![c] = field[owner[c]]]
    /\ writer' = [writer EXCEPT ![c] = "wait"]
    /\ UNCHANGED <<serveVars, readVars, structVars, connVars, chanVars,
                   sender, mgrVars, shutVars, down>>

(* A message is taken from the channel and written to the struct's socket. *)
(* A failed write is only logged.                                          *)
WriterRecv(c) ==
    LET f == field[owner[c]] IN
    /\ writer[c] = "wait"
    /\ wsel[c] # None /\ f # None
    /\ queue[wsel[c]] # <<>>
    /\ queue' = [queue EXCEPT ![wsel[c]] = Tail(@)]
    /\ wire' = IF Broken(f) THEN wire
               ELSE [wire EXCEPT ![f] = @ \union {Head(queue[wsel[c]])}]
    /\ writer' = [writer EXCEPT ![c] = "select"]
    /\ UNCHANGED <<wsel, serveVars, readVars, structVars, connVars, qclosed,
                   sender, mgrVars, shutVars, down>>

(* `!ok`: WriteChan is closed and empty. *)
WriterRecvClosed(c) ==
    /\ writer[c] = "wait"
    /\ wsel[c] \in qclosed /\ field[owner[c]] # None
    /\ queue[wsel[c]] = <<>>
    /\ CloseStruct(owner[c])
    /\ writer' = [writer EXCEPT ![c] = "exit"]
    /\ UNCHANGED <<wsel, serveVars, readVars, structVars, lost, recycled,
                   chanVars, sender, mgrVars, shutVars, down>>

(* The ping tick: if the ping cannot be written the connection is closed,  *)
(* and the loop goes on.                                                   *)
Ping(c) ==
    LET f == field[owner[c]] IN
    /\ writer[c] = "wait"
    /\ f # None
    /\ IF Broken(f) THEN CloseStruct(owner[c]) ELSE UNCHANGED closed
    /\ writer' = [writer EXCEPT ![c] = "select"]
    /\ UNCHANGED <<wsel, serveVars, readVars, structVars, lost, recycled,
                   chanVars, sender, mgrVars, shutVars, down>>

(* Mutant: the writer waits for WriteChan to be closed, not for closeChan. *)
MutantWriterSeesClose(c) ==
    /\ writer[c] = "wait"
    /\ wsel[c] \in qclosed
    /\ writer' = [writer EXCEPT ![c] = "exit"]
    /\ UNCHANGED <<wsel, serveVars, readVars, structVars, connVars, chanVars,
                   sender, mgrVars, shutVars, down>>

WriterSeesClose(c) ==
    /\ writer[c] = "wait"
    /\ wsel[c] \in closed
    /\ writer' = [writer EXCEPT ![c] = "exit"]
    /\ UNCHANGED <<wsel, serveVars, readVars, structVars, connVars, chanVars,
                   sender, mgrVars, shutVars, down>>

(* Mutant: the writer leaves WriteChan open. *)
MutantWriterExit(c) ==
    /\ writer[c] = "exit"
    /\ writer' = [writer EXCEPT ![c] = "done"]
    /\ UNCHANGED <<wsel, serveVars, readVars, structVars, connVars, chanVars,
                   sender, mgrVars, shutVars, down>>

(* The deferred function: close the WriteChan the struct holds now, once,  *)
(* if it holds one.                                                        *)
WriterExit(c) ==
    /\ writer[c] = "exit"
    /\ qclosed' = qclosed \union ({field[owner[c]]} \ {None})
    /\ writer' = [writer EXCEPT ![c] = "done"]
    /\ UNCHANGED <<wsel, serveVars, readVars, structVars, connVars, queue, wire,
                   sender, mgrVars, shutVars, down>>

(* Through a struct that was reset: pingTicker is nil when the select is   *)
(* entered, or Conn is nil when a message or a tick is handled.            *)
WriterPanics(c) ==
    /\ \/ writer[c] = "select" /\ owner[c] \notin ticker
       \/ writer[c] = "wait" /\ field[owner[c]] = None
    /\ down' = "nilDereference"
    /\ UNCHANGED <<serveVars, readVars, writeVars, structVars, connVars,
                   chanVars, sender, mgrVars, shutVars>>

WriterStep(c) == \/ WriterStart(c) \/ WriterSelect(c) \/ WriterRecv(c)
                 \/ WriterRecvClosed(c) \/ WriterSeesClose(c) \/ WriterExit(c)
                 \/ WriterPanics(c)

(***************************************************************************)
(* The delayed goroutine of WsConnection.Close: WsConnectionPool.Put.      *)
(***************************************************************************)

(* Mutant: Put without the delay. *)
MutantUnused(o) == \A c \in Cid : owner[c] = o => serve[c] = "done"

(* Nobody will read the struct any more.  That the serving goroutine is    *)
(* through with it 100 ms after Close is taken for granted, since it never *)
(* waits; for the pumps and for goroutines that looked the client up it is *)
(* an assumption that a constant switches on.                              *)
Unused(o) ==
    /\ \A c \in Cid : owner[c] = o =>
          /\ serve[c] = "done"
          /\ PumpsPrompt => /\ reader[c] \in {"release", "uncount", "done"}
                            /\ writer[c] = "done"
    /\ SendersPrompt => \A s \in Sender :
          sender[s].obj = o => sender[s].pc # "held"

(* A struct too many is dropped as it is; otherwise it is reset and put. *)
Put(o) ==
    /\ field[o] \in closed \ recycled
    /\ Unused(o)
    /\ recycled' = recycled \union {field[o]}
    /\ IF Count > PoolMax
         THEN /\ pool' = [pool EXCEPT ![o] = "dropped"]
              /\ UNCHANGED <<field, ticker>>
         ELSE /\ pool' = [pool EXCEPT ![o] = "idle"]
              /\ field' = [field EXCEPT ![o] = None]
              /\ ticker' = ticker \ {o}
    /\ UNCHANGED <<owner, serveVars, readVars, writeVars, lost, closed,
                   chanVars, sender, mgrVars, shutVars, down>>

(***************************************************************************)
(* A goroutine that answers or pushes to a client: it looks the client up  *)
(* under the bucket's lock, and after the lock is released, and whatever   *)
(* it does to compute the answer, calls SendMessage.                       *)
(***************************************************************************)

Lookup(s, c) ==
    /\ sender[s] = Idle
    /\ c \in clients
    /\ sender' = [sender EXCEPT ![s] =
                    [pc |-> "held", obj |-> owner[c], ch |-> None, dest |-> c]]
    /\ UNCHANGED <<serveVars, readVars, writeVars, structVars, connVars,
                   chanVars, mgrVars, shutVars, down>>

(* `w.WriteChan <- buf` reads the field first; a nil channel blocks. *)
Send(s) ==
    LET me == sender[s]
        f == field[me.obj]
    IN
    /\ me.pc = "held"
    /\ sender' = [sender EXCEPT ![s] =
                    [pc |-> IF f = None THEN "stuck" ELSE "sending",
                     obj |-> me.obj, ch |-> f, dest |-> me.dest]]
    /\ UNCHANGED <<serveVars, readVars, writeVars, structVars, connVars,
                   chanVars, mgrVars, shutVars, down>>

Enqueue(s) ==
    LET ch == sender[s].ch IN
    /\ sender[s].pc = "sending"
    /\ ch \notin qclosed
    /\ Len(queue[ch]) < WriteCap
    /\ queue' = [queue EXCEPT ![ch] = Append(@, sender[s].dest)]
    /\ sender' = [sender EXCEPT ![s] = Idle]
    /\ UNCHANGED <<serveVars, readVars, writeVars, structVars, connVars,
                   qclosed, wire, mgrVars, shutVars, down>>

(* A send on a closed channel panics, also one that was already waiting. *)
SenderPanics(s) ==
    /\ sender[s].pc = "sending"
    /\ sender[s].ch \in qclosed
    /\ down' = "sendOnClosed"
    /\ UNCHANGED <<serveVars, readVars, writeVars, structVars, connVars,
                   chanVars, sender, mgrVars, shutVars>>

SenderStep(s) == Send(s) \/ Enqueue(s) \/ SenderPanics(s)

(***************************************************************************)
(* Manager.Close: one goroutine per bucket empties the map and then closes *)
(* the clients it took.  The slots are not given back, and the listener is *)
(* not stopped.                                                            *)
(***************************************************************************)

StartClose ==
    /\ shut = "no"
    /\ shut' = "sweeping"
    /\ unswept' = Bucket
    /\ UNCHANGED <<doomed, swept, serveVars, readVars, writeVars, structVars,
                   connVars, chanVars, sender, mgrVars, down>>

InBucket(b) == {c \in clients : BucketOf[c] = b}

(* Mutant: the goroutine of an empty bucket returns without wg.Done. *)
MutantSweep(b) ==
    /\ b \in unswept
    /\ InBucket(b) # {}
    /\ unswept' = unswept \ {b}
    /\ clients' = clients \ InBucket(b)
    /\ doomed' = doomed \union InBucket(b)
    /\ swept' = swept \union InBucket(b)
    /\ UNCHANGED <<shut, serveVars, readVars, writeVars, structVars, connVars,
                   chanVars, sender, sem, current, down>>

Sweep(b) ==
    /\ b \in unswept
    /\ unswept' = unswept \ {b}
    /\ clients' = clients \ InBucket(b)
    /\ doomed' = doomed \union InBucket(b)
    /\ swept' = swept \union InBucket(b)
    /\ UNCHANGED <<shut, serveVars, readVars, writeVars, structVars, connVars,
                   chanVars, sender, sem, current, down>>

CloseSwept(c) ==
    /\ c \in doomed
    /\ doomed' = doomed \ {c}
    /\ CloseStruct(owner[c])
    /\ UNCHANGED <<shut, unswept, swept, serveVars, readVars, writeVars,
                   structVars, lost, recycled, chanVars, sender, mgrVars, down>>

(* Mutant: wg.Done when the map is empty, before the clients are closed. *)
MutantSweepersDone == unswept = {}

(* wg.Wait: every bucket's goroutine is through. *)
SweepersDone == unswept = {} /\ doomed = {}

CloseReturns ==
    /\ shut = "sweeping"
    /\ SweepersDone
    /\ shut' = "done"
    /\ UNCHANGED <<unswept, doomed, swept, serveVars, readVars, writeVars,
                   structVars, connVars, chanVars, sender, mgrVars, down>>

ShutStep == \/ \E b \in Bucket : Sweep(b)
            \/ \E c \in Cid : CloseSwept(c)
            \/ CloseReturns

(* The peer is gone, and nothing it sent is left to read. *)
PeerLost(c) ==
    /\ serve[c] \notin {"idle", "get"}
    /\ c \notin lost
    /\ lost' = lost \union {c}
    /\ UNCHANGED <<closed, recycled, serveVars, readVars, writeVars, structVars,
                   chanVars, sender, mgrVars, shutVars, down>>

----------------------------------------------------------------------------
ConnStep(c) == \/ Accept(c) \/ UpgradeFails(c) \/ ServeStep(c)
               \/ ReadMessage(c) \/ ReaderStep(c)
               \/ Ping(c) \/ WriterStep(c) \/ PeerLost(c)

Next ==
    /\ down = "no"
    /\ \/ \E c \in Cid : ConnStep(c)
       \/ \E o \in Obj : Put(o)
       \/ \E s \in Sender : SenderStep(s) \/ \E c \in Cid : Lookup(s, c)
       \/ StartClose \/ ShutStep

Spec == Init /\ [][Next]_vars

(***************************************************************************)
(* Go runs every goroutine that can run.  Of the cases of a select that    *)
(* are ready it picks one at random, so the writer does not take the tick  *)
(* every time; and it serves goroutines that wait for room in a channel in *)
(* their turn: both are strong fairness.  Nothing is assumed about         *)
(* requests, messages, ticks, lookups, a peer that goes away or a call of  *)
(* Manager.Close.                                                          *)
(***************************************************************************)
Fairness ==
    /\ \A c \in Cid : /\ WF_vars(down = "no" /\ ServeStep(c))
                      /\ WF_vars(down = "no" /\ ReaderStep(c))
                      /\ WF_vars(down = "no" /\ WriterStep(c))
                      /\ SF_vars(down = "no" /\ WriterRecv(c))
                      /\ SF_vars(down = "no" /\ WriterSeesClose(c))
    /\ \A s \in Sender : SF_vars(down = "no" /\ SenderStep(s))
    /\ \A o \in Obj : WF_vars(down = "no" /\ Put(o))
    /\ WF_vars(down = "no" /\ ShutStep)

FairSpec == Spec /\ Fairness

----------------------------------------------------------------------------
(***************************************************************************)
(* Properties that do not depend on the timing assumptions.                *)
(***************************************************************************)

Inserting == {c \in Cid : serve[c] = "insert"}
Taken     == clients \union swept
Releasing == {c \in Cid : reader[c] \in {"close", "release"}}
Uncounted == {c \in Cid : serve[c] = "count"}
Overcounted == {c \in Cid : reader[c] \in {"close", "release", "uncount"}}

(* Every token in connSemaphore is accounted for by one client: one being  *)
(* added, one in the maps, one being removed by its reader, or one whose   *)
(* slot Manager.Close kept.  No order of addClient, removeClient and the   *)
(* sweeps loses a slot or gives one back twice (ws_manager.go:448-503,     *)
(* 746-779).                                                               *)
SlotAccounting ==
    sem = Cardinality(Inserting) + Cardinality(Taken)
          + Cardinality(Releasing)

(* The maps never hold more than maxConnections clients, although serveWS  *)
(* checks a counter that is stale when addClient acts (ws_manager.go:536). *)
CapacityBound == Cardinality(clients) <= MaxConn

(* removeClient never waits for a token: `<-m.connSemaphore` at            *)
(* ws_manager.go:461 always finds the one its client put there, so the     *)
(* reader's goroutine ends even after a sweep.                             *)
ReleaseNeverWaits == \A c \in Cid : reader[c] = "release" => sem > 0

(* The counter that admission reads and monitorPerformance prints is the   *)
(* number of clients in the maps, up to the goroutines that stand between  *)
(* the map and the counter and the clients Manager.Close does not uncount. *)
StatsAccounting ==
    current = Cardinality(Taken) + Cardinality(Overcounted)
              - Cardinality(Uncounted)

(* Manager.Close closes every client it took out of the maps before it     *)
(* returns, whatever the clients' own goroutines do meanwhile.             *)
SweptAreClosed == shut = "done" => swept \subseteq closed

(* The connection manager implements the registry of ConnRegistry.tla: an  *)
(* id is decided once, with a free slot if it is admitted, and leaves for  *)
(* good.                                                                   *)
Registry == INSTANCE ConnRegistry WITH
    live    <- clients,
    decided <- {c \in Cid : serve[c] \in {"count", "run", "done"}}
ImplementsRegistry == Registry!Spec

(***************************************************************************)
(* Properties that hold as long as the pumps leave a struct within the     *)
(* 100 ms that Close waits before the struct is reused (PumpsPrompt).      *)
(***************************************************************************)

(* The structs of two connections never mix: as long as a connection is in *)
(* the maps or one of its pumps is at work, its struct holds its own data  *)
(* (ws_connection_pool.go:53-102 against the pumps).                       *)
Reading == {"loop", "call", "read", "got", "push", "remove"}
StructHeld ==
    \A c \in Cid :
        c \in clients \/ reader[c] \in Reading
                      \/ writer[c] \in {"start", "select", "wait", "exit"}
        => field[owner[c]] = c

(* A client that is in the maps has a reader that will take it out again;  *)
(* nobody else would (ws_connection.go:128-131).                           *)
ClientHasReader ==
    \A c \in clients : serve[c] = "done" => reader[c] \in Reading

(* No pump runs into a field that reset has set to nil.                    *)
NoNilDereference == down # "nilDereference"

(* A message that came from the socket of one client is dispatched under   *)
(* that client's id, although the connection may be closed, the struct     *)
(* reset and given to another client while ReadMessage blocks and between  *)
(* its return and the reading of the label (ws_connection.go:147 and 161). *)
LabelledBySource ==
    [][\A c \in Cid : reader[c] = "got" /\ reader'[c] = "push"
                      => rsel'[c] = rsel[c]]_vars

(* A reader takes only its own client out of the maps.                     *)
RemovesItsOwn ==
    [][\A c \in Cid : reader[c] = "remove" /\ reader'[c] = "close"
                      => clients' = clients \ {c}]_vars

(* With SendersPrompt as well: nothing is written on the socket of another *)
(* client than the one it is meant for (ws_connection.go:39 and 106 read   *)
(* the struct long after the lookup).  This is what the delay before Put   *)
(* is for: "deferred, to ensure that all resources have been cleaned up"   *)
(* (ws_connection.go:66).                                                  *)
NoCrossDelivery == \A c \in Cid : wire[c] \subseteq {c}

(***************************************************************************)
(* Liveness, under FairSpec.                                               *)
(***************************************************************************)

(* A client whose peer is gone leaves the maps, unless the process went    *)
(* down: the read deadline ends the reader even if no ping fails.          *)
LostClientLeaves ==
    \A c \in Cid : c \in lost /\ c \in clients ~> c \notin clients \/ down # "no"

(* Once a connection is closed, by whomever, both its pumps end, and with  *)
(* them everything that keeps its struct from the pool.                    *)
ClosedPumpsEnd ==
    \A c \in Cid : c \in closed ~> \/ reader[c] = "done" /\ writer[c] = "done"
                                   \/ down # "no"

(* A goroutine that waits for room in WriteChan does not wait forever: the *)
(* writer makes room, or its exit closes the channel under the goroutine   *)
(* (which then panics and takes the process down).                         *)
SenderIsFreed ==
    \A s \in Sender : sender[s].pc = "sending" ~>
                      sender[s].pc # "sending" \/ down # "no"

(* Manager.Close returns.                                                  *)
CloseTerminates == shut = "sweeping" ~> shut = "done" \/ down # "no"

(***************************************************************************)
(* What comments in the code say, and the code does not do.                *)
(***************************************************************************)

(* ws_manager.go:453: the client is deleted from the map first "so that it *)
(* is not accessed anywhere else any more": nobody sends to a client after *)
(* its removal has closed it.                                              *)
NoSendAfterRemoval == down # "sendOnClosed"
=============================================================================
