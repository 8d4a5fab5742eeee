# Verification of Recreation_Test

TLA+ models of the Go game server in `src/`, TLC configurations that check them
on small instances, and TLAPS proofs of the results that matter most. Paths
below are relative to `src/`.

## 1. The system

A **connector** process keeps the WebSocket connections of the players. It
answers what it can itself (`connector/handler`) and forwards everything else
over NATS to **backend servers** (hall, games), which answer and push through
NATS. A **gate** turns HTTP requests into gRPC calls of the **user** service,
which registers accounts in MongoDB with a counter in Redis. Services find each
other through etcd.

| # | Component | State it keeps | Operations | What makes it correct |
|---|---|---|---|---|
| 1 | Connection lifecycle: `framework/net/ws_manager.go`, `ws_connection.go`, `ws_connection_pool.go` | client maps in 32 locked buckets, `connSemaphore`, `currentConnections`, pooled structs with their channels and Onces | `serveWS`, `addClient`, `removeClient`, read and write pump, `SendMessage`, `WsConnection.Close`, pool `Get`/`Put`, `Manager.Close` | slots and counter balance; the limit holds; a struct never serves two connections; every lost client leaves; shutdown closes what it took |
| 2 | Client dispatch: `ws_manager.go` 125-191, 582-694 | `ClientReadChan`, a queue per worker, handlers | distribute, decode, route, handle, forward | order per client; one slow client does not stop others |
| 3 | Remote delivery: `ws_manager.go` 193-390 | `RemoteReadChan`, `RemotePushChan`, batches | batch, answer, push | every answer and push reaches its client; batches end |
| 4 | Session data: `session.go`, `ws_manager.go` 392-446, 485-491 | `Manager.data`, `Session.data`, `Session.all`, `Session.Uid` | broadcast, single update, copy at admission, clear | all sessions end up with the shared data |
| 5 | Backend messaging: `framework/remote`, `framework/pusher`, `framework/stream` | a session per message, `pushChan` | group by connector, publish, forward | each user is pushed once, through its connector |
| 6 | Load balancing and server list: `load_balance_strategy.go`, `framework/game/config.go` | index, ring and loads per server type; `Conf.ServersConf` | `selectDst`, reload of the file | a call gets a server of its list and type, turns are even |
| 7 | Wire protocol: `framework/protocol` | global route dictionary | encode, decode | decode inverts encode |
| 8 | Rate limiter: `common/utils/limit` | tokens, capacity, rate | `Allow`, `SetRate`, `SetBurst` | never more than burst + rate * time |
| 9 | Service discovery: `common/discovery` | lease, key in etcd, address list of the client | register, keep alive, re-register, watch, sync | a running service is registered; the client's list follows etcd |
| 10 | Account registration: `user/internal/service/account.go`, `core/dao/redis.go`, `account.go` | counter in Redis, account documents | `wxRegister`, `incr`, `SaveAccount` | uids are unique |
| 11 | User store: `core/service/user.go`, `core/dao/user.go` | user documents with `syncLock` | first login, phone binding, lock and unlock | one user per uid; phone in both documents; lock excludes |
| 12 | Tokens and entry handler | `session.Uid` | `Entry` | - |
| 13 | Gate, interceptors, RPC client | none of their own | forwarding, credential checks | - |
| 14 | Logging: `common/logs` | a cutter with a mutex per level, a folder per day | `Write`, which first removes old folders | a message is lost only with a removed folder, and kept as long as it is to be retained |
| 15 | Start and end of a process: `*/main.go`, `*/app/app.go`, `framework/connector` | three channels for signals, `exit`, `isRunning` | start, `Run`, `stop`, exit | signals end the process |
| 16 | Infrastructure; data types; generated code | - | - | - |

**How they interact.** The components of the connector share memory. The pumps
(1) feed the dispatcher (2) through one channel; dispatcher and remote delivery
(3) look clients up under a bucket lock and call `SendMessage` *after* they have
released it, so they act on (1) through pointers that may be stale; session
updates (4) do the same. (2) calls (6) and publishes through (5); (3) is fed by
(5). The user service (10, 11) shares nothing but Redis and MongoDB with its
other instances.

**What is hard.** Several goroutines work on every connection and on a pooled
struct that is recycled by a timer (1); bounded channels fill up and their
senders block (1, 2, 3); fan-out goroutines reorder messages (2, 3); broadcasts
overlap with admissions (4); lists and rings are cached across a reload (6);
leases and watches are lost (9); every level cleans the same folders (14); one
signal is meant for three parties that start to listen one after the other (15);
read-then-write sequences on databases have no
transaction, and a client that repeats commands (10, 11). `PROJECT.json`
lists each hazard at its line.

## 2. Plan

In order of importance. All modules of the plan exist.

1. `ConnRegistry` (what the connection manager promises), `ConnLifecycle`
   (how it does it, proved to refine it), `MCConnLifecycle`,
   `ConnLifecycleProofs`.
2. `Accounts`, `UserStore`, with `UserProofs`.
3. `RemoteDelivery`, `MCRemoteDelivery`, `RemoteDeliveryProofs`: batches,
   answers, pushes and broadcasts against admission.
4. `Dispatch`: worker queues with the overflow goroutine, handlers, forwarding.
5. `Register` and `Resolver`: etcd leases and watches; `Shutdown`.
   `MCProgress` checks 4 and 5, `ProgressProofs` has their theorems.
6. `RateLimit` and `LogCutter` with `CommonProofs`; `LoadBalance`, `Codec` and
   `Backend` with `RoutingProofs`. `MCServices` checks them with those of 2, and
   `ServicesProofs` has the theorem about their composition.

Theorems are kept in modules of their own (section 8): `ConnLifecycleProofs`,
`RemoteDeliveryProofs`, `ProgressProofs`, `UserProofs`, `CommonProofs`,
`RoutingProofs`, `ServicesProofs`, and `WellOrder`, which has the induction and the
recursion that the proofs about loops rest on. For their sake every loop of the code
is a recursive function (or a set), never a `RECURSIVE` operator.

Left: `Put`, `Get` and `PushData` of a session; `Dispatch` and
`RemoteDelivery` composed through the clients' channels.

| Module | Code | Checked by |
|---|---|---|
| `ConnRegistry` | abstract: admissions and departures | `conn_untimed` |
| `ConnLifecycle` | `framework/net/ws_manager.go`, `ws_connection.go`, `ws_connection_pool.go` | the five `conn_` runs |
| `RemoteDelivery` | `ws_manager.go` 193-446, `session.go` | `delivery`, `delivery_live`, `push_unlock` |
| `Accounts` | `user/internal/service/account.go`, `core/dao/redis.go`, `account.go` | `services`, `accounts_first` |
| `RateLimit`, `Codec`, `LoadBalance`, `UserStore`, `Backend`, `LogCutter` | rows 8, 7, 6, 11, 5, 14 of the table | `services` |
| `Dispatch`, `Register`, `Resolver`, `Shutdown` | rows 2, 9, 9, 15 | `progress`, `one_signal` |

## 3. Connection lifecycle

`ConnLifecycle.tla` models the three files action by action.

* A `Cid` is one connection with its socket, `WriteChan`, `closeChan` and Onces;
  an `Obj` is a `WsConnection` struct. Every goroutine holds a pointer to a
  struct and reads its fields when it needs them, so `field[o]` says whose data
  a struct holds *now*, and each read that the code does separately is a
  separate step: the top of `readMessage` (`ReaderLoop`), the call that blocks
  on the socket (`ReaderCall`), its return (`ReadMessage`, also with a message
  that came in before the connection was closed, or `ReadFails`), the select
  (`EnterSelect`, which reads the id and both channels once more), the two selects
  of `writeMessage`, the lookup and the send. `owner[c]` is the struct that the
  goroutines started for `c` point to.
* `serve`, `reader` and `writer` are the program counters of the handler and
  the two pumps; `sender` are goroutines that look a client up and send to it
  later (workers, `Response`).
* `removeClient` is five steps, as in the code: the map under its lock
  (`RemoveHit`, or `RemoveMiss`), `ReaderClose`, `Release` of the semaphore, and
  `CountOut`. `addClient` is `Acquire`, `Insert`, `CountIn`, or `Refuse`, after
  which the code still starts the pumps.
* `Manager.Close` sweeps each bucket under its lock and closes what it took one
  by one; slots are not given back, the counter is not changed and the listener
  stays open, as in the code.
* A panic in any goroutine ends the process: `down` holds the reason and no
  action is possible any more. Nil channels block forever ("stuck").
* Messages are the id of the client they are meant for. `wire` collects whose
  messages were written on a socket.

**Timing.** `Close` returns the struct to the pool after 100 ms. Time is not
modelled: `Put` may happen when nobody *that is assumed to be quick* still uses
the struct. The serving goroutine is always assumed quick (it never waits). Two
constants add the pumps (`PumpsPrompt`) and goroutines that have looked the
client up (`SendersPrompt`). The runs say which properties need which. Without
`PumpsPrompt` a pump that returned from the socket with a message, and went on only
after the connection was closed and its struct reset, waits on nil channels for good;
if another connection has got the struct it labels the message with that one's id
(`LabelledBySource` is violated).

**Left out:** the contents of messages, compression, the rate limiter and the
origin check, deadlines other than as a cause of `ReadFails`, and the session.
`PeerLost` stands for a lost peer, a peer that closes, and missing pongs. A
failed request leaves no trace, so `Accept` and `UpgradeFails` may repeat.

### Runs

| Run | Instance | Shows |
|---|---|---|
| `conn_prompt` | 2 connections, 2 structs, 1 slot, pool size 1, 1 sender, `WriteChan` of 1; both timing assumptions | `StructHeld`, `ClientHasReader`, `NoNilDereference`, `NoCrossDelivery`, `LabelledBySource`, `RemovesItsOwn` |
| `conn_untimed` | 2 connections in 2 buckets, no sender, no timing assumption | `TypeOK`, `SlotAccounting`, `ReleaseNeverWaits`, `StatsAccounting`, `SweptAreClosed`, and that `ConnRegistry` is implemented: whatever the scheduler does to recycled structs, the books balance, and no more clients are registered than the limit (the guard of `ConnRegistry!Admit`; also theorem `CapacityHolds`) |
| `conn_live` | 1 connection, 2 senders, `WriteChan` of 1, fairness | `LostClientLeaves`, `ClosedPumpsEnd`, `SenderIsFreed`, `CloseTerminates` |
| `conn_send_after_removal` | as `conn_prompt` | violation, finding 1 |
| `conn_struct_reuse` | as `conn_prompt` without `SendersPrompt` | violation, finding 2 |

Two connections and one slot are the smallest instance in which admission,
refusal, removal and reuse by the *next* connection happen and overlap; a
third would only repeat the second. Two structs with pool size 1 cover the reuse
of an idle struct, the allocation of a new one and the discard. In
`conn_untimed` two buckets make the sweeps of `Manager.Close` overlap. With
`WriteChan` of 1 and two senders one of them blocks. Symmetry under permutation
of ids and structs is used in the runs without liveness. `CHECK_DEADLOCK FALSE`:
ids are used once, and a process whose connections have ended, or that panicked,
stops.

**Fairness** (`FairSpec`): weak fairness for every step a goroutine takes on its
own. Strong fairness for the writer's `WriteChan` and `closeChan` cases, because
`select` chooses at random among the ready cases and the ping tick cannot win
forever, and for a sender, because Go queues goroutines blocked on a channel in
order. No fairness for requests, incoming messages, pings, lost peers, lookups
or the call of `Manager.Close`. The liveness properties end in `down # "no"`
where a panic may intervene.

### Findings

1. `removeClient` deletes the client from its map first "so that it is not
   accessed anywhere else" (`ws_manager.go:453`). A goroutine that looked it up
   before still sends, and if the write pump has ended by then `WriteChan` is
   closed: `send on closed channel` ends the process.
2. The 100 ms are said to ensure that everything has been cleaned up
   (`ws_connection.go:66`). A worker that holds the client longer (a handler
   waiting for MongoDB) sends its answer to the client that got the struct next.

## 4. Account registration

`Accounts.tla` models concurrent calls of `wxRegister`. `EXISTS`, `SET` and
`INCR` of `RedisDao.incr` and the insert of the account are a step each. A
command may fail before Redis executes it or the instance may stop (`Fail`), or
its answer may be lost afterwards (`AnswerLost`): the Redis client then repeats
it, since `common/database/redis.go` leaves `MaxRetries` at its default, or the
call fails. MongoDB recognises repeated inserts, so `Save` has no repetition.

The instance in run `services` has three registrations and at most one repetition
of each command on an empty Redis: two calls that race to create the counter and
one that increments in between. (The theorems of section 8 are for any number.)
`UniqueUnlessReset`: uids are unique as long as Redis executes one `SET`;
`CollisionBound`: otherwise a uid is given to at most as many calls as there were
`SET`s. `accounts_first` shows **finding 3**: with two first registrations "the
unique id" of `account.go:56` is not unique.
`KeyAtStart` is a constant so that the theorem also covers a server that starts
with a counter.

## 5. Messages from backend servers

`RemoteDelivery.tla` models what the connector does with a message from NATS:
`remoteReadChanHandler` collects a batch (`Take`, `Tick`), starts a goroutine for
each message (`job` is its program counter) and waits for all of them
(`BatchOver`). An answer is looked up (`AnswerHit`, `AnswerMiss`) and then sent
(`SendAnswer`), which waits while the client's channel is full. A push goes to
`RemotePushChan` or, when that is full, straight to `Response`. A broadcast may name a client with data of its own: the
client is looked up (`LookupSingle`) and its session set later (`SetData`). Then
it writes `Manager.data` (`WriteShared`), copies the clients of each bucket
(`Snapshot`) and updates their sessions one by one (`UpdateSession`), with no lock
that spans these steps; meanwhile `addClient` puts a client into its bucket
(`Insert`) and later copies the data (`CopyShared`), and clients are closed
(`CloseClient`) and removed in either order. A value is the broadcast that
wrote it. Structs are not reused here (`ConnLifecycle` shows what that does to a
lookup), and clients have only the part of their life that these steps meet;
`ConnLifecycle` has all of it.

| Run | Instance | Shows |
|---|---|---|
| `delivery` | broadcasts of `k1` and of `k1`, `k2`, the second with data for a client, an answer for it, 2 clients in 2 buckets, batches of 2 | `SessionsComplete`: an admitted client has every key, from its own copy or from the broadcast; `SessionsAgree`: once the broadcasts of a key have ended, a session has the Manager's value or that of a broadcast which was under way when it was written; `ClientsKeepBatchOrder`: answers and session data of a later batch never overtake those of an earlier one |
| `delivery_live` | 2 answers for a client with `WriteChan` of 1, 2 pushes with `RemotePushChan` of 1, fairness | `BatchEnds`, `AnswerArrives` |
| `push_unlock` | an answer and a push | violation, finding 4 |

`SessionsAgree` does not say that they are equal: two broadcasts that overlap write
`Manager.data` in one order and sessions in another, so values may differ for good.
`rivals` records the broadcasts of a key that were under way when it was written
last; it is empty unless they overlapped, and what had ended before may be in no
session. Two broadcasts, of which one writes an extra key, and two clients
in different buckets give every overlap of two writers with an admission. In
`delivery_live` both answers can be in a batch or in two, and the second finds
the channel full.

Fairness: weak for the handler, the pumps and `addClient`; strong for the
goroutines of a batch, which Go queues in order at a full channel. The writer
takes what is queued in the end, because a write to a dead peer fails after the
write deadline of the last ping. None for arrivals, admissions, closes, removals.

**Finding 4.** `Response` takes `b.RLock()` for a push and releases it with
`b.Unlock()` (`ws_manager.go:346`, 358): a fatal error at the first push. That a
writer holds or awaits each bucket's lock at that moment, in which case the
error is only late, is not modelled, so no push goes further than this.

## 6. Services

Run `services` checks seven components that share no state. A behaviour is one
of the component `subject`, chosen initially; steps of two components would
commute and no property relates two of them, so that interleaving them would add
states and no case. `CHECK_DEADLOCK FALSE`: requests and calls are made once.
`Accounts` (section 4) is one of them.

**`RateLimit`** (the limiter that `serveWS` asks). Every method holds the mutex, so
each is an action. Floats become integers: a request costs `Second` units, a tick
brings `rate` units, and a bucket of `burst` seconds holds `burst * rate * Second`,
as the constructor computes it. `before` remembers what had passed at every tick.
`WindowBound`: in each window of time no more passes than a full bucket and what
the rate brings. `SetBurst` adds the difference when it grows the bucket and takes
nothing when it shrinks it, so that the bucket to count is `peak`. Two rates, two
bursts, two ticks to a second, two seconds and six requests: refills that are cut
at the capacity, partial tokens and both setters within a window.

**`Codec`** (messages, packets, the dictionary of routes). The dictionary is one for
the process and is written by every handshake in steps of its own. Bytes are kept
where a boundary is: the id (7 bits to a byte), the length of a route (one
byte), the length of a packet (three). `MessagesKeepMeaning`: a message means to
the receiver what it meant to the sender, or is refused, and is refused only
after handshakes overlapped or differed. Ids 127, 128, 300, 16384; routes of 9 to 256
bytes; packets of 65535, 2^24 - 1 and 2^24 bytes; two clients with one
dictionary and one whose dictionary agrees in part. The two known defects, a
route of 256 bytes and a packet of exactly 2^24, are excluded by name.

**`UserStore`**. One command to MongoDB is one step; each may fail, and a write may be
executed and reported as failed. Logins (`FindUserByUid`, `Insert`), phone bindings
(three commands), the lock (`CheckLock`, `AddLock`, `TakeLock`, `UnLockUserData`) and
updates of a field. `OneUserUnlessRaced`, `LockExclusive` and `BindingsAgree`
each hold but for the overlap that the code does not prevent, recorded in
`loginRace` and `bindRace`: a uid without a unique index, a phone looked up before
it is bound, a user document that had no lock. Two logins, two locks, two
bindings of one phone (by a new and an old user) and an update, of which the update
and the second lock are not made both (`StoreBound`).

**`Backend`** (pushes of a backend server). `Push` puts into `pushChan`;
`pushChanRead` groups the users by connector and publishes each group; NATS keeps
the order of a publisher and may lose. `PushesArriveInOrder`: a connector gets its
own users, in the order of the pushes, none twice, from this server, unless
`SendProxy` changed the session's message meanwhile. Two pushes to two connectors,
channels of 1.

**`LogCutter`** (log files). Each level has a mutex and a cutter of its own, and
they walk through and remove the same folders. A `Write` is `MakeFolder`, `StartWalk`
and, for each folder, `Visit`, `ReadNames`, `Remove` if it is too old, and `LookUp`, which
looks for what was read in it; then `OpenFile`. The walk fails, and the message is lost,
when another level has removed the folder or what was read in it meanwhile, also that
of a folder which is to be kept. `RemoveAll` is one step. `LogsKept`: a removed
folder costs each level one message at most, nothing else is lost, and what was
written stays as long as it is to be retained. Two levels, two ticks a day, one day
to retain, four ticks and four writes: one folder is removed while the other level
has it before it.

**`LoadBalance`** (`selectDst` and the list of servers). Lists are of
pointers, so a list is one of *places*: `element` is what the struct of a place holds.
The list is read and grouped at start (`ReadServersConfig`, `TypeServersConfig`). On
a change the watcher decodes the file entry by entry into the structs of the list that
is in use (`WatchConfig`, `DecodeServer`; an entry past its end into a new one) and
then installs the list, without `TypeServer` (`OnConfigChange`). A call reads the list
of its type (`ListServers`) and later chooses from it, by the strategy of that moment.
The six strategies are an action each, or share one when they do the same (the weights
are all 1). Hashes are given by constants; `OwnerOf` and `PointOf` are the search in the
ring. A selection reads the structs of its list at one moment and an id whole (a string
that is half rewritten is left out, as are changes during the first reading).
`DestinationIsListed`: a call gets what some version of the file has at a place of the
list it has read, of the type it asked for if no change gives an entry another type,
although index and ring were made for an earlier list. It holds only because a change
loses `TypeServer` and leaves nothing to read; with the servers grouped again (the
mutant) a stale ring or index shows at once. `RoundRobinBalanced`: places of a list are
at most one turn apart. `<<v1, w, v2, v3>>`, then `<<v2, w, v3>>`, which changes two
structs and drops one; three calls for the type of the `v`s, so that the index wraps
around, and one for that of `w`. `BalancerBound`: the calls for the `v`s, which are
alike, read their lists in one order; the third of them and the call for `w` are not made
both; and `weighted_round_robin` and `ip_hash`, which do the same as `random` and
`consistent_hash`, are not set.

## 7. Processes

Run `progress` checks four components, one per behaviour (`part`), in the same way.
Their properties are of what must happen, so each states its fairness; in a
behaviour of another component no action with fairness is enabled.

**`Dispatch`** (messages of clients). Read pumps feed `readChan`; `Distribute` hands a
message to the queue of its client's worker or, when that is full, to a goroutine
of its own; the handler drops, answers (`SendMessage` waits for room in the
`WriteChan`, and panics when it is closed) or forwards. `OrderUnlessOverflow`: the
effects keep a client's order except around a message that overflowed.
`OthersAreServed`: a client that takes no more answers stops only the worker it
hashes to. Client `c1` sends four messages and its write pump may stop, `c2`, on
the other worker, sends one; all capacities are 1 or 2, so that every queue fills
up. Fairness: weak for goroutines and for the write pumps of clients that are not
`Stalled`; goroutines that wait for room send once each, so the last has room too.

**`Register`** (one instance of a service). Lease, keep-alive and key, the watcher
that registers again, and `Close`; etcd may be unreachable for a while, and a lease
without keep-alive expires with its key. `RegistrationFollowsInstance`: once etcd
stays reachable, a running instance has its key in the end, and one that ended or was
closed has none. One state is allowed without a key, `KeptAliveWithoutKey`, because
nothing leads out of it: `register` replaces the keep-alive channel before its `Put`, and
when this `Put` fails the lease is kept alive from then on, the channel stays open, and
the watcher does not register again (the comment at `register.go:160` wants a new
connection after a restart of etcd). Fairness: weak for
the watcher and for what etcd does with leases; strong for `Unregister`, because
`select` chooses at random between it and a closed channel.

**`Resolver`** (the client's list). `Build`, a list, a watch from then on, and a list
every minute. `Updated` is the batch of changes as the code applies it: the methods
have value receivers, so a batch starts from an empty list. A key is the sequence of
its parts, and `ParseKey` sees one more than it expects. In the end
the list is repaired (`AddressesFollowRegistrations`), unless no instance is left.
Until then it is wrong: a delete event is said to remove the matching address
(`resolver.go:153`), but finds an empty list and changes nothing.
Two instances, versioned keys (a delete then matches nothing), two changes under
way. `Register` and `Resolver` meet in etcd only; the keys that come and go in
`Resolver` are any that several `Register`s may put. Fairness: weak for the loop,
none for `Build`, which a call of gRPC causes.

**`Shutdown`** (start and end of a process). Three parties register for signals one
after the other: `service.Run`, `app.Run` and, when the first has returned, `main`.
`InterruptsEndProcess`: if interrupts keep coming the process ends. Fairness is
part of the property: weak for the goroutines (`Manager.Close` returns, as
`conn_live` shows) and for the signal. Here `progress` takes the gate; all
three programs are in `one_signal`.

| Run | Specification | Shows |
|---|---|---|
| `services` | `ServicesSpec` | `ServicesTypeOK`, `WindowBound`, `DestinationIsListed`, `RoundRobinBalanced`, `MessagesKeepMeaning`, `OneUserUnlessRaced`, `LockExclusive`, `BindingsAgree`, `PushesArriveInOrder`, `UniqueUnlessReset`, `CollisionBound`, `LogsKept` |
| `progress` | `ProgressSpec` | `ProgressTypeOK`, `OrderUnlessOverflow`, `OthersAreServed`, `RegistrationFollowsInstance`, `AddressesFollowRegistrations`, `InterruptsEndProcess` |
| `one_signal` | `FairProcess` | violation, finding 5 |

**Finding 5.** A comment says that `main` "waits for an interrupt signal, to shut
down gracefully" (`connector/main.go:109`). The interrupt is taken by
`service.Run`, and in the connector by `app.Run`; `main` registers for signals only
after `service.Run` has returned, so one signal leaves the process running, in the
connector after "connector app quit" (`connector/app/app.go:52`).


## 8. Proofs

The proofs hold for all values of the constants that satisfy the named `ASSUME`s:
finite sets of connections, structs and calls, `None` outside them, one bucket
per connection, natural bounds. Each inductive invariant below was checked by TLC
on the instance of its component's run before it was proved.

`ConnLifecycleProofs.tla`:

* `TypeCorrect`: `TypeInv` strengthens `TypeOK` by what the actions rely on: a
  connection past `Get` has a struct (`Owned`), pumps start with `Run`
  (`PumpsFollowRun`), only connections whose admission is decided are in the
  maps or taken out of them (`Registered`), and a goroutine that holds a struct
  or a channel holds a real one (`SenderHolds`).
  This and what follows up to `SweptClientsClosed` says nothing of time: it holds
  for both values of `PumpsPrompt` and `SendersPrompt`.
* `AccountsHold`: `TypeInv /\ AccountInv` is inductive. The two accounts alone are
  not: `Insert` must add a client that is neither in the maps nor swept, and a
  removal or a sweep must never take the same client a second time.
  `AccountInv` therefore adds that `clients` and `swept` are disjoint, that
  everything swept was decided, and that `sem <= MaxConn`. The sums then follow
  from lemmas on the cardinality of a set that gains or loses one element.
* `SlotsAreAccounted`, `StatsAreAccounted`, `CapacityHolds` and
  `ReleaseFindsToken` are consequences: `clients` is part of a set of
  cardinality at most `sem`, and `sem <= MaxConn`.
* `RegistryImplemented`: `Insert` implements `Admit`, `Refuse` implements `Turn`,
  `RemoveHit` and a sweep implement `Leave`; everything else stutters. The free
  slot `Admit` asks for comes from the accounting: the token that the inserting
  goroutine holds is not one of a registered client.
* `SweptClientsClosed`: `SweepInv` says that a struct holds its connection's data
  or the connection is closed (`HeldOrClosed`; `Put` needs a closed one, and `Get`
  takes an empty struct, `IdleEmpty`). So the `Close` of a swept client either
  closes it or comes after somebody else did.
* `StructsNeverMix`, `ClientsHaveReaders`, `NoPumpPanics`, `MessagesKeepLabel` and
  `ReadersRemoveOwn` assume `PumpsPrompt`: the pumps of a connection end within the
  100 ms between its close and `Put`. (Without it TLC finds the exchange of
  `conn_struct_reuse`; the code does not enforce it, so it stays an assumption by
  name.) `StructHeld` alone is not inductive: that a reset touches nobody else needs
  `owner` and `field` to be inverse to each other between `Get` and `Put`
  (`HeldUntilPut`, `FieldOfOwner`), that `Put` comes last (`PutIsLast`), and that a
  pump which holds a struct read its own connection from it (`PumpsSeeOwn`).
  Together they are `PromptInv`.
* `DeliveredToOwn` assumes `SendersPrompt` too (a sender that looked a client up is
  done with the struct before it is recycled). `DeliveryInv` follows a message from
  the lookup through the channel to the socket: `SendersSeeOwn`, `QueuesCarryOwn`.

`UserProofs.tla`, about `Accounts`:

* `UidsStayUnique`: `UidInv` adds that nobody increments a counter that is not
  there (`PhasesOK`) and, while `sets <= 1`, that the counter is not below any
  uid (`Covered`).
* `CollisionsAreBounded`: `CollisionBound` alone is not inductive, since nothing
  says how often the *next* `INCR` returns a uid that is out already. `GivenOK`
  does: once the counter was set, each uid was given at most `sets` times, and
  each one above the counter, which only counters set earlier can have given, at
  most `sets - 1` times. A `SET` moves the uids above its value by one set, an
  `INCR` crosses exactly one of them.

`CommonProofs.tla`, `WindowsAreBounded`: a bound on the windows that end now is
not inductive, because a refill adds tokens that an earlier window still pays
for. `RefillsCover` relates the window to the bucket: what passed since `s`
together with the tokens left is at most `peak` and what the highest rate
brought from `s` to the last refill; a window that begins after the last refill
passed nothing. A refill moves both sides by the same product, a request moves
`Second` units from the tokens to what passed, and the setters only raise `peak` and
`topRate`. `TimesMonotone` and `TimesSplit` state what is needed of products. The
bounds `MaxTime` and `MaxPassed` of the clock and of the count are arbitrary.

`RemoteDeliveryProofs.tla`:

* `DeliveryTypeCorrect`: `DeliveryTypeOK` needs `JobsHold` (a job that has looked a
  client up is of a kind that has a client).
* `BatchOrderKept`: the order of what a client got says nothing of what will be
  appended. `BatchesApart` adds that no goroutine of an earlier batch is left while
  the next is collected (the `WaitGroup`), and `SentWasTaken` that a client has
  nothing of a message that is in no batch yet; so what is appended is of the
  current batch, the highest.
* `BroadcastsComplete`, `BroadcastsAgree` (`SessionInv`, theorem `SessionsHold`): both
  properties speak of keys without a broadcast under way and are not inductive. The
  invariant is about all keys: a settled session either is still on the list of a
  broadcast that has begun (`Pending`: its bucket is to be scanned, or it is in the
  part that was read), or has the key (`PendingOrComplete`). For the values it must be
  the *last* broadcast whose list it is on (`LastPending`), or the session has the value
  of that one or of a rival (`PendingOrRecent`). `WritersAreKnown` says why no other
  comes to a session any more: the broadcasts of a key under way are the one that wrote
  the shared value and its rivals.

`ProgressProofs.tla`, `EffectsInOrder`: `OrderUnlessOverflow` is about what has had its
effect, so `OrderInv` orders the whole way there: a client's messages are read in
order (`ReadInOrder`), wait sorted in `ClientReadChan` and then in the one queue
their client hashes to, those in the queue before those in the channel (`Queued`),
and a worker takes up a message only when it is done with the earlier ones
(`HandledInOrder`). Messages with a goroutine of their own have left the channel
(`OverflowedAreRead`), so that they disturb none of this.

`UserProofs.tla`, about `UserStore`, three invariants above `StoreTypeCorrect`:

* `OneUser`: `OneInserter` counts the document together with the call that is about
  to insert it: there is one or the other, once, or the logins have raced.
* `LockHeldOnce`: `LockInv` says that documents of users who are not old have the
  field from the insertion on, so that nobody adds it (`NewHaveLock`), and that there
  are as many taken documents as holders (`HoldersTook`). Taking changes one free
  document, unlocking frees one, a call that dies leaves its document taken.
* `BindingsMatch`: between the two writes of a binding account and user differ.
  `BindInv` says what holds then: the bindings of one phone and of one user exclude
  each other unless they raced (`BindsApart`), a phone that was found free stays
  free until it is bound (`PhoneStaysFree`), and the account has the phone that the
  user's document is about to get (`UserFollowsAccount`).

`RoutingProofs.tla`, `PushesOrdered`: `PipeInv` follows a push from the list of pushes
through `pushChan` (`ChanHasRest`: it has the pushes not taken yet, in order) and the
messages still to be published of the push taken last (`GroupsOfLast`) to the line
of a connector, what has arrived and what is on the wire (`LineInOrder`). What the
loop over the users collects is proved by induction over the list (`UsersAtList`), so
that `PushesNameTheirUsers` can say it of every message without the loop: all users of
the push at this connector and no others.

`CommonProofs.tla`, `LogsAreKept`: that the lost messages are at most
`Cardinality(Levels)` for each removed folder is not inductive, because the removal
comes before the losses. `LossesPaid` charges a removal at once for every call it
endangers (`AtRisk`: the folder it writes to is gone, or one whose name it has read, or
what it has read in one): a loss takes a call out of `AtRisk`; files are only in
folders (`FilesInFolders`). That messages are kept needs `FoldersDated` (a folder
was not changed before its day began) and that what a walk is about to remove
(`ToRemove`) was too old when it looked, which stays true (`WalksRead`). `FirstIsIn`, that a set of days
has a first one, comes from the well-foundedness of `<`.

`RoutingProofs.tla`, about `LoadBalance`:

* `DestinationsListed`: that an answer is of the list that was read is not inductive,
  because index and ring are of the type and not of the call. `ListInv` says why they
  fit: the servers are grouped once, before the first call (`GroupedOnce`; a change
  loses `TypeServer`), so that all calls of a type read the same list (`OneListEach`),
  and ring and index were made for it (`StateFitsList`). A struct holds what some
  version has at its position (`ContentFits`), because entries are decoded in position
  (`InPosition`); but what was grouped may become a server of another type. So the
  invariant says that there is an assignment `home` of types to places under which it
  holds (`RoutingInv`): the type a place is grouped under, which stays. It is any type of
  the place's entries before the grouping, and fixed by it. The searches in list and ring return
  what they should because a nonempty set of numbers has a least one (`OwnerListed`,
  `HashListed`, `LeastLoadedListed`).
* `TurnsBalanced`: the places up to the index have had one turn more than the others
  (`TurnsFollowIndex`), and places of a list nobody has read have had none
  (`NoTurnUnread`), whence a list that is read for the first time is balanced. A list has
  no place twice (`ListsOnce`), even if the file names a server twice.

`RoutingProofs.tla`, about `Codec`:

* `MeaningKept`: `DictionaryInv` follows the two maps while handshakes write them. A
  handshake writes only entries it has looked at (`EntriesPending`), the maps have
  only entries that clients brought (`FromEntries`), so that as long as the dictionaries do
  not contradict each other the maps are inverse to each other. That a message is not
  refused needs that the maps are complete once the first handshake is done, and this
  only follows from how far it has come (`FullDictionary`, `Filling`).
* `Transmitted` is the step of one message, for every id, route and length of a
  packet. `IdsKept`, that the bytes of an id say the id, is an induction over the
  numbers: `LastByte` and `NextByte` say it of a byte more (`Says`).

`ProgressProofs.tla`, about the others of its run:

* `RegisterCorrect`: the key is bound to the current lease only while etcd keeps that
  lease. `ClosedStaysAway`: after `Close` the watcher goes on and registers again and
  again, but binds no key: the commands fail without a client
  (`CommandsNeedClient`), and a binding that was under way has ended before the watcher
  takes the `Close`.
* `ResolverCorrect`, and `BatchesForgetOthers`: a batch that changes the addresses leaves
  only instances that pending changes name, registered or not (`UpdatedNamed`, by
  induction over the batch).
* `ProcessCorrect`: a party waits for signals only after its channel is registered.
* `ProgressTypeCorrect`: the types of the four components in their composition.

`ServicesProofs.tla`, `ServicesTypeCorrect`: the types of the seven components of
`services` in theirs. `SubjectInv` takes the invariants above for the component that
takes the steps; the others do not move.

`WellOrder.tla`: the theorems of the library about induction and recursion take
operators as parameters, which the provers cannot instantiate. `Induction` and
`InductionTo` say the same of a *set* of numbers, and `Recursion` and `RecursionBelow`
that a *function* given by its first value and a step exists; both come from the
well-foundedness of `<`. With them the loops of the code are proved for
lists, batches and ids of any length.

**Only model-checked:** the liveness properties, `LostClientLeaves`,
`ClosedPumpsEnd`, `SenderIsFreed`, `CloseTerminates`, `BatchEnds`, `AnswerArrives`,
`OthersAreServed`, `RegistrationFollowsInstance`, `AddressesFollowRegistrations` and
`InterruptsEndProcess`: temporal proofs with fairness are out of reach of the prover. Every
invariant that a run checks is the statement of a theorem.

## 9. Not modelled

* **Of a session** (4): `Put` and `Get`, which nothing calls, and `PushData`; so is
  `remote.Session`'s own data (5), which never leave the handler. That `MessageHandler`
  and `PushData` marshal the session's maps without its lock while others write
  them is a race of the Go runtime, listed as a hazard; the models read a
  session in one step.
* **Tokens and entry handler** (12): straight-line code. Its one effect on shared
  state would be `session.Uid`, but `ParseToken` rejects every token
  (`common/jwts/jwt.go:43` asserts `[]string` of a decoded JSON list).
* **Gate, interceptors, RPC client** (13): stateless requests. What the gate's
  process does is in `Shutdown`, what its gRPC client knows in `Resolver`.
* **Of the wire protocol** (7): compressed bodies and the error flag. **Of
  logging** (14): the fields `business`, `folder` and `directory`, encoders and
  the loggers in contexts. **Of the user store** (11): queries, and records
  that are only inserted.
* **Infrastructure, data types, generated code** (16): connections, configuration
  files and declarations, without state that steps of several actors change.
