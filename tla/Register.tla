------------------------------- MODULE Register -------------------------------
(***************************************************************************)
(* How an instance of the user service keeps itself registered:            *)
(*   user/app/app.go                registers, then serves                 *)
(*   common/discovery/register.go   lease, keep-alive, key; the watcher    *)
(*                                                                         *)
(* Etcd is external: it may be unreachable for a while, and a lease that   *)
(* is not kept alive expires and takes its key with it.  A command fails   *)
(* when etcd is unreachable, and a Put may have been executed all the same.*)
(***************************************************************************)
VARIABLES
    reachable,    \* etcd can be reached
    pc,           \* of the goroutine that registers and then watches
    first,        \* whether it is the registration at start
    lease,        \* Register.leaseId: none, live, expired (on etcd's side)
    keepAliveCh,  \* nil, open, closed
    key,          \* the key: absent, or the lease it is bound to: the current
                  \* one or an old one
    closing,      \* Register.Close: not called, called, taken by the watcher
    client,       \* Register.etcdCli is open
    unbound       \* history: the last bindLease failed

registerVars == <<reachable, pc, first, lease, keepAliveCh, key, closing, client, unbound>>

RegisterInit ==
    /\ reachable = TRUE
    /\ pc = "down" /\ first = TRUE /\ lease = "none" /\ keepAliveCh = "nil"
    /\ key = "absent" /\ closing = "no" /\ client = FALSE /\ unbound = FALSE

----------------------------------------------------------------------------
(* The operators named Mutant... are defects the properties are tested     *)
(* against, and are used by no specification.                              *)

(* Mutant: the watcher does not take the closed channel for a lost lease.  *)
MutantLost == keepAliveCh = "nil"

(* A closed channel yields nil: register again, at once and until it       *)
(* succeeds.  The ticker does so only while there is no channel.           *)
Lost == keepAliveCh \in {"closed", "nil"}

----------------------------------------------------------------------------
(* Etcd *)

Outage ==
    /\ reachable' = ~reachable
    /\ UNCHANGED <<pc, first, lease, keepAliveCh, key, closing, client, unbound>>

LeaseExpires ==
    /\ lease = "live" /\ ~(reachable /\ keepAliveCh = "open")
    /\ lease' = "expired"
    /\ key' = IF key = "current" THEN "absent" ELSE key
    /\ UNCHANGED <<reachable, pc, first, keepAliveCh, closing, client, unbound>>

OldLeaseExpires ==
    /\ key = "old"
    /\ key' = "absent"
    /\ UNCHANGED <<reachable, pc, first, lease, keepAliveCh, closing, client, unbound>>

(* The channel is closed when the lease is gone, when no answer came in    *)
(* time, and when the client is closed.                                    *)
KeepAliveEnds ==
    /\ keepAliveCh = "open"
    /\ ~reachable \/ lease = "expired" \/ ~client
    /\ keepAliveCh' = "closed"
    /\ UNCHANGED <<reachable, pc, first, lease, key, closing, client, unbound>>

----------------------------------------------------------------------------
(* The process *)

Start ==
    /\ pc = "down"
    /\ pc' = "createLease" /\ first' = TRUE
    /\ client' = TRUE /\ closing' = "no" /\ unbound' = FALSE
    /\ UNCHANGED <<reachable, lease, keepAliveCh, key>>

(* Killed, or ended by logs.Log.Fatal: nothing is unregistered. *)
Ended == pc' = "down" /\ keepAliveCh' = "nil" /\ client' = FALSE

Crash ==
    /\ pc # "down"
    /\ Ended
    /\ UNCHANGED <<reachable, first, lease, key, closing, unbound>>

----------------------------------------------------------------------------
(* register *)

CanCommand == reachable /\ client

(* A failed registration at start ends the process; later the watcher goes *)
(* on with what the fields of Register are then.                           *)
RegisterFails ==
    IF first THEN Ended
    ELSE pc' = "watch" /\ UNCHANGED <<keepAliveCh, client>>

(* createLease, and keepAlive, which only starts to send. *)
CreateLease ==
    /\ pc = "createLease"
    /\ IF CanCommand
       THEN /\ pc' = "bindLease"
            /\ lease' = "live" /\ keepAliveCh' = "open"
            /\ key' = IF key = "current" THEN "old" ELSE key
            /\ UNCHANGED client
       ELSE RegisterFails /\ UNCHANGED <<lease, key>>
    /\ UNCHANGED <<reachable, first, closing, unbound>>

BindLease ==
    /\ pc = "bindLease"
    /\ CanCommand /\ lease = "live"
    /\ key' = "current"
    /\ pc' = "watch" /\ first' = FALSE /\ unbound' = FALSE
    /\ UNCHANGED <<reachable, lease, keepAliveCh, closing, client>>

BindLeaseFails ==
    /\ pc = "bindLease"
    /\ ~CanCommand \/ lease # "live"
    /\ \/ lease = "live" /\ key' = "current"
       \/ UNCHANGED key
    /\ RegisterFails
    /\ unbound' = TRUE
    /\ UNCHANGED <<reachable, first, lease, closing>>

----------------------------------------------------------------------------
(* watcher *)

Again ==
    /\ pc = "watch" /\ Lost
    /\ pc' = "createLease"
    /\ UNCHANGED <<reachable, first, lease, keepAliveCh, key, closing, client, unbound>>

Close ==
    /\ closing = "no" /\ pc # "down" /\ ~first
    /\ closing' = "called"
    /\ UNCHANGED <<reachable, pc, first, lease, keepAliveCh, key, client, unbound>>

Unregister ==
    /\ pc = "watch" /\ closing = "called"
    /\ pc' = "revoke" /\ closing' = "taken"
    /\ key' = IF reachable THEN "absent" ELSE key
    /\ UNCHANGED <<reachable, first, lease, keepAliveCh, client, unbound>>

(* Whatever failed, the client is closed, and the watcher goes on.         *)
Revoke ==
    /\ pc = "revoke"
    /\ pc' = "watch" /\ client' = FALSE
    /\ IF reachable
       THEN /\ lease' = "expired"
            /\ key' = IF key = "current" THEN "absent" ELSE key
       ELSE UNCHANGED <<lease, key>>
    /\ UNCHANGED <<reachable, first, keepAliveCh, closing, unbound>>

----------------------------------------------------------------------------
WatcherStep == CreateLease \/ BindLease \/ BindLeaseFails \/ Again \/ Revoke

RegisterNext ==
    \/ Outage \/ LeaseExpires \/ OldLeaseExpires \/ KeepAliveEnds
    \/ Start \/ Crash \/ Close \/ Unregister \/ WatcherStep

RegisterSpec == RegisterInit /\ [][RegisterNext]_registerVars

(***************************************************************************)
(* The goroutine runs, and leases that nobody keeps alive expire.  Select  *)
(* chooses at random among the ready cases, so that a pending Close is     *)
(* taken in the end although a closed channel is always ready too: strong  *)
(* fairness.                                                               *)
(***************************************************************************)
RegisterFairness ==
    /\ WF_registerVars(WatcherStep)
    /\ WF_registerVars(LeaseExpires) /\ WF_registerVars(OldLeaseExpires)
    /\ WF_registerVars(KeepAliveEnds)
    /\ SF_registerVars(Unregister)

FairRegister == RegisterSpec /\ RegisterFairness

----------------------------------------------------------------------------
RegisterTypeOK ==
    /\ reachable \in BOOLEAN /\ first \in BOOLEAN
    /\ client \in BOOLEAN /\ unbound \in BOOLEAN
    /\ pc \in {"down", "createLease", "bindLease", "watch", "revoke"}
    /\ lease \in {"none", "live", "expired"}
    /\ keepAliveCh \in {"nil", "open", "closed"}
    /\ key \in {"absent", "current", "old"}
    /\ closing \in {"no", "called", "taken"}

(* Once etcd stays reachable, an instance that keeps running has its key   *)
(* in etcd in the end, after any outage, unless a re-registration granted  *)
(* the lease and failed to put the key (register.go:92-98): this lease is  *)
(* then kept alive, its channel stays open, and neither case of the        *)
(* watcher (165, 171) registers again.  No other state is left without a   *)
(* key.  An instance that was closed or has ended has none in the end,     *)
(* also if the watcher met the closed client (147), or the commands of     *)
(* Close failed.                                                           *)
Running == pc # "down" /\ closing = "no"
Left == pc = "down" \/ closing = "taken"

KeptAliveWithoutKey ==
    unbound /\ lease = "live" /\ keepAliveCh = "open" /\ key = "absent"

RegistrationFollowsInstance ==
    /\ <>[](reachable /\ Running)
           => <>[](key # "absent") \/ <>[]KeptAliveWithoutKey
    /\ <>[](reachable /\ Left) => <>[](key = "absent")
=============================================================================
