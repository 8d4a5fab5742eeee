------------------------------- MODULE Resolver -------------------------------
(***************************************************************************)
(* How the gate follows the instances of the user service                  *)
(* (common/discovery/resolver.go, server.go; created in common/rpc/rpc.go):*)
(* a list of the keys under a prefix, then a watch of the prefix, and a    *)
(* list again every minute.                                                *)
(*                                                                         *)
(* The keys are those that Register puts and takes away; to this module    *)
(* they just come and go.  Etcd, external, may be unreachable for a while; *)
(* its watch delivers the changes in order and in batches, and may end.    *)
(***************************************************************************)
EXTENDS Naturals, Sequences, FiniteSets

CONSTANTS
    Instance,     \* of the service; each has a key and an address of its own
    Versioned,    \* etcd.register.version is set: it is part of the key
    MaxPending    \* bound: changes the watch has not yet delivered

ASSUME InstanceAssumption == IsFiniteSet(Instance) /\ Versioned \in BOOLEAN
ASSUME PendingAssumption == MaxPending \in Nat

VARIABLES
    connected,    \* etcd can be reached
    registered,   \* instances whose key is in etcd
    watch,        \* none (not built), listed, open, closed
    pending,      \* changes the watch has not yet delivered
    addresses     \* what gRPC was told last

resolverVars == <<connected, registered, watch, pending, addresses>>

ResolverInit ==
    /\ connected = TRUE /\ registered = {}
    /\ watch = "none" /\ pending = <<>> /\ addresses = {}

----------------------------------------------------------------------------
(* The operators named Mutant... are defects the properties are tested     *)
(* against, and are used by no specification.                              *)

(* Etcd *)

Notify(type, i) ==
    IF watch = "open"
    THEN /\ Len(pending) < MaxPending  \* bound
         /\ pending' = Append(pending, [type |-> type, instance |-> i])
    ELSE UNCHANGED pending

PutKey(i) ==
    /\ registered' = registered \union {i}
    /\ Notify("put", i)
    /\ UNCHANGED <<connected, watch, addresses>>

DeleteKey(i) ==
    /\ i \in registered
    /\ registered' = registered \ {i}
    /\ Notify("delete", i)
    /\ UNCHANGED <<connected, watch, addresses>>

Disconnect ==
    /\ connected' = ~connected
    /\ UNCHANGED <<registered, watch, pending, addresses>>

(* What the watch has missed may be compacted away: it ends. *)
WatchEnds ==
    /\ watch = "open"
    /\ watch' = "closed" /\ pending' = <<>>
    /\ UNCHANGED <<connected, registered, addresses>>

----------------------------------------------------------------------------
(* Mutant: the list is not emptied before the keys are added to it.        *)
MutantSynced == addresses \union registered

(* An empty list is not handed on: gRPC keeps the last addresses. *)
Synced == IF registered = {} THEN addresses ELSE registered

(* A failed list fails the Build; gRPC builds again with the next call. *)
Build ==
    /\ watch = "none" /\ connected
    /\ watch' = "listed"
    /\ addresses' = Synced
    /\ UNCHANGED <<connected, registered, pending>>

(* The watch starts with the changes that come after it. *)
OpenWatch ==
    /\ watch = "listed"
    /\ watch' = "open"
    /\ UNCHANGED <<connected, registered, pending, addresses>>

Sync ==
    /\ watch \in {"open", "closed"} /\ connected
    /\ addresses' = Synced
    /\ UNCHANGED <<connected, registered, watch, pending>>

(* A key is the sequence of its parts; nothing comes before the first      *)
(* slash.  ParseKey takes two or three parts: a key with a version has     *)
(* four, is invalid, and nothing has the address that is left empty then.  *)
BuildRegisterKey(i) ==
    IF Versioned THEN <<"", "name", "version", i>> ELSE <<"", "name", i>>
ParseKey(parts) == IF Len(parts) \in {2, 3} THEN {parts[Len(parts)]} ELSE {}

Exist(list, i) == i \in list
Remove(list, i) == list \ ParseKey(BuildRegisterKey(i))

(* The methods have value receivers: every batch starts with an empty      *)
(* list, whatever sync and earlier batches found.                          *)
Listed(list) == [list |-> list, told |-> list]
Updated(batch) ==
    LET after[n \in 0..Len(batch)] ==
            IF n = 0 THEN [list |-> {}, told |-> addresses]
            ELSE LET was == after[n - 1]
                     i == batch[n].instance
                 IN IF batch[n].type = "put" /\ ~Exist(was.list, i)
                    THEN Listed(was.list \union {i})
                    ELSE IF batch[n].type = "delete" /\ Remove(was.list, i) # was.list
                    THEN Listed(Remove(was.list, i))
                    ELSE was
    IN after[Len(batch)].told

Update ==
    /\ connected
    /\ \E n \in 1..Len(pending) :
        /\ addresses' = Updated(SubSeq(pending, 1, n))
        /\ pending' = SubSeq(pending, n + 1, Len(pending))
    /\ UNCHANGED <<connected, registered, watch>>

----------------------------------------------------------------------------
ResolverNext ==
    \/ \E i \in Instance : PutKey(i) \/ DeleteKey(i)
    \/ Disconnect \/ WatchEnds
    \/ Build \/ OpenWatch \/ Sync \/ Update

ResolverSpec == ResolverInit /\ [][ResolverNext]_resolverVars

(* The loop serves its watch and its ticker.  There may be no call that    *)
(* makes gRPC build.                                                       *)
ResolverFairness ==
    /\ WF_resolverVars(OpenWatch)
    /\ WF_resolverVars(Sync) /\ WF_resolverVars(Update)

FairResolver == ResolverSpec /\ ResolverFairness

----------------------------------------------------------------------------
ResolverTypeOK ==
    /\ connected \in BOOLEAN /\ registered \subseteq Instance
    /\ watch \in {"none", "listed", "open", "closed"}
    /\ pending \in Seq([type : {"put", "delete"}, instance : Instance])
    /\ Len(pending) <= MaxPending
    /\ addresses \subseteq Instance

(* The addresses gRPC uses are those of the registered instances in the    *)
(* end, once their keys are not put and deleted any more and one is left:  *)
(* what a change between list and watch (resolver.go:48), a batch that     *)
(* forgets the others (145), a delete that matches nothing (162) and a     *)
(* watch that ended spoil, the next list repairs (121).  If none is left   *)
(* the last ones stay (86), and nothing is listed before gRPC builds.      *)
AddressesFollowRegistrations ==
    \A S \in SUBSET Instance \ {{}} :
        <>[](connected /\ watch # "none" /\ registered = S /\ pending = <<>>)
           => <>[](addresses = S)
=============================================================================
