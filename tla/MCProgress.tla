------------------------------ MODULE MCProgress ------------------------------
(***************************************************************************)
(* Dispatch, Register, Resolver and Shutdown, whose properties are of what *)
(* must happen in the end, checked by one run.  They share no state: a     *)
(* behaviour is one of the component `part`, the others stay as they are   *)
(* initially.  No action with fairness is enabled there, so that the       *)
(* fairness of the others demands nothing; that of Shutdown is part of its *)
(* property.                                                               *)
(***************************************************************************)
EXTENDS Dispatch, Register, Resolver, Shutdown

CONSTANTS c1, c2

VARIABLE part

(* Client c1, whose write pump may stop, sends so much that its worker's   *)
(* queue overflows; c2 hashes to the other worker.                         *)
InboxMC == [c \in Peer |-> IF c = c1 THEN <<"handshake", "local", "remote", "ack">>
                           ELSE <<"heartbeat">>]
WorkerOfMC == [c \in Peer |-> IF c = c1 THEN 1 ELSE 2]

ProgressInit ==
    /\ part \in {"dispatch", "register", "resolver", "process"}
    /\ DispatchInit /\ RegisterInit /\ ResolverInit /\ ProcessInit
    /\ part # "process" => program = "gate"

ProgressNext ==
    /\ \/ /\ part = "dispatch" /\ DispatchNext
          /\ UNCHANGED <<registerVars, resolverVars, processVars>>
       \/ /\ part = "register" /\ RegisterNext
          /\ UNCHANGED <<dispatchVars, resolverVars, processVars>>
       \/ /\ part = "resolver" /\ ResolverNext
          /\ UNCHANGED <<dispatchVars, registerVars, processVars>>
       \/ /\ part = "process" /\ ProcessNext
          /\ UNCHANGED <<dispatchVars, registerVars, resolverVars>>
    /\ UNCHANGED part

ProgressSpec ==
    /\ ProgressInit
    /\ [][ProgressNext]_<<part, dispatchVars, registerVars, resolverVars, processVars>>
    /\ DispatchFairness
    /\ RegisterFairness
    /\ ResolverFairness

(* The type invariants of the components. *)
ProgressTypeOK == DispatchTypeOK /\ RegisterTypeOK /\ ResolverTypeOK /\ ProcessTypeOK
=============================================================================
