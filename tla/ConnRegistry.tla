---------------------------- MODULE ConnRegistry ----------------------------
(***************************************************************************)
(* What the connection manager of the connector promises to the rest of    *)
(* the server, without pools, goroutines or locks: a set of registered     *)
(* clients that never exceeds maxConnections, in which an id, once         *)
(* decided, is never registered again.                                     *)
(* ConnLifecycle.tla is the detailed specification that implements it.     *)
(***************************************************************************)
EXTENDS Naturals, FiniteSets

CONSTANTS Cid,      \* connection ids the server hands out
          MaxConn   \* Manager.maxConnections

VARIABLES live,     \* the registered clients
          decided   \* ids whose admission has been decided, either way

abstractVars == <<live, decided>>

Init == live = {} /\ decided = {}

(* A new connection takes one of the free slots. *)
Admit(c) ==
    /\ c \notin decided
    /\ Cardinality(live) < MaxConn
    /\ live' = live \union {c}
    /\ decided' = decided \union {c}

(* A new connection is turned away: the server is full.  The registry is   *)
(* not required to be full when that happens, since slots may still be     *)
(* held by connections that are on their way in or out.                    *)
Turn(c) ==
    /\ c \notin decided
    /\ decided' = decided \union {c}
    /\ UNCHANGED live

(* One client leaves, or a shutdown sweep takes several at once. *)
Leave(S) ==
    /\ S # {} /\ S \subseteq live
    /\ live' = live \ S
    /\ UNCHANGED decided

Next == \/ \E c \in Cid : Admit(c) \/ Turn(c)
        \/ \E S \in SUBSET live : Leave(S)

Spec == Init /\ [][Next]_abstractVars
=============================================================================
