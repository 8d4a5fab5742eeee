------------------------------ MODULE Accounts ------------------------------
(***************************************************************************)
(* Registration of accounts by the user service:                           *)
(*   user/internal/service/account.go   wxRegister                         *)
(*   core/dao/redis.go                  NextAccountId, incr                *)
(*   core/dao/account.go                SaveAccount                        *)
(* The numeric uid comes from a counter in Redis, which several service    *)
(* instances and their gRPC goroutines share.  EXISTS, SET and INCR are    *)
(* three round trips, and the answer to any of them may be lost after      *)
(* Redis has executed it: the client of Redis then sends the command again *)
(* (database/redis.go leaves MaxRetries at its default) or gives up.       *)
(* Redis and MongoDB are modelled by what their single commands do.        *)
(***************************************************************************)
EXTENDS Naturals, FiniteSets

CONSTANTS
    Reg,             \* calls of Register, from any instance
    AccountIdBegin,  \* 10000
    MaxRetries,      \* how often the client repeats a command (3)
    KeyAtStart,      \* the counter in Redis at the start, Absent if unset
    Absent           \* no such key; no uid yet

ASSUME BeginAssumption == AccountIdBegin \in Nat /\ MaxRetries \in Nat
ASSUME RegAssumption == IsFiniteSet(Reg)
ASSUME StartAssumption == Absent \notin Nat /\ KeyAtStart \in Nat \union {Absent}

VARIABLES
    key,      \* value of recreation_test:AccountId in Redis
    pc,       \* where a call of wxRegister stands
    uid,      \* the uid it was given
    saved,    \* calls whose account document is in MongoDB
    tries,    \* how often the command it waits for has been repeated
    sets      \* history: how often Redis has executed a SET

accountVars == <<key, pc, uid, saved, tries, sets>>

AccountPC == {"exists", "set", "incr", "save", "done", "failed"}

AccountTypeOK ==
    /\ key \in Nat \union {Absent}
    /\ pc \in [Reg -> AccountPC]
    /\ uid \in [Reg -> Nat \union {Absent}]
    /\ saved \subseteq Reg /\ tries \in [Reg -> Nat] /\ sets \in Nat

AccountInit ==
    /\ key = KeyAtStart
    /\ pc = [r \in Reg |-> "exists"]
    /\ uid = [r \in Reg |-> Absent]
    /\ saved = {} /\ tries = [r \in Reg |-> 0] /\ sets = 0

(* The answer to a command arrives ... *)
Answered(r, next) ==
    /\ pc' = [pc EXCEPT ![r] = next]
    /\ tries' = [tries EXCEPT ![r] = 0]

(* ... or is lost, and the command is sent again or the call fails. *)
AnswerLost(r) ==
    \/ /\ tries[r] < MaxRetries
       /\ tries' = [tries EXCEPT ![r] = @ + 1]
       /\ UNCHANGED pc
    \/ /\ pc' = [pc EXCEPT ![r] = "failed"]
       /\ UNCHANGED tries

(* EXISTS: what follows depends on an answer that may be out of date. *)
Exists(r) ==
    /\ pc[r] = "exists"
    /\ Answered(r, IF key = Absent THEN "set" ELSE "incr")
    /\ UNCHANGED <<key, uid, saved, sets>>

(* SET, unconditional: it also overwrites a counter that is there by now. *)
SetBegin(r) ==
    /\ pc[r] = "set"
    /\ key' = AccountIdBegin
    /\ sets' = sets + 1
    /\ Answered(r, "incr") \/ AnswerLost(r)
    /\ UNCHANGED <<uid, saved>>

(* INCR creates a missing key with 1. *)
Next1 == IF key = Absent THEN 1 ELSE key + 1

(* Mutant: GET, add one, SET, and the error of the SET is not looked at. *)
MutantIncr(r) ==
    /\ pc[r] = "incr"
    /\ key' \in {key, Next1}
    /\ Answered(r, "save")
    /\ uid' = [uid EXCEPT ![r] = Next1]
    /\ UNCHANGED <<saved, sets>>

Incr(r) ==
    /\ pc[r] = "incr"
    /\ key' = Next1
    /\ \/ Answered(r, "save") /\ uid' = [uid EXCEPT ![r] = Next1]
       \/ AnswerLost(r) /\ UNCHANGED uid
    /\ UNCHANGED <<saved, sets>>

(* Mutant: the uid is inserted in place of the account. *)
MutantSave(r) ==
    /\ pc[r] = "save"
    /\ saved' = saved \union {uid[r]}
    /\ pc' = [pc EXCEPT ![r] = "done"]
    /\ UNCHANGED <<key, uid, tries, sets>>

(* InsertOne; if its answer is lost the account exists although the call   *)
(* fails.  (MongoDB recognises an insert that its driver repeats.)         *)
Save(r) ==
    /\ pc[r] = "save"
    /\ saved' = saved \union {r}
    /\ pc' \in {[pc EXCEPT ![r] = "done"], [pc EXCEPT ![r] = "failed"]}
    /\ UNCHANGED <<key, uid, tries, sets>>

(* A command fails without effect, or the service instance is stopped. *)
Fail(r) ==
    /\ pc[r] \in {"exists", "set", "incr", "save"}
    /\ pc' = [pc EXCEPT ![r] = "failed"]
    /\ UNCHANGED <<key, uid, saved, tries, sets>>

AccountNext ==
    \E r \in Reg : Exists(r) \/ SetBegin(r) \/ Incr(r) \/ Save(r) \/ Fail(r)

AccountSpec == AccountInit /\ [][AccountNext]_accountVars

----------------------------------------------------------------------------
(* account.go:56 (user service): the uid generated for a user is "unique":  *)
(* no two account documents carry the same one.                            *)
UidsUnique == \A r, s \in saved : r # s => uid[r] # uid[s]

(* It is, unless the counter is set more than once: one that exists is     *)
(* only advanced, and the first SET sets nothing back, because no call     *)
(* increments a counter before it is there (redis.go:33-68).  Two calls    *)
(* that find no counter set it twice, and so does one whose SET is sent    *)
(* again.                                                                  *)
UniqueUnlessReset == sets <= 1 => UidsUnique

(* However the calls that create the counter overlap, no uid is handed out *)
(* more often than the counter is set: each SET starts the numbers over    *)
(* at most once, and none is handed out before the first.                  *)
CollisionBound ==
    \A r \in Reg : uid[r] # Absent =>
        LET same == {s \in Reg : uid[s] = uid[r]}
        IN  Cardinality(same) = 1 \/ Cardinality(same) <= sets
=============================================================================
