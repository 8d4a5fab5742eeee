----------------------------- MODULE UserStore -----------------------------
(***************************************************************************)
(* Users and accounts in MongoDB, as concurrent requests of any number of  *)
(* servers change them:                                                    *)
(*   core/service/user.go   FindAndSaveUserByUid, BindPhone, updates       *)
(*   core/dao/user.go       the commands they send, and the lock on a user *)
(*   core/dao/account.go    FindAccountByPhone, UpdatePhone                *)
(*                                                                         *)
(* One command to MongoDB is one step; between two commands of a request   *)
(* anything may happen.  Any command may fail, and one that writes may     *)
(* have been executed when it is reported as failed.  There is no unique   *)
(* index in the code, so that several documents may have one uid; a        *)
(* command for one document then takes any of them.                        *)
(***************************************************************************)
EXTENDS Naturals, Sequences, FiniteSets

CONSTANTS
    Call,         \* requests: each is a login, a phone binding, a locked change
                  \* or a single update
    CallKind,
    CallUid, CallPhone,
    Uid, Phone,
    OldUids,      \* users whose document was written before syncLock existed
    NoPhone,
    Room, NoRoom  \* values of a field that single updates set

ASSUME CallAssumption ==
    /\ CallKind \in [Call -> {"login", "bind", "lock", "update"}]
    /\ CallUid \in [Call -> Uid] /\ CallPhone \in [Call -> Phone]
    /\ OldUids \subseteq Uid /\ IsFiniteSet(OldUids) /\ NoPhone \notin Phone

VARIABLES
    users,          \* collection user: documents in the order of insertion
    phoneAccount,   \* collection account: phone of the account of a uid
    stage,          \* where a call stands
    outcome,        \* what it returned
    loginRace,      \* history: uids two of whose first logins overlapped
    bindRace        \* history: phones and uids two of whose bindings overlapped

storeVars == <<users, phoneAccount, stage, outcome, loginRace, bindRace>>

User(u, lock) == [uid |-> u, syncLock |-> lock, mobilePhone |-> NoPhone,
                  room |-> NoRoom]
Docs(u) == {i \in DOMAIN users : users[i].uid = u}
InStage(s, u) == {c \in Call : stage[c] = s /\ CallUid[c] = u}
Holders(u) == InStage("held", u)

StoreInit ==
    /\ \E s \in [1..Cardinality(OldUids) -> OldUids] :
        /\ \A u \in OldUids : \E i \in DOMAIN s : s[i] = u
        /\ users = [i \in DOMAIN s |-> User(s[i], "absent")]
    /\ phoneAccount = [u \in Uid |-> NoPhone]
    /\ stage = [c \in Call |-> "new"]
    /\ outcome = [c \in Call |-> "none"]
    /\ loginRace = {} /\ bindRace = {}

----------------------------------------------------------------------------
(* The operators named Mutant... are defects the properties are tested     *)
(* against, and are used by no specification.                              *)

(* Steps of a call *)

Stages == {"new", "insert", "account", "user", "add", "take", "held", "done"}

Go(c, from, to) == stage[c] = from /\ stage' = [stage EXCEPT ![c] = to]
Continue(c, from, to) == Go(c, from, to) /\ UNCHANGED outcome
Return(c, from, what) == Go(c, from, "done")
                         /\ outcome' = [outcome EXCEPT ![c] = what]

(* UpdateOne: one document of the uid, if there is one. *)
UpdateOne(u, field, value) ==
    IF Docs(u) = {} THEN UNCHANGED users
    ELSE \E i \in Docs(u) : users' = [users EXCEPT ![i][field] = value]

(* A command fails without effect and the call returns its error, or the   *)
(* process ends before the command is sent.                                *)
CommandFails(c, from) ==
    /\ Return(c, from, "error")
    /\ UNCHANGED <<users, phoneAccount, loginRace, bindRace>>

----------------------------------------------------------------------------
(* FindAndSaveUserByUid *)

FindUserByUid(c) ==
    /\ CallKind[c] = "login"
    /\ LET u == CallUid[c]
       IN IF Docs(u) # {} THEN Return(c, "new", "ok") /\ UNCHANGED loginRace
          ELSE /\ Continue(c, "new", "insert")
               /\ loginRace' = loginRace \union
                                  (IF InStage("insert", u) # {} THEN {u} ELSE {})
    /\ UNCHANGED <<users, phoneAccount, bindRace>>

(* Mutant: an insertion that is reported as failed is repeated. *)
MutantInsert(c) ==
    /\ Return(c, "insert", "ok") \/ Continue(c, "insert", "insert")
    /\ users' = Append(users, User(CallUid[c], "free"))
    /\ UNCHANGED <<phoneAccount, loginRace, bindRace>>

Insert(c) ==
    /\ \E what \in {"ok", "error"} : Return(c, "insert", what)
    /\ users' = Append(users, User(CallUid[c], "free"))
    /\ UNCHANGED <<phoneAccount, loginRace, bindRace>>

----------------------------------------------------------------------------
(* BindPhone, for a user that has logged in *)

(* Other bindings of the phone or of the user are under way. *)
Binding(c) == {d \in Call \ {c} : /\ stage[d] \in {"account", "user"}
                                  /\ CallKind[d] = "bind"}
RacesWith(c) == {CallPhone[c] : d \in {d \in Binding(c) : CallPhone[d] = CallPhone[c]}}
                \union {CallUid[c] : d \in {d \in Binding(c) : CallUid[d] = CallUid[c]}}

(* Mutant: nothing found is taken for granted. *)
MutantIsBound(p) == FALSE

IsBound(p) == \E u \in Uid : phoneAccount[u] = p

FindAccountByPhone(c) ==
    /\ CallKind[c] = "bind" /\ Docs(CallUid[c]) # {}
    /\ IF IsBound(CallPhone[c])
       THEN Return(c, "new", "refused") /\ UNCHANGED bindRace
       ELSE /\ Continue(c, "new", "account")
            /\ bindRace' = bindRace \union RacesWith(c)
    /\ UNCHANGED <<users, phoneAccount, loginRace>>

UpdateAccountPhone(c) ==
    /\ \/ Continue(c, "account", "user")
       \/ Return(c, "account", "error")
    /\ phoneAccount' = [phoneAccount EXCEPT ![CallUid[c]] = CallPhone[c]]
    /\ UNCHANGED <<users, loginRace, bindRace>>

UpdateUserPhone(c) ==
    /\ \E what \in {"ok", "error"} : Return(c, "user", what)
    /\ UpdateOne(CallUid[c], "mobilePhone", CallPhone[c])
    /\ UNCHANGED <<phoneAccount, loginRace, bindRace>>

----------------------------------------------------------------------------
(* GetUnlockUserDataAndLock, the caller's change, UnLockUserData *)

(* A document without the field gets it in a step of its own. *)
CheckLock(c) ==
    /\ CallKind[c] = "lock"
    /\ \/ Docs(CallUid[c]) = {} /\ Return(c, "new", "refused")
       \/ \E i \in Docs(CallUid[c]) :
            Continue(c, "new", IF users[i].syncLock = "absent" THEN "add" ELSE "take")
    /\ UNCHANGED <<users, phoneAccount, loginRace, bindRace>>

AddLock(c) ==
    /\ Continue(c, "add", "take") \/ Return(c, "add", "error")
    /\ UpdateOne(CallUid[c], "syncLock", "free")
    /\ UNCHANGED <<phoneAccount, loginRace, bindRace>>

(* Mutant: the filter of the command has the uid only. *)
MutantFreeDocs(u) == Docs(u)

FreeDocs(u) == {i \in Docs(u) : users[i].syncLock = "free"}

TakeLock(c) ==
    /\ LET free == FreeDocs(CallUid[c])
       IN IF free = {} THEN Return(c, "take", "refused") /\ UNCHANGED users
          ELSE /\ Continue(c, "take", "held") \/ Return(c, "take", "error")
               /\ \E i \in free : users' = [users EXCEPT ![i].syncLock = "taken"]
    /\ UNCHANGED <<phoneAccount, loginRace, bindRace>>

UnLockUserData(c) ==
    /\ \E what \in {"ok", "error"} : Return(c, "held", what)
    /\ UpdateOne(CallUid[c], "syncLock", "free")
    /\ UNCHANGED <<phoneAccount, loginRace, bindRace>>

(* UpdateUserRoomId, and likewise the other updates of single fields. *)
UpdateField(c) ==
    /\ CallKind[c] = "update"
    /\ \E what \in {"ok", "error"} : Return(c, "new", what)
    /\ UpdateOne(CallUid[c], "room", Room)
    /\ UNCHANGED <<phoneAccount, loginRace, bindRace>>

----------------------------------------------------------------------------
LoginStep(c) == FindUserByUid(c) \/ Insert(c)
BindStep(c) == FindAccountByPhone(c) \/ UpdateAccountPhone(c) \/ UpdateUserPhone(c)
LockStep(c) == CheckLock(c) \/ AddLock(c) \/ TakeLock(c) \/ UnLockUserData(c)

StoreNext ==
    \E c \in Call :
        \/ LoginStep(c) \/ BindStep(c) \/ LockStep(c) \/ UpdateField(c)
        \/ \E s \in Stages \ {"done"} : CommandFails(c, s)

StoreSpec == StoreInit /\ [][StoreNext]_storeVars

----------------------------------------------------------------------------
StoreTypeOK ==
    /\ users \in Seq([uid : Uid, syncLock : {"absent", "free", "taken"},
                      mobilePhone : Phone \union {NoPhone}, room : {Room, NoRoom}])
    /\ phoneAccount \in [Uid -> Phone \union {NoPhone}]
    /\ stage \in [Call -> Stages]
    /\ outcome \in [Call -> {"none", "ok", "error", "refused"}]
    /\ loginRace \subseteq Uid /\ bindRace \subseteq Uid \union Phone

(* A user has one document, unless two first logins overlapped             *)
(* (service/user.go:32-55), also if an insertion that was executed is      *)
(* reported as failed and the login repeated.                              *)
OneUserUnlessRaced ==
    \A u \in Uid \ loginRace : Cardinality(Docs(u)) <= 1

(* The lock on a user is held by one call at a time, or by one for each    *)
(* document if the user has several, whatever calls fail or die before     *)
(* they unlock.  (For a document that had no syncLock yet it is not:       *)
(* dao/user.go:203-207 may free it after another call has taken it.)       *)
LockExclusive ==
    \A u \in Uid \ OldUids : Cardinality(Holders(u)) <= Cardinality(Docs(u))

(* A phone belongs to one account unless bindings of it overlapped, and an *)
(* account and its user have the same phone unless a binding of the user   *)
(* is under way, has failed half way (service/user.go:108), or overlapped. *)
BindsOf(u) == {c \in Call : CallKind[c] = "bind" /\ CallUid[c] = u}
Unfinished(c) == stage[c] \in {"account", "user"} \/ outcome[c] = "error"

BindingsAgree ==
    /\ \A u, v \in Uid : phoneAccount[u] = phoneAccount[v] /\ u # v =>
            phoneAccount[u] \in bindRace \union {NoPhone}
    /\ \A u \in Uid \ (bindRace \union loginRace) :
            (\A c \in BindsOf(u) : ~Unfinished(c)) =>
                \A i \in Docs(u) : users[i].mobilePhone = phoneAccount[u]
=============================================================================
