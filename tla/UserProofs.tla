----------------------------- MODULE UserProofs -----------------------------
(***************************************************************************)
(* Theorems about Accounts and UserStore, the state of users outside the   *)
(* servers: for any number of registrations and any start of the counter;  *)
(* for every number of requests, users and phones.                         *)
(***************************************************************************)
EXTENDS Accounts, UserStore, FiniteSetTheorems, FunctionTheorems, SequenceTheorems, TLAPS

-----------------------------------------------------------------------------
(* Accounts: the uids that registrations hand out. *)

(* Before there is a counter nobody has incremented it; a call that sets   *)
(* one found none; a call that holds a uid is past the increment.          *)
PhasesOK ==
    /\ key = Absent => \A r \in Reg : uid[r] = Absent /\ pc[r] # "incr"
    /\ \A r \in Reg : pc[r] = "set" => key = Absent \/ sets > 0
    /\ \A r \in Reg : pc[r] \in {"exists", "set", "incr"} => uid[r] = Absent
    /\ \A r \in Reg : pc[r] = "save" \/ r \in saved => uid[r] # Absent

(* As long as the counter is set at most once it covers all uids, and they *)
(* differ.                                                                 *)
Covered ==
    /\ \A r \in Reg : uid[r] # Absent => key # Absent /\ uid[r] <= key
    /\ \A r, s \in Reg : r # s /\ uid[r] # Absent => uid[r] # uid[s]

UidInv == AccountTypeOK /\ PhasesOK /\ (sets <= 1 => Covered)

LEMMA InitUid == AccountInit => UidInv
BY StartAssumption
DEF AccountInit, UidInv, AccountTypeOK, AccountPC, PhasesOK, Covered

LEMMA StepUid == UidInv /\ [AccountNext]_accountVars => UidInv'
<1> SUFFICES ASSUME UidInv, [AccountNext]_accountVars PROVE UidInv'
  OBVIOUS
<1> USE StartAssumption, BeginAssumption
    DEF UidInv, AccountTypeOK, AccountPC, PhasesOK, Covered,
        Answered, AnswerLost
<1>1. ASSUME NEW r \in Reg, Exists(r) PROVE UidInv'
  <2>1. CASE key = Absent BY <1>1, <2>1 DEF Exists
  <2>2. CASE key # Absent BY <1>1, <2>2 DEF Exists
  <2> QED BY <2>1, <2>2
<1>2. ASSUME NEW r \in Reg, SetBegin(r) PROVE UidInv'
  <2>1. AccountTypeOK' /\ PhasesOK' BY <1>2 DEF SetBegin
  <2>2. ASSUME sets' <= 1 PROVE \A s \in Reg : uid'[s] = Absent
    BY <1>2, <2>2 DEF SetBegin
  <2> QED BY <2>1, <2>2
<1>3. ASSUME NEW r \in Reg, Incr(r) PROVE UidInv'
  <2>1. key \in Nat /\ key' = key + 1 BY <1>3 DEF Incr, Next1
  <2>2. AccountTypeOK' BY <1>3, <2>1 DEF Incr, Next1
  <2>3. PhasesOK' BY <1>3, <2>1 DEF Incr
  <2>4. ASSUME sets <= 1 PROVE Covered'
    <3>1. \A s \in Reg : uid[s] # Absent => uid[s] \in Nat /\ uid[s] <= key
      BY <2>4
    <3>2. \A s \in Reg : uid'[s] = uid[s] \/ (s = r /\ uid'[s] = key + 1)
      BY <1>3, <2>1 DEF Incr, Next1
    <3>3. \A s \in Reg : uid'[s] # Absent => uid'[s] <= key'
      BY <2>1, <3>1, <3>2
    <3>4. \A s, t \in Reg : s # t /\ uid'[s] # Absent => uid'[s] # uid'[t]
      BY <2>1, <2>4, <3>1, <3>2
    <3> QED BY <2>1, <3>3, <3>4
  <2> QED BY <1>3, <2>2, <2>3, <2>4 DEF Incr
<1>4. ASSUME NEW r \in Reg, Save(r) PROVE UidInv' BY <1>4 DEF Save
<1>5. ASSUME NEW r \in Reg, Fail(r) PROVE UidInv' BY <1>5 DEF Fail
<1>6. CASE UNCHANGED accountVars BY <1>6 DEF accountVars
<1> QED BY <1>1, <1>2, <1>3, <1>4, <1>5, <1>6 DEF AccountNext

(* No two accounts share a uid, unless the counter in Redis was set more    *)
(* than once (NextAccountId and wxRegister).                                *)
THEOREM UidsStayUnique == AccountSpec => []UniqueUnlessReset
<1>1. UidInv => UniqueUnlessReset
  BY DEF UidInv, AccountTypeOK, PhasesOK, Covered, UniqueUnlessReset, UidsUnique
<1> QED BY InitUid, StepUid, <1>1, PTL DEF AccountSpec

----------------------------------------------------------------------------
(* How often a uid has been handed out.                                    *)
Given(v) == {r \in Reg : uid[r] = v}

(* Once the counter has been set, no uid has been handed out more often    *)
(* than that, and one above the counter not since the last SET.            *)
GivenOK ==
    sets > 0 =>
        /\ key # Absent
        /\ \A v \in Nat : /\ Cardinality(Given(v)) <= sets
                          /\ v > key => Cardinality(Given(v)) <= sets - 1

CollisionInv == UidInv /\ GivenOK

LEMMA GivenFinite ==
    ASSUME NEW v
    PROVE  IsFiniteSet(Given(v)) /\ Cardinality(Given(v)) \in Nat
<1>1. Given(v) \subseteq Reg BY DEF Given
<1> QED BY <1>1, RegAssumption, FS_Subset, FS_CardinalityType

LEMMA InitCollision == AccountInit => CollisionInv
BY InitUid DEF AccountInit, CollisionInv, GivenOK

LEMMA SetKeepsGiven ==
    ASSUME CollisionInv, CollisionInv => UidInv', NEW r \in Reg, SetBegin(r)
    PROVE  GivenOK'
<1>1. key' # Absent /\ sets' = sets + 1 /\ sets \in Nat /\ uid' = uid
  BY StartAssumption, BeginAssumption
  DEF SetBegin, CollisionInv, UidInv, AccountTypeOK
<1>2. ASSUME NEW v \in Nat PROVE Cardinality(Given(v)) <= sets
  <2>1. CASE sets = 0
    <3>1. key = Absent
      BY <2>1 DEF SetBegin, CollisionInv, UidInv, PhasesOK
    <3>2. \A s \in Reg : uid[s] # v
      BY <3>1, StartAssumption DEF CollisionInv, UidInv, PhasesOK
    <3>3. Given(v) = {} BY <3>2 DEF Given
    <3> QED BY <2>1, <3>3, FS_EmptySet
  <2>2. CASE sets # 0
    BY <1>1, <2>2 DEF CollisionInv, GivenOK
  <2> QED BY <2>1, <2>2
<1>3. \A v : Given(v)' = Given(v) BY <1>1 DEF Given
<1>4. \A v \in Nat : Cardinality(Given(v)) \in Nat BY GivenFinite
<1> QED BY <1>1, <1>2, <1>3, <1>4 DEF GivenOK

LEMMA IncrKeepsGiven ==
    ASSUME CollisionInv, NEW r \in Reg, Incr(r)
    PROVE  GivenOK'
<1>1. /\ key \in Nat /\ key' = key + 1 /\ sets' = sets /\ sets \in Nat
      /\ uid[r] = Absent
  BY DEF Incr, Next1, CollisionInv, UidInv, AccountTypeOK, PhasesOK
<1>2. \A s \in Reg : uid'[s] = uid[s] \/ (s = r /\ uid'[s] = key + 1)
  BY <1>1 DEF Incr, Next1, CollisionInv, UidInv, AccountTypeOK
<1> SUFFICES ASSUME sets > 0, NEW v \in Nat
             PROVE  /\ Cardinality(Given(v)') <= sets
                    /\ v > key + 1 => Cardinality(Given(v)') <= sets - 1
  BY <1>1, StartAssumption DEF GivenOK
<1>3. /\ Cardinality(Given(v)) <= sets /\ Cardinality(Given(v)) \in Nat
      /\ v > key => Cardinality(Given(v)) <= sets - 1
  BY GivenFinite DEF CollisionInv, GivenOK
<1>4. CASE v # key + 1
  <2>1. Given(v)' \subseteq Given(v) BY <1>2, <1>4 DEF Given
  <2>2. Cardinality(Given(v)') <= Cardinality(Given(v))
        /\ Cardinality(Given(v)') \in Nat
    BY <2>1, GivenFinite, FS_Subset, FS_CardinalityType
  <2> QED BY <1>1, <1>3, <2>2
<1>5. CASE v = key + 1
  <2>1. Given(v)' \subseteq Given(v) \union {r} BY <1>2 DEF Given
  <2>2. /\ IsFiniteSet(Given(v) \union {r})
        /\ Cardinality(Given(v) \union {r}) <= Cardinality(Given(v)) + 1
    BY <1>3, GivenFinite, FS_AddElement
  <2>3. Cardinality(Given(v)') <= Cardinality(Given(v) \union {r})
        /\ Cardinality(Given(v)') \in Nat
        /\ Cardinality(Given(v) \union {r}) \in Nat
    BY <2>1, <2>2, FS_Subset, FS_CardinalityType
  <2> QED BY <1>1, <1>3, <1>5, <2>2, <2>3
<1> QED BY <1>4, <1>5

LEMMA StepCollision == CollisionInv /\ [AccountNext]_accountVars => CollisionInv'
<1> SUFFICES ASSUME CollisionInv, [AccountNext]_accountVars PROVE CollisionInv'
  OBVIOUS
<1>1. UidInv' BY StepUid DEF CollisionInv
<1>2. ASSUME UNCHANGED <<key, uid, sets>> PROVE GivenOK'
  <2>1. \A v : Given(v)' = Given(v) BY <1>2 DEF Given
  <2> QED BY <1>2, <2>1 DEF CollisionInv, GivenOK
<1>3. ASSUME NEW r \in Reg, SetBegin(r) PROVE GivenOK'
  BY <1>1, <1>3, SetKeepsGiven
<1>4. ASSUME NEW r \in Reg, Incr(r) PROVE GivenOK'
  BY <1>4, IncrKeepsGiven
<1>5. ASSUME NEW r \in Reg, Exists(r) \/ Save(r) \/ Fail(r) PROVE GivenOK'
  BY <1>2, <1>5 DEF Exists, Save, Fail
<1>6. CASE UNCHANGED accountVars
  BY <1>1, <1>2, <1>6 DEF accountVars, CollisionInv
<1> QED BY <1>1, <1>3, <1>4, <1>5, <1>6 DEF AccountNext, CollisionInv

LEMMA BoundedCollisions == CollisionInv => CollisionBound
<1> SUFFICES ASSUME CollisionInv, NEW r \in Reg, uid[r] # Absent
             PROVE  Cardinality(Given(uid[r])) = 1 \/ Cardinality(Given(uid[r])) <= sets
  BY DEF CollisionBound, Given
<1>1. sets \in Nat /\ uid[r] \in Nat
  BY DEF CollisionInv, UidInv, AccountTypeOK
<1>2. CASE sets = 0
  <2>1. Covered BY <1>2 DEF CollisionInv, UidInv
  <2>2. Given(uid[r]) = {r} BY <2>1 DEF Given, Covered
  <2> QED BY <2>2, FS_Singleton
<1>3. CASE sets # 0
  BY <1>1, <1>3 DEF CollisionInv, GivenOK
<1> QED BY <1>2, <1>3

(* However often Redis executes the SET of the counter, no uid is handed   *)
(* out more often than that, for any number of registrations, repetitions  *)
(* and lost answers (redis.go, incr).                                      *)
THEOREM CollisionsAreBounded == AccountSpec => []CollisionBound
BY InitCollision, StepCollision, BoundedCollisions, PTL DEF AccountSpec

-----------------------------------------------------------------------------
(* UserStore: documents, locks and bindings. *)

(* Logins: a user whose first logins did not overlap has one document or   *)
(* one call that is about to insert it.                                    *)
OneInserter ==
    \A u \in Uid \ loginRace :
        /\ \A i, j \in Docs(u) : i = j
        /\ \A c, d \in InStage("insert", u) : c = d
        /\ Docs(u) # {} => InStage("insert", u) = {}

(* Locks: the document of a user that is not among the old ones has the    *)
(* field, and each holder has a document that is taken.                    *)
Taken(u) == {i \in Docs(u) : users[i].syncLock = "taken"}

NewHaveLock ==
    \A u \in Uid \ OldUids :
        InStage("add", u) = {} /\ \A i \in Docs(u) : users[i].syncLock # "absent"

HoldersTook ==
    \A u \in Uid \ OldUids :
        IsFiniteSet(Holders(u)) /\ Cardinality(Holders(u)) <= Cardinality(Taken(u))

LockInv == NewHaveLock /\ HoldersTook

(* Bindings: those of one phone, and those of one user, are under way one  *)
(* at a time unless it has raced.                                          *)
BindStage == {"account", "user"}

BindsKnown ==
    \A c \in Call : stage[c] \in BindStage => CallKind[c] = "bind" /\ Docs(CallUid[c]) # {}

BindsApart ==
    \A c, d \in Call : c # d /\ stage[c] \in BindStage /\ stage[d] \in BindStage =>
        /\ CallPhone[c] = CallPhone[d] => CallPhone[c] \in bindRace
        /\ CallUid[c] = CallUid[d] => CallUid[c] \in bindRace

(* A phone that was found free stays free until the binding has it.        *)
PhoneStaysFree ==
    \A c \in Call : stage[c] = "account" /\ CallPhone[c] \notin bindRace
                    => ~IsBound(CallPhone[c])

OnePhoneEach ==
    \A u, v \in Uid : phoneAccount[u] = phoneAccount[v] /\ u # v =>
        phoneAccount[u] \in bindRace \union {NoPhone}

PhoneHasUser == \A u \in Uid : phoneAccount[u] # NoPhone => Docs(u) # {}

ReturnedIsDone == \A c \in Call : outcome[c] # "none" => stage[c] = "done"

(* The user's document has the phone of the account, but between the two   *)
(* writes of a binding.                                                    *)
UserFollowsAccount ==
    \A u \in Uid \ (bindRace \union loginRace) :
        (\A c \in BindsOf(u) : outcome[c] # "error") =>
            /\ \A c \in BindsOf(u) : stage[c] = "user" => phoneAccount[u] = CallPhone[c]
            /\ (\A c \in BindsOf(u) : stage[c] # "user") =>
                   \A i \in Docs(u) : users[i].mobilePhone = phoneAccount[u]

BindInv ==
    /\ BindsKnown
    /\ BindsApart
    /\ PhoneStaysFree
    /\ OnePhoneEach
    /\ PhoneHasUser
    /\ ReturnedIsDone
    /\ UserFollowsAccount

----------------------------------------------------------------------------
(* Documents. *)
Document == [uid : Uid, syncLock : {"absent", "free", "taken"},
             mobilePhone : Phone \union {NoPhone}, room : {Room, NoRoom}]

LEMMA DocsFinite ==
  ASSUME StoreTypeOK
  PROVE  /\ DOMAIN users \subseteq Nat
         /\ \A i \in DOMAIN users : users[i] \in Document
         /\ \A u : IsFiniteSet(Docs(u)) /\ Cardinality(Docs(u)) \in Nat
<1>1. /\ users \in Seq(Document) /\ Len(users) \in Nat /\ DOMAIN users = 1 .. Len(users)
      /\ \A i \in DOMAIN users : users[i] \in Document
  <2>1. users \in Seq(Document) BY DEF StoreTypeOK, Document
  <2>2. /\ Len(users) \in Nat /\ DOMAIN users = 1 .. Len(users)
        /\ users \in [1 .. Len(users) -> Document]
    BY <2>1, LenProperties
  <2> QED BY <2>1, <2>2
<1>2. IsFiniteSet(1 .. Len(users)) BY <1>1, FS_Interval
<1>3. ASSUME NEW u PROVE IsFiniteSet(Docs(u)) /\ Cardinality(Docs(u)) \in Nat
  <2>1. Docs(u) \in SUBSET (1 .. Len(users)) BY <1>1 DEF Docs
  <2>2. IsFiniteSet(Docs(u)) BY <1>2, <2>1, FS_Subset
  <2> QED BY <2>2, FS_CardinalityType
<1> QED BY <1>1, <1>3

LEMMA SetPhone ==
  ASSUME StoreTypeOK, NEW u \in Uid, NEW p \in Phone, UpdateOne(u, "mobilePhone", p)
  PROVE  /\ users' \in Seq(Document) /\ DOMAIN users' = DOMAIN users
         /\ \A v : Docs(v)' = Docs(v)
         /\ \A i \in DOMAIN users : users'[i].syncLock = users[i].syncLock
         /\ \A i \in DOMAIN users \ Docs(u) : users'[i] = users[i]
         /\ Docs(u) # {} => \E i \in Docs(u) : users'[i].mobilePhone = p
<1>1. users \in Seq(Document) BY DEF StoreTypeOK, Document
<1>2. CASE Docs(u) = {}
  <2>1. users' = users BY <1>2 DEF UpdateOne
  <2> QED BY <1>1, <1>2, <2>1 DEF Docs
<1>3. CASE Docs(u) # {}
  <2>1. PICK i \in Docs(u) : users' = [users EXCEPT ![i]["mobilePhone"] = p]
    BY <1>3 DEF UpdateOne
  <2>2. i \in DOMAIN users /\ users[i].uid = u BY DEF Docs
  <2>3. users[i] \in Document BY <2>2, DocsFinite
  <2>4. users' = [users EXCEPT ![i] = [users[i] EXCEPT !.mobilePhone = p]] BY <2>1
  <2>5. [users[i] EXCEPT !.mobilePhone = p] \in Document BY <2>3 DEF Document
  <2> QED BY <1>1, <2>2, <2>3, <2>4, <2>5 DEF Docs, Document
<1> QED BY <1>2, <1>3

LEMMA SetLock ==
  ASSUME StoreTypeOK, NEW u \in Uid, NEW i \in Docs(u),
         NEW lock \in {"absent", "free", "taken"},
         users' = [users EXCEPT ![i].syncLock = lock]
  PROVE  /\ users' \in Seq(Document) /\ DOMAIN users' = DOMAIN users
         /\ \A v : Docs(v)' = Docs(v)
         /\ \A j \in DOMAIN users : users'[j].mobilePhone = users[j].mobilePhone
         /\ \A j \in DOMAIN users \ {i} : users'[j] = users[j]
         /\ users'[i].syncLock = lock
<1>1. users \in Seq(Document) BY DEF StoreTypeOK, Document
<1>2. i \in DOMAIN users /\ users[i].uid = u BY DEF Docs
<1>3. users[i] \in Document BY <1>2, DocsFinite
<1>4. users' = [users EXCEPT ![i] = [users[i] EXCEPT !.syncLock = lock]] OBVIOUS
<1>5. [users[i] EXCEPT !.syncLock = lock] \in Document BY <1>3 DEF Document
<1> QED BY <1>1, <1>2, <1>3, <1>4, <1>5 DEF Docs, Document

LEMMA FreeLock ==
  ASSUME StoreTypeOK, NEW u \in Uid, UpdateOne(u, "syncLock", "free")
  PROVE  \/ Docs(u) = {} /\ users' = users
         \/ \E i \in Docs(u) : users' = [users EXCEPT ![i].syncLock = "free"]
<1>1. CASE Docs(u) = {} BY <1>1 DEF UpdateOne
<1>2. CASE Docs(u) # {}
  <2>1. PICK i \in Docs(u) : users' = [users EXCEPT ![i]["syncLock"] = "free"]
    BY <1>2 DEF UpdateOne
  <2>2. users' = [users EXCEPT ![i].syncLock = "free"] BY <2>1
  <2> QED BY <2>2
<1> QED BY <1>1, <1>2

LEMMA SetRoom ==
  ASSUME StoreTypeOK, NEW u \in Uid, UpdateOne(u, "room", Room)
  PROVE  /\ users' \in Seq(Document) /\ DOMAIN users' = DOMAIN users
         /\ \A v : Docs(v)' = Docs(v)
         /\ \A j \in DOMAIN users : /\ users'[j].mobilePhone = users[j].mobilePhone
                                    /\ users'[j].syncLock = users[j].syncLock
<1>1. users \in Seq(Document) BY DEF StoreTypeOK, Document
<1>2. CASE Docs(u) = {}
  <2>1. users' = users BY <1>2 DEF UpdateOne
  <2> QED BY <1>1, <2>1 DEF Docs
<1>3. CASE Docs(u) # {}
  <2>1. PICK i \in Docs(u) : users' = [users EXCEPT ![i]["room"] = Room]
    BY <1>3 DEF UpdateOne
  <2>2. i \in DOMAIN users /\ users[i].uid = u BY DEF Docs
  <2>3. users[i] \in Document BY <2>2, DocsFinite
  <2>4. users' = [users EXCEPT ![i] = [users[i] EXCEPT !.room = Room]] BY <2>1
  <2>5. [users[i] EXCEPT !.room = Room] \in Document BY <2>3 DEF Document
  <2> QED BY <1>1, <2>2, <2>3, <2>4, <2>5 DEF Docs, Document
<1> QED BY <1>2, <1>3

LEMMA AddUser ==
  ASSUME StoreTypeOK, NEW u \in Uid, users' = Append(users, User(u, "free"))
  PROVE  \E new :
            /\ users' \in Seq(Document) /\ DOMAIN users' = DOMAIN users \union {new}
            /\ new \notin DOMAIN users
            /\ \A i \in DOMAIN users : users'[i] = users[i]
            /\ users'[new] = User(u, "free")
            /\ Docs(u)' = Docs(u) \union {new}
            /\ \A v : v # u => Docs(v)' = Docs(v)
<1> DEFINE new == Len(users) + 1
           doc == User(u, "free")
<1>1. users \in Seq(Document) BY DEF StoreTypeOK, Document
<1>2. doc \in Document /\ doc.uid = u BY DEF User, Document
<1>3. users' = Append(users, doc) OBVIOUS
<1> HIDE DEF doc
<1>4. /\ users' \in Seq(Document) /\ Len(users) \in Nat /\ DOMAIN users = 1 .. Len(users)
      /\ DOMAIN users' = 1 .. new
      /\ \A i \in 1 .. Len(users) : users'[i] = users[i]
      /\ users'[new] = doc
  <2>1. Len(users) \in Nat /\ DOMAIN users = 1 .. Len(users) BY <1>1, LenProperties
  <2>2. /\ users' \in Seq(Document) /\ Len(users') = Len(users) + 1
        /\ \A i \in 1 .. Len(users) : users'[i] = users[i]
        /\ users'[Len(users) + 1] = doc
    BY <1>1, <1>2, <1>3, AppendProperties
  <2>3. DOMAIN users' = 1 .. Len(users') BY <2>2, LenProperties
  <2> QED BY <2>1, <2>2, <2>3
<1>5. DOMAIN users' = DOMAIN users \union {new} /\ new \notin DOMAIN users BY <1>4
<1> HIDE DEF new
<1>6. Docs(u)' = Docs(u) \union {new} /\ \A v : v # u => Docs(v)' = Docs(v)
  BY <1>2, <1>4, <1>5 DEF Docs
<1>7. users'[new] = User(u, "free") BY <1>4 DEF doc
<1>8. \A i \in DOMAIN users : users'[i] = users[i] BY <1>4
<1>9. users' \in Seq(Document) BY <1>4
<1> QED BY <1>5, <1>6, <1>7, <1>8, <1>9

----------------------------------------------------------------------------
(* Type correctness. *)
LEMMA CallType ==
  ASSUME NEW c \in Call
  PROVE  CallUid[c] \in Uid /\ CallPhone[c] \in Phone
         /\ CallKind[c] \in {"login", "bind", "lock", "update"}
BY CallAssumption

LEMMA InitStore ==
  ASSUME StoreInit
  PROVE  /\ StoreTypeOK
         /\ \A i \in DOMAIN users : users[i] = User(users[i].uid, "absent")
         /\ \A u \in Uid : \A i, j \in Docs(u) : i = j
         /\ \A u \in Uid \ OldUids : Docs(u) = {}
<1> DEFINE n == Cardinality(OldUids)
<1>1. PICK s \in [1..n -> OldUids] :
         /\ \A u \in OldUids : \E i \in DOMAIN s : s[i] = u
         /\ users = [i \in DOMAIN s |-> User(s[i], "absent")]
  BY DEF StoreInit
<1>2. n \in Nat BY CallAssumption, FS_CardinalityType
<1>3. IsFiniteSet(1..n) /\ Cardinality(1..n) = n BY <1>2, FS_Interval
<1>4. s \in Injection(1..n, OldUids)
  <2>1. s \in Surjection(1..n, OldUids) BY <1>1 DEF Surjection
  <2> QED BY <1>3, <2>1, FS_SurjSameCardinalityImpliesInj
<1> HIDE DEF n
<1>5. DOMAIN users = 1..n /\ \A i \in 1..n : users[i] = User(s[i], "absent") /\ s[i] \in OldUids
  BY <1>1
<1>6. \A i \in 1..n : /\ users[i].uid = s[i] /\ users[i] \in Document
  <2> SUFFICES ASSUME NEW i \in 1..n PROVE users[i].uid = s[i] /\ users[i] \in Document
    OBVIOUS
  <2>1. users[i] = User(s[i], "absent") /\ s[i] \in Uid BY <1>5, CallAssumption
  <2> QED BY <2>1 DEF User, Document
<1>7. users \in Seq(Document)
  <2>1. users \in [1..n -> Document] BY <1>1, <1>6
  <2> QED BY <1>2, <2>1
<1>8. StoreTypeOK BY <1>7 DEF StoreInit, StoreTypeOK, Stages, Document
<1>9. \A i \in DOMAIN users : users[i] = User(users[i].uid, "absent") BY <1>5, <1>6
<1>10. ASSUME NEW u \in Uid, NEW i \in Docs(u), NEW j \in Docs(u) PROVE i = j
  <2>1. i \in 1..n /\ j \in 1..n /\ s[i] = s[j] BY <1>5, <1>6 DEF Docs
  <2> QED BY <1>4, <2>1 DEF Injection, IsInjective
<1>11. \A u \in Uid \ OldUids : Docs(u) = {} BY <1>5, <1>6 DEF Docs
<1> QED BY <1>8, <1>9, <1>10, <1>11

(* A call goes to a next stage and may return. *)
LEMMA GoType ==
  ASSUME StoreTypeOK, NEW c \in Call, NEW from, NEW to \in Stages, NEW what,
         what \in {"ok", "error", "refused"},
         Continue(c, from, to) \/ Return(c, from, what)
  PROVE  stage' \in [Call -> Stages]
         /\ outcome' \in [Call -> {"none", "ok", "error", "refused"}]
BY DEF StoreTypeOK, Continue, Return, Go, Stages

LEMMA LoginType ==
  ASSUME StoreTypeOK, NEW c \in Call, LoginStep(c)
  PROVE  StoreTypeOK'
<1>1. CallUid[c] \in Uid BY CallType
<1>2. CASE FindUserByUid(c)
  <2>1. /\ Continue(c, "new", "insert") \/ Return(c, "new", "ok")
        /\ loginRace' = loginRace \/ loginRace' \subseteq loginRace \union {CallUid[c]}
        /\ UNCHANGED <<users, phoneAccount, bindRace>>
    BY <1>2 DEF FindUserByUid
  <2>2. stage' \in [Call -> Stages]
        /\ outcome' \in [Call -> {"none", "ok", "error", "refused"}]
    BY <2>1, GoType DEF Stages
  <2> QED BY <1>1, <2>1, <2>2 DEF StoreTypeOK
<1>3. CASE Insert(c)
  <2>1. PICK what \in {"ok", "error"} : Return(c, "insert", what) BY <1>3 DEF Insert
  <2>2. stage' \in [Call -> Stages]
        /\ outcome' \in [Call -> {"none", "ok", "error", "refused"}]
    BY <2>1, GoType DEF Stages
  <2>3. users' \in Seq(Document) BY <1>1, <1>3, AddUser DEF Insert
  <2> QED BY <1>3, <2>2, <2>3 DEF StoreTypeOK, Insert, Document
<1> QED BY <1>2, <1>3 DEF LoginStep

LEMMA BindType ==
  ASSUME StoreTypeOK, NEW c \in Call, BindStep(c)
  PROVE  StoreTypeOK'
<1>1. CallUid[c] \in Uid /\ CallPhone[c] \in Phone BY CallType
<1>2. CASE FindAccountByPhone(c)
  <2>1. /\ Continue(c, "new", "account") \/ Return(c, "new", "refused")
        /\ bindRace' = bindRace \/ bindRace' = bindRace \union RacesWith(c)
        /\ UNCHANGED <<users, phoneAccount, loginRace>>
    BY <1>2 DEF FindAccountByPhone
  <2>2. stage' \in [Call -> Stages]
        /\ outcome' \in [Call -> {"none", "ok", "error", "refused"}]
    BY <2>1, GoType DEF Stages
  <2>3. RacesWith(c) \subseteq {CallPhone[c], CallUid[c]} BY DEF RacesWith
  <2> QED BY <1>1, <2>1, <2>2, <2>3 DEF StoreTypeOK
<1>3. CASE UpdateAccountPhone(c)
  <2>1. stage' \in [Call -> Stages]
        /\ outcome' \in [Call -> {"none", "ok", "error", "refused"}]
    BY <1>3, GoType DEF UpdateAccountPhone, Stages
  <2> QED BY <1>1, <1>3, <2>1 DEF StoreTypeOK, UpdateAccountPhone
<1>4. CASE UpdateUserPhone(c)
  <2>1. PICK what \in {"ok", "error"} : Return(c, "user", what) BY <1>4 DEF UpdateUserPhone
  <2>2. stage' \in [Call -> Stages]
        /\ outcome' \in [Call -> {"none", "ok", "error", "refused"}]
    BY <2>1, GoType DEF Stages
  <2>3. users' \in Seq(Document) BY <1>1, <1>4, SetPhone DEF UpdateUserPhone
  <2> QED BY <1>4, <2>2, <2>3 DEF StoreTypeOK, UpdateUserPhone, Document
<1> QED BY <1>2, <1>3, <1>4 DEF BindStep

LEMMA LockType ==
  ASSUME StoreTypeOK, NEW c \in Call, LockStep(c)
  PROVE  StoreTypeOK'
<1>1. CallUid[c] \in Uid BY CallType
<1>2. UpdateOne(CallUid[c], "syncLock", "free") => users' \in Seq(Document)
  <2> SUFFICES ASSUME UpdateOne(CallUid[c], "syncLock", "free")
               PROVE  users' \in Seq(Document)
    OBVIOUS
  <2>1. CASE users' = users BY <2>1 DEF StoreTypeOK, Document
  <2>2. ASSUME NEW i \in Docs(CallUid[c]), users' = [users EXCEPT ![i].syncLock = "free"]
        PROVE  users' \in Seq(Document)
    BY <1>1, <2>2, SetLock
  <2> QED BY <1>1, <2>1, <2>2, FreeLock
<1>3. CASE CheckLock(c)
  <2>1. /\ \/ Return(c, "new", "refused")
           \/ \E to \in Stages : Continue(c, "new", to)
        /\ UNCHANGED <<users, phoneAccount, loginRace, bindRace>>
    BY <1>3 DEF CheckLock, Stages
  <2>2. stage' \in [Call -> Stages]
        /\ outcome' \in [Call -> {"none", "ok", "error", "refused"}]
    BY <2>1, GoType DEF Stages
  <2> QED BY <2>1, <2>2 DEF StoreTypeOK
<1>4. CASE AddLock(c)
  <2>1. stage' \in [Call -> Stages]
        /\ outcome' \in [Call -> {"none", "ok", "error", "refused"}]
    BY <1>4, GoType DEF AddLock, Stages
  <2> QED BY <1>2, <1>4, <2>1 DEF StoreTypeOK, AddLock, Document
<1>5. CASE TakeLock(c)
  <2>1. /\ \/ Return(c, "take", "refused") \/ Return(c, "take", "error")
           \/ Continue(c, "take", "held")
        /\ \/ users' = users
           \/ \E i \in Docs(CallUid[c]) : users' = [users EXCEPT ![i].syncLock = "taken"]
        /\ UNCHANGED <<phoneAccount, loginRace, bindRace>>
    BY <1>5 DEF TakeLock, FreeDocs
  <2>2. stage' \in [Call -> Stages]
        /\ outcome' \in [Call -> {"none", "ok", "error", "refused"}]
    BY <2>1, GoType DEF Stages
  <2>3. users' \in Seq(Document)
    <3>1. CASE users' = users BY <3>1 DEF StoreTypeOK, Document
    <3>2. ASSUME NEW i \in Docs(CallUid[c]), users' = [users EXCEPT ![i].syncLock = "taken"]
          PROVE  users' \in Seq(Document)
      BY <1>1, <3>2, SetLock
    <3> QED BY <2>1, <3>1, <3>2
  <2> QED BY <2>1, <2>2, <2>3 DEF StoreTypeOK, Document
<1>6. CASE UnLockUserData(c)
  <2>1. PICK what \in {"ok", "error"} : Return(c, "held", what) BY <1>6 DEF UnLockUserData
  <2>2. stage' \in [Call -> Stages]
        /\ outcome' \in [Call -> {"none", "ok", "error", "refused"}]
    BY <2>1, GoType DEF Stages
  <2> QED BY <1>2, <1>6, <2>2 DEF StoreTypeOK, UnLockUserData, Document
<1> QED BY <1>3, <1>4, <1>5, <1>6 DEF LockStep

LEMMA OtherType ==
  ASSUME StoreTypeOK, NEW c \in Call,
         UpdateField(c) \/ \E s \in Stages \ {"done"} : CommandFails(c, s)
  PROVE  StoreTypeOK'
<1>1. CallUid[c] \in Uid BY CallType
<1>2. CASE UpdateField(c)
  <2>1. PICK what \in {"ok", "error"} : Return(c, "new", what) BY <1>2 DEF UpdateField
  <2>2. stage' \in [Call -> Stages]
        /\ outcome' \in [Call -> {"none", "ok", "error", "refused"}]
    BY <2>1, GoType DEF Stages
  <2>3. users' \in Seq(Document) BY <1>1, <1>2, SetRoom DEF UpdateField
  <2> QED BY <1>2, <2>2, <2>3 DEF StoreTypeOK, UpdateField, Document
<1>3. ASSUME NEW s \in Stages, CommandFails(c, s) PROVE StoreTypeOK'
  <2>1. stage' \in [Call -> Stages]
        /\ outcome' \in [Call -> {"none", "ok", "error", "refused"}]
    BY <1>3, GoType DEF CommandFails, Stages
  <2> QED BY <1>3, <2>1 DEF StoreTypeOK, CommandFails
<1> QED BY <1>2, <1>3

LEMMA StoreTypeStep == StoreTypeOK /\ [StoreNext]_storeVars => StoreTypeOK'
<1> SUFFICES ASSUME StoreTypeOK, [StoreNext]_storeVars PROVE StoreTypeOK' OBVIOUS
<1>1. CASE UNCHANGED storeVars BY <1>1 DEF StoreTypeOK, storeVars
<1>2. CASE StoreNext BY <1>2, LoginType, BindType, LockType, OtherType DEF StoreNext
<1> QED BY <1>1, <1>2

(* The documents and the calls have their types. *)
THEOREM StoreTypeCorrect == StoreSpec => []StoreTypeOK
<1>1. StoreInit => StoreTypeOK BY InitStore
<1> QED BY <1>1, StoreTypeStep, PTL DEF StoreSpec

----------------------------------------------------------------------------
(* One call moves in a step, and only an insertion adds a document. *)
LEMMA CallMoves ==
  ASSUME StoreTypeOK, NEW c \in Call, NEW from \in Stages \ {"done"}, NEW to, NEW what,
         Continue(c, from, to) \/ (to = "done" /\ Return(c, from, what))
  PROVE  /\ stage[c] = from /\ stage'[c] = to
         /\ \A d \in Call \ {c} : stage'[d] = stage[d] /\ outcome'[d] = outcome[d]
         /\ outcome'[c] \in {outcome[c], what}
         /\ outcome'[c] = outcome[c] \/ to = "done"
         /\ Return(c, from, what) => outcome'[c] = what
BY DEF StoreTypeOK, Continue, Return, Go

LEMMA KeepsDocs ==
  ASSUME StoreTypeOK, NEW c \in Call,
         \/ FindUserByUid(c) \/ BindStep(c) \/ LockStep(c) \/ UpdateField(c)
         \/ \E s \in Stages \ {"done"} : CommandFails(c, s)
  PROVE  DOMAIN users' = DOMAIN users /\ \A u : Docs(u)' = Docs(u)
<1>1. CallUid[c] \in Uid /\ CallPhone[c] \in Phone BY CallType
<1>2. CASE users' = users BY <1>2 DEF Docs
<1>3. CASE UpdateUserPhone(c) BY <1>1, <1>3, SetPhone DEF UpdateUserPhone
<1>4. CASE UpdateField(c) BY <1>1, <1>4, SetRoom DEF UpdateField
<1>5. ASSUME NEW i \in Docs(CallUid[c]), NEW lock \in {"free", "taken"},
             users' = [users EXCEPT ![i].syncLock = lock]
      PROVE  DOMAIN users' = DOMAIN users /\ \A u : Docs(u)' = Docs(u)
  BY <1>1, <1>5, SetLock
<1>6. CASE AddLock(c) \/ UnLockUserData(c)
  <2>1. UpdateOne(CallUid[c], "syncLock", "free") BY <1>6 DEF AddLock, UnLockUserData
  <2> QED BY <1>1, <1>2, <1>5, <2>1, FreeLock
<1>7. CASE TakeLock(c)
  <2>1. \/ users' = users
        \/ \E i \in Docs(CallUid[c]) : users' = [users EXCEPT ![i].syncLock = "taken"]
    BY <1>7 DEF TakeLock, FreeDocs
  <2> QED BY <1>2, <1>5, <2>1
<1>8. CASE FindUserByUid(c) BY <1>2, <1>8 DEF FindUserByUid
<1>9. CASE FindAccountByPhone(c) \/ UpdateAccountPhone(c)
  BY <1>2, <1>9 DEF FindAccountByPhone, UpdateAccountPhone
<1>10. CASE CheckLock(c) BY <1>2, <1>10 DEF CheckLock
<1>11. CASE \E s \in Stages \ {"done"} : CommandFails(c, s) BY <1>2, <1>11 DEF CommandFails
<1> QED BY <1>3, <1>4, <1>6, <1>7, <1>8, <1>9, <1>10, <1>11 DEF BindStep, LockStep

----------------------------------------------------------------------------
(* Logins. *)
LEMMA InserterFrame ==
  ASSUME StoreTypeOK, OneInserter, NEW c \in Call, \A u : Docs(u)' = Docs(u),
         \A d \in Call \ {c} : stage'[d] = stage[d], stage'[c] # "insert",
         loginRace \subseteq loginRace'
  PROVE  OneInserter'
<1>1. \A u : InStage("insert", u)' \subseteq InStage("insert", u) BY DEF InStage
<1> QED BY <1>1 DEF OneInserter

LEMMA FindInserter ==
  ASSUME StoreTypeOK, OneInserter, NEW c \in Call, FindUserByUid(c)
  PROVE  OneInserter'
<1> DEFINE u == CallUid[c]
<1>1. \A v : Docs(v)' = Docs(v) BY KeepsDocs
<1>2. CASE Docs(u) # {}
  <2>1. Return(c, "new", "ok") /\ loginRace' = loginRace BY <1>2 DEF FindUserByUid
  <2>2. stage'[c] = "done" /\ \A d \in Call \ {c} : stage'[d] = stage[d]
    BY <2>1, CallMoves DEF Stages
  <2> QED BY <1>1, <2>1, <2>2, InserterFrame
<1>3. CASE Docs(u) = {}
  <2>1. /\ Continue(c, "new", "insert") /\ loginRace \subseteq loginRace'
        /\ InStage("insert", u) # {} => u \in loginRace'
    BY <1>3 DEF FindUserByUid
  <2>2. stage'[c] = "insert" /\ \A d \in Call \ {c} : stage'[d] = stage[d]
    BY <2>1, CallMoves DEF Stages
  <2>3. InStage("insert", u)' \subseteq InStage("insert", u) \union {c} BY <2>2 DEF InStage
  <2>4. \A v : v # u => InStage("insert", v)' = InStage("insert", v) BY <2>2 DEF InStage
  <2> HIDE DEF u
  <2> QED BY <1>1, <1>3, <2>1, <2>3, <2>4 DEF OneInserter
<1> QED BY <1>2, <1>3

LEMMA InsertInserter ==
  ASSUME StoreTypeOK, OneInserter, NEW c \in Call, Insert(c)
  PROVE  OneInserter'
<1> DEFINE u == CallUid[c]
<1>1. u \in Uid BY CallType
<1>2. PICK what \in {"ok", "error"} : Return(c, "insert", what) BY DEF Insert
<1>3. /\ stage[c] = "insert" /\ stage'[c] = "done"
      /\ \A d \in Call \ {c} : stage'[d] = stage[d]
  BY <1>2, CallMoves DEF Stages
<1>4. PICK new : Docs(u)' = Docs(u) \union {new} /\ \A v : v # u => Docs(v)' = Docs(v)
  BY <1>1, AddUser DEF Insert
<1>5. /\ c \in InStage("insert", u)
      /\ InStage("insert", u)' = InStage("insert", u) \ {c}
      /\ \A v : InStage("insert", v)' \subseteq InStage("insert", v)
  BY <1>3 DEF InStage
<1>6. loginRace' = loginRace BY DEF Insert
<1> HIDE DEF u
<1> QED BY <1>4, <1>5, <1>6 DEF OneInserter

LEMMA OtherInserter ==
  ASSUME StoreTypeOK, OneInserter, NEW c \in Call,
         \/ BindStep(c) \/ LockStep(c) \/ UpdateField(c)
         \/ \E s \in Stages \ {"done"} : CommandFails(c, s)
  PROVE  OneInserter'
<1>1. \A v : Docs(v)' = Docs(v) BY KeepsDocs
<1>2. loginRace' = loginRace
  BY DEF BindStep, LockStep, UpdateField, CommandFails, FindAccountByPhone,
         UpdateAccountPhone, UpdateUserPhone, CheckLock, AddLock, TakeLock, UnLockUserData
<1>3. PICK from \in Stages, to \in Stages \ {"insert"},
            what \in {"ok", "error", "refused"} :
         Continue(c, from, to) \/ (to = "done" /\ Return(c, from, what))
  BY DEF BindStep, LockStep, UpdateField, CommandFails, FindAccountByPhone, Stages,
         UpdateAccountPhone, UpdateUserPhone, CheckLock, AddLock, TakeLock, UnLockUserData
<1>4. stage'[c] # "insert" /\ \A d \in Call \ {c} : stage'[d] = stage[d]
  BY <1>3 DEF StoreTypeOK, Continue, Return, Go
<1> QED BY <1>1, <1>2, <1>4, InserterFrame

(* The inductive invariant of the logins. *)
THEOREM OneInserterHolds == StoreSpec => []OneInserter
<1>1. StoreInit => OneInserter
  <2> SUFFICES ASSUME StoreInit PROVE OneInserter OBVIOUS
  <2>1. \A u : InStage("insert", u) = {} BY DEF StoreInit, InStage
  <2> QED BY <2>1, InitStore DEF OneInserter
<1>2. StoreTypeOK /\ OneInserter /\ [StoreNext]_storeVars => OneInserter'
  <2> SUFFICES ASSUME StoreTypeOK, OneInserter, [StoreNext]_storeVars PROVE OneInserter'
    OBVIOUS
  <2>1. CASE UNCHANGED storeVars BY <2>1 DEF OneInserter, Docs, InStage, storeVars
  <2>2. CASE StoreNext
    BY <2>2, FindInserter, InsertInserter, OtherInserter DEF StoreNext, LoginStep
  <2> QED BY <2>1, <2>2
<1> QED BY <1>1, <1>2, StoreTypeCorrect, PTL DEF StoreSpec

(* A user has one document, unless two first logins overlapped            *)
(* (service/user.go:32-55): a call inserts only if it saw none, and until *)
(* then no other call was about to.                                       *)
THEOREM OneUser == StoreSpec => []OneUserUnlessRaced
<1>1. StoreTypeOK /\ OneInserter => OneUserUnlessRaced
  <2> SUFFICES ASSUME StoreTypeOK, OneInserter, NEW u \in Uid \ loginRace
               PROVE  Cardinality(Docs(u)) <= 1
    BY DEF OneUserUnlessRaced
  <2>1. CASE Docs(u) = {} BY <2>1, FS_EmptySet
  <2>2. CASE Docs(u) # {}
    <3>1. \A i, j \in Docs(u) : i = j BY DEF OneInserter
    <3>2. PICK i : Docs(u) = {i} BY <2>2, <3>1
    <3> QED BY <3>2, FS_Singleton
  <2> QED BY <2>1, <2>2
<1> QED BY <1>1, StoreTypeCorrect, OneInserterHolds, PTL

----------------------------------------------------------------------------
(* Locks. *)
LEMMA TakenFinite ==
  StoreTypeOK => \A u : IsFiniteSet(Taken(u)) /\ Cardinality(Taken(u)) \in Nat
<1> SUFFICES ASSUME StoreTypeOK, NEW u PROVE IsFiniteSet(Taken(u)) /\ Cardinality(Taken(u)) \in Nat
  OBVIOUS
<1>1. IsFiniteSet(Docs(u)) /\ Taken(u) \in SUBSET Docs(u) BY DocsFinite DEF Taken
<1>2. IsFiniteSet(Taken(u)) BY <1>1, FS_Subset
<1> QED BY <1>2, FS_CardinalityType

(* A call that does not come to hold a lock, and frees none. *)
LEMMA LockFrame ==
  ASSUME StoreTypeOK', LockInv, NEW c \in Call,
         \A d \in Call \ {c} : stage'[d] = stage[d], stage'[c] # "held",
         stage'[c] = "add" => CallUid[c] \in OldUids,
         \A u \in Uid \ OldUids :
             /\ Taken(u) \subseteq Taken(u)'
             /\ \A i \in Docs(u)' : users'[i].syncLock # "absent"
  PROVE  LockInv'
<1>0. (StoreTypeOK => \A u : IsFiniteSet(Taken(u)) /\ Cardinality(Taken(u)) \in Nat)'
  BY TakenFinite, PTL
<1>1. \A u \in Uid \ OldUids : InStage("add", u)' \subseteq InStage("add", u) BY DEF InStage
<1>2. NewHaveLock' BY <1>1 DEF LockInv, NewHaveLock
<1>3. ASSUME NEW u \in Uid \ OldUids
      PROVE  IsFiniteSet(Holders(u))' /\ Cardinality(Holders(u))' <= Cardinality(Taken(u))'
  <2>1. IsFiniteSet(Holders(u)) /\ Cardinality(Holders(u)) <= Cardinality(Taken(u))
    BY DEF LockInv, HoldersTook
  <2>2. Holders(u)' \in SUBSET Holders(u) BY DEF Holders, InStage
  <2>3. IsFiniteSet(Holders(u)') /\ Cardinality(Holders(u)') <= Cardinality(Holders(u))
    BY <2>1, <2>2, FS_Subset
  <2>4. IsFiniteSet(Taken(u)') BY <1>0
  <2>5. Taken(u) \in SUBSET (Taken(u)') OBVIOUS
  <2>6. IsFiniteSet(Taken(u)) /\ Cardinality(Taken(u)) <= Cardinality(Taken(u)')
    BY <2>4, <2>5, FS_Subset
  <2>7. /\ Cardinality(Holders(u)) \in Nat /\ Cardinality(Holders(u)') \in Nat
        /\ Cardinality(Taken(u)) \in Nat /\ Cardinality(Taken(u)') \in Nat
    BY <2>1, <2>3, <2>4, <2>6, FS_CardinalityType
  <2> QED BY <2>1, <2>3, <2>6, <2>7
<1> QED BY <1>2, <1>3 DEF LockInv, HoldersTook

(* Commands that leave the field alone. *)
LEMMA UnlockedSteps ==
  ASSUME StoreTypeOK, StoreTypeOK', LockInv, NEW c \in Call,
         \/ FindUserByUid(c) \/ BindStep(c) \/ CheckLock(c) \/ UpdateField(c)
         \/ \E s \in Stages \ {"done"} : CommandFails(c, s)
  PROVE  LockInv'
<1>1. CallUid[c] \in Uid /\ CallPhone[c] \in Phone BY CallType
<1>2. /\ DOMAIN users' = DOMAIN users /\ \A u : Docs(u)' = Docs(u)
  BY KeepsDocs DEF LockStep
<1>3. \A i \in DOMAIN users : users'[i].syncLock = users[i].syncLock
  <2>1. CASE users' = users BY <2>1
  <2>2. CASE UpdateUserPhone(c) BY <1>1, <2>2, SetPhone DEF UpdateUserPhone
  <2>3. CASE UpdateField(c) BY <1>1, <2>3, SetRoom DEF UpdateField
  <2> QED
    BY <2>1, <2>2, <2>3 DEF BindStep, FindUserByUid, FindAccountByPhone,
       UpdateAccountPhone, CheckLock, CommandFails
<1>4. \A u \in Uid \ OldUids :
         /\ Taken(u) \subseteq Taken(u)'
         /\ \A i \in Docs(u)' : users'[i].syncLock # "absent"
  BY <1>2, <1>3 DEF LockInv, NewHaveLock, Taken, Docs
<1>5. CASE CheckLock(c) /\ \E i \in Docs(CallUid[c]) : users[i].syncLock = "absent"
  <2>1. CallUid[c] \in OldUids BY <1>1, <1>5 DEF LockInv, NewHaveLock
  <2>2. PICK from \in Stages \ {"done"}, to \in Stages \ {"held"},
              what \in {"ok", "error", "refused"} :
           Continue(c, from, to) \/ (to = "done" /\ Return(c, from, what))
    BY <1>5 DEF CheckLock, Stages
  <2>3. stage'[c] # "held" /\ \A d \in Call \ {c} : stage'[d] = stage[d]
    BY <2>2 DEF StoreTypeOK, Continue, Return, Go
  <2> QED BY <1>4, <2>1, <2>3, LockFrame
<1>6. CASE ~(CheckLock(c) /\ \E i \in Docs(CallUid[c]) : users[i].syncLock = "absent")
  <2>1. CheckLock(c) => Continue(c, "new", "take") \/ Return(c, "new", "refused")
    BY <1>6 DEF CheckLock
  <2>2. PICK from \in Stages \ {"done"}, to \in Stages \ {"held", "add"},
              what \in {"ok", "error", "refused"} :
           Continue(c, from, to) \/ (to = "done" /\ Return(c, from, what))
    BY <2>1 DEF BindStep, UpdateField, CommandFails, FindUserByUid, FindAccountByPhone,
                Stages, UpdateAccountPhone, UpdateUserPhone
  <2>3. stage'[c] \notin {"held", "add"} /\ \A d \in Call \ {c} : stage'[d] = stage[d]
    BY <2>2 DEF StoreTypeOK, Continue, Return, Go
  <2> QED BY <1>4, <2>3, LockFrame
<1> QED BY <1>5, <1>6

LEMMA InsertLock ==
  ASSUME StoreTypeOK, StoreTypeOK', LockInv, NEW c \in Call, Insert(c)
  PROVE  LockInv'
<1> DEFINE u == CallUid[c]
<1>1. u \in Uid BY CallType
<1>2. PICK new :
         /\ users'[new] = User(u, "free")
         /\ DOMAIN users' = DOMAIN users \union {new} /\ new \notin DOMAIN users
         /\ \A i \in DOMAIN users : users'[i] = users[i]
         /\ Docs(u)' = Docs(u) \union {new} /\ \A v : v # u => Docs(v)' = Docs(v)
  BY <1>1, AddUser DEF Insert
<1>3. PICK what \in {"ok", "error"} : Return(c, "insert", what) BY DEF Insert
<1>4. stage'[c] = "done" /\ \A d \in Call \ {c} : stage'[d] = stage[d]
  BY <1>3, CallMoves DEF Stages
<1>5. users'[new].syncLock = "free" BY <1>2 DEF User
<1> HIDE DEF u
<1>6. \A v \in Uid \ OldUids :
         /\ Taken(v) \subseteq Taken(v)'
         /\ \A i \in Docs(v)' : users'[i].syncLock # "absent"
  BY <1>2, <1>5 DEF LockInv, NewHaveLock, Taken, Docs
<1> QED BY <1>4, <1>6, LockFrame

LEMMA AddLockLock ==
  ASSUME StoreTypeOK, StoreTypeOK', LockInv, NEW c \in Call, AddLock(c)
  PROVE  LockInv'
<1> DEFINE u == CallUid[c]
<1>1. u \in Uid BY CallType
<1>2. /\ stage[c] = "add" /\ stage'[c] \in {"take", "done"}
      /\ \A d \in Call \ {c} : stage'[d] = stage[d]
  BY DEF AddLock, StoreTypeOK, Continue, Return, Go
<1>3. u \in OldUids BY <1>1, <1>2 DEF LockInv, NewHaveLock, InStage
<1>4. \A v : Docs(v)' = Docs(v) BY KeepsDocs DEF LockStep
<1>5. \A v : v # u => \A i \in Docs(v) : users'[i] = users[i]
  <2>1. UpdateOne(u, "syncLock", "free") BY DEF AddLock
  <2>2. CASE users' = users BY <2>2
  <2>3. ASSUME NEW i \in Docs(u), users' = [users EXCEPT ![i].syncLock = "free"]
        PROVE  \A v : v # u => \A j \in Docs(v) : users'[j] = users[j]
    <3>1. \A j \in DOMAIN users \ {i} : users'[j] = users[j] BY <1>1, <2>3, SetLock
    <3>2. \A v : v # u => i \notin Docs(v) BY DEF Docs
    <3> QED BY <3>1, <3>2 DEF Docs
  <2> QED BY <1>1, <2>1, <2>2, <2>3, FreeLock
<1>6. \A v \in Uid \ OldUids :
         /\ Taken(v) \subseteq Taken(v)'
         /\ \A i \in Docs(v)' : users'[i].syncLock # "absent"
  <2> HIDE DEF u
  <2> QED BY <1>3, <1>4, <1>5 DEF LockInv, NewHaveLock, Taken
<1> QED BY <1>2, <1>6, LockFrame

LEMMA TakeLockLock ==
  ASSUME StoreTypeOK, StoreTypeOK', LockInv, NEW c \in Call, TakeLock(c)
  PROVE  LockInv'
<1> DEFINE u == CallUid[c]
<1>1. u \in Uid BY CallType
<1>2. \A v : Docs(v)' = Docs(v) BY KeepsDocs DEF LockStep
<1>3. CASE users' = users
  <2>1. Return(c, "take", "refused") \/ Return(c, "take", "error") \/ FreeDocs(u) # {}
    BY <1>3 DEF TakeLock
  <2>2. ASSUME NEW i \in FreeDocs(u) PROVE users' # [users EXCEPT ![i].syncLock = "taken"]
    <3>1. i \in Docs(u) /\ users[i].syncLock = "free" BY DEF FreeDocs
    <3> SUFFICES ASSUME users' = [users EXCEPT ![i].syncLock = "taken"] PROVE FALSE
      OBVIOUS
    <3>2. users'[i].syncLock = "taken" BY <1>1, <3>1, SetLock
    <3> QED BY <1>3, <3>1, <3>2
  <2>3. Return(c, "take", "refused") BY <2>1, <2>2 DEF TakeLock
  <2>4. stage'[c] = "done" /\ \A d \in Call \ {c} : stage'[d] = stage[d]
    BY <2>3, CallMoves DEF Stages
  <2>5. \A v \in Uid \ OldUids :
           /\ Taken(v) \subseteq Taken(v)'
           /\ \A i \in Docs(v)' : users'[i].syncLock # "absent"
    BY <1>2, <1>3 DEF LockInv, NewHaveLock, Taken
  <2> QED BY <2>4, <2>5, LockFrame
<1>4. ASSUME NEW i \in FreeDocs(u), users' = [users EXCEPT ![i].syncLock = "taken"],
             Continue(c, "take", "held") \/ Return(c, "take", "error")
      PROVE  LockInv'
  <2>1. i \in Docs(u) /\ users[i].syncLock = "free" BY DEF FreeDocs
  <2>2. /\ \A j \in DOMAIN users \ {i} : users'[j] = users[j]
        /\ users'[i].syncLock = "taken"
    BY <1>1, <1>4, <2>1, SetLock
  <2>3. \A v \in Uid \ OldUids :
           /\ Taken(v) \subseteq Taken(v)'
           /\ \A j \in Docs(v)' : users'[j].syncLock # "absent"
    BY <1>2, <2>1, <2>2 DEF LockInv, NewHaveLock, Taken, Docs
  <2>4. CASE Return(c, "take", "error")
    <3>1. stage'[c] = "done" /\ \A d \in Call \ {c} : stage'[d] = stage[d]
      BY <2>4, CallMoves DEF Stages
    <3> QED BY <2>3, <3>1, LockFrame
  <2>5. CASE Continue(c, "take", "held")
    <3>1. /\ stage[c] = "take" /\ stage'[c] = "held"
          /\ \A d \in Call \ {c} : stage'[d] = stage[d]
      BY <2>5, CallMoves DEF Stages
    <3>2. \A v : InStage("add", v)' = InStage("add", v) BY <3>1 DEF InStage
    <3>3. NewHaveLock' BY <2>3, <3>2 DEF LockInv, NewHaveLock
    <3>4. ASSUME NEW v \in Uid \ OldUids
          PROVE  IsFiniteSet(Holders(v)') /\ Cardinality(Holders(v)') <= Cardinality(Taken(v)')
      <4>1. /\ IsFiniteSet(Holders(v)) /\ Cardinality(Holders(v)) <= Cardinality(Taken(v))
            /\ IsFiniteSet(Taken(v))
        BY TakenFinite DEF LockInv, HoldersTook
      <4>2. Cardinality(Holders(v)) \in Nat /\ Cardinality(Taken(v)) \in Nat
        BY <4>1, FS_CardinalityType
      <4>3. CASE v = u
        <5>1. Holders(v)' = Holders(v) \union {c} /\ c \notin Holders(v)
          BY <3>1, <4>3 DEF Holders, InStage
        <5>2. Taken(v)' = Taken(v) \union {i} /\ i \notin Taken(v)
          BY <1>2, <2>1, <2>2, <4>3 DEF Taken, Docs
        <5> HIDE DEF u
        <5>3. IsFiniteSet(Holders(v)')
              /\ Cardinality(Holders(v)') = Cardinality(Holders(v)) + 1
          BY <4>1, <5>1, FS_AddElement
        <5>4. Cardinality(Taken(v)') = Cardinality(Taken(v)) + 1
          BY <4>1, <5>2, FS_AddElement
        <5> QED BY <4>1, <4>2, <5>3, <5>4
      <4>4. CASE v # u
        <5>1. Holders(v)' = Holders(v) BY <3>1, <4>4 DEF Holders, InStage
        <5>2. Taken(v)' = Taken(v) BY <1>2, <2>1, <2>2, <4>4 DEF Taken, Docs
        <5> QED BY <4>1, <5>1, <5>2
      <4> QED BY <4>3, <4>4
    <3> QED BY <3>3, <3>4 DEF LockInv, HoldersTook
  <2> QED BY <1>4, <2>4, <2>5
<1> QED BY <1>3, <1>4 DEF TakeLock

LEMMA UnLockLock ==
  ASSUME StoreTypeOK, StoreTypeOK', LockInv, NEW c \in Call, UnLockUserData(c)
  PROVE  LockInv'
<1> DEFINE u == CallUid[c]
<1>1. u \in Uid BY CallType
<1>2. \A v : Docs(v)' = Docs(v) BY KeepsDocs DEF LockStep
<1>3. PICK what \in {"ok", "error"} : Return(c, "held", what) BY DEF UnLockUserData
<1>4. /\ stage[c] = "held" /\ stage'[c] = "done"
      /\ \A d \in Call \ {c} : stage'[d] = stage[d]
  BY <1>3, CallMoves DEF Stages
<1>5. PICK freed : /\ \A v : v # u => Taken(v)' = Taken(v)
                   /\ \A v : Taken(v)' = Taken(v) \/ Taken(v)' = Taken(v) \ {freed}
                   /\ \A i \in DOMAIN users : users'[i].syncLock \in {users[i].syncLock, "free"}
  <2>1. UpdateOne(u, "syncLock", "free") BY DEF UnLockUserData
  <2>2. CASE users' = users BY <1>2, <2>2 DEF Taken
  <2>3. ASSUME NEW i \in Docs(u), users' = [users EXCEPT ![i].syncLock = "free"]
        PROVE  /\ \A v : v # u => Taken(v)' = Taken(v)
               /\ \A v : Taken(v)' = Taken(v) \/ Taken(v)' = Taken(v) \ {i}
               /\ \A j \in DOMAIN users : users'[j].syncLock \in {users[j].syncLock, "free"}
    <3>1. /\ \A j \in DOMAIN users \ {i} : users'[j] = users[j]
          /\ users'[i].syncLock = "free"
      BY <1>1, <2>3, SetLock
    <3>2. \A v : v # u => i \notin Docs(v) BY DEF Docs
    <3>3. \A v : Taken(v)' = Taken(v) \ {i} BY <1>2, <3>1 DEF Taken, Docs
    <3>4. \A v : v # u => i \notin Taken(v) BY <3>2 DEF Taken
    <3> QED BY <3>1, <3>3, <3>4
  <2> QED BY <1>1, <2>1, <2>2, <2>3, FreeLock
<1>6. NewHaveLock'
  <2>1. \A v : InStage("add", v)' = InStage("add", v) BY <1>4 DEF InStage
  <2> QED BY <1>2, <1>5, <2>1 DEF LockInv, NewHaveLock, Docs
<1>7. ASSUME NEW v \in Uid \ OldUids
      PROVE  IsFiniteSet(Holders(v)') /\ Cardinality(Holders(v)') <= Cardinality(Taken(v)')
  <2>1. /\ IsFiniteSet(Holders(v)) /\ Cardinality(Holders(v)) <= Cardinality(Taken(v))
        /\ IsFiniteSet(Taken(v))
    BY TakenFinite DEF LockInv, HoldersTook
  <2>2. Cardinality(Holders(v)) \in Nat /\ Cardinality(Taken(v)) \in Nat
    BY <2>1, FS_CardinalityType
  <2>3. CASE v = u
    <3>1. Holders(v)' = Holders(v) \ {c} /\ c \in Holders(v)
      BY <1>4, <2>3 DEF Holders, InStage
    <3> HIDE DEF u
    <3>2. IsFiniteSet(Holders(v)') /\ Cardinality(Holders(v)') = Cardinality(Holders(v)) - 1
      BY <2>1, <3>1, FS_RemoveElement
    <3>3. /\ Cardinality(Taken(v) \ {freed}) = IF freed \in Taken(v)
                                               THEN Cardinality(Taken(v)) - 1
                                               ELSE Cardinality(Taken(v))
      BY <2>1, FS_RemoveElement
    <3>4. Taken(v)' = Taken(v) \/ Taken(v)' = Taken(v) \ {freed} BY <1>5
    <3>5. /\ Cardinality(Taken(v)') \in {Cardinality(Taken(v)), Cardinality(Taken(v)) - 1}
      BY <3>3, <3>4
    <3> QED BY <2>1, <2>2, <3>2, <3>5
  <2>4. CASE v # u
    <3>1. Holders(v)' = Holders(v) BY <1>4, <2>4 DEF Holders, InStage
    <3>2. Taken(v)' = Taken(v) BY <1>5, <2>4
    <3> QED BY <2>1, <3>1, <3>2
  <2> QED BY <2>3, <2>4
<1> QED BY <1>6, <1>7 DEF LockInv, HoldersTook

(* The inductive invariant of the locks. *)
THEOREM LocksHold == StoreSpec => []LockInv
<1>1. StoreInit => LockInv
  <2> SUFFICES ASSUME StoreInit PROVE LockInv OBVIOUS
  <2>1. StoreTypeOK /\ \A u \in Uid \ OldUids : Docs(u) = {} BY InitStore
  <2>2. \A u : InStage("add", u) = {} /\ Holders(u) = {}
    BY DEF StoreInit, InStage, Holders
  <2>3. \A u \in Uid \ OldUids : Taken(u) = {} BY <2>1 DEF Taken
  <2>4. IsFiniteSet({}) /\ Cardinality({}) = 0 BY FS_EmptySet
  <2> QED BY <2>1, <2>2, <2>3, <2>4 DEF LockInv, NewHaveLock, HoldersTook
<1>2. StoreTypeOK /\ StoreTypeOK' /\ LockInv /\ [StoreNext]_storeVars => LockInv'
  <2> SUFFICES ASSUME StoreTypeOK, StoreTypeOK', LockInv, [StoreNext]_storeVars
               PROVE  LockInv'
    OBVIOUS
  <2>1. CASE UNCHANGED storeVars
    BY <2>1 DEF LockInv, NewHaveLock, HoldersTook, Taken, Docs, Holders, InStage, storeVars
  <2>2. CASE StoreNext
    BY <2>2, UnlockedSteps, InsertLock, AddLockLock, TakeLockLock, UnLockLock
    DEF StoreNext, LoginStep, LockStep
  <2> QED BY <2>1, <2>2
<1> QED BY <1>1, <1>2, StoreTypeCorrect, PTL DEF StoreSpec

(* The lock on a user that is not among the old ones has no more holders  *)
(* than the user has documents, whatever calls fail: the command that     *)
(* takes it asks for a free one (dao/user.go:211-215), and each holder    *)
(* frees one at most.                                                     *)
THEOREM LockHeldOnce == StoreSpec => []LockExclusive
<1>1. StoreTypeOK /\ LockInv => LockExclusive
  <2> SUFFICES ASSUME StoreTypeOK, LockInv, NEW u \in Uid \ OldUids
               PROVE  Cardinality(Holders(u)) <= Cardinality(Docs(u))
    BY DEF LockExclusive
  <2>1. /\ IsFiniteSet(Holders(u)) /\ Cardinality(Holders(u)) <= Cardinality(Taken(u))
    BY DEF LockInv, HoldersTook
  <2>2. IsFiniteSet(Docs(u)) /\ Taken(u) \in SUBSET Docs(u) BY DocsFinite DEF Taken
  <2>3. IsFiniteSet(Taken(u)) /\ Cardinality(Taken(u)) <= Cardinality(Docs(u))
    BY <2>2, FS_Subset
  <2>4. /\ Cardinality(Holders(u)) \in Nat /\ Cardinality(Taken(u)) \in Nat
        /\ Cardinality(Docs(u)) \in Nat
    BY <2>1, <2>2, <2>3, FS_CardinalityType
  <2> QED BY <2>1, <2>3, <2>4
<1> QED BY <1>1, StoreTypeCorrect, LocksHold, PTL

----------------------------------------------------------------------------
(* Bindings. *)

(* Steps outside of bindings, and ends of bindings that fail. *)
LEMMA BindFrame ==
  ASSUME StoreTypeOK, BindInv, NEW c \in Call, stage'[c] \notin BindStage,
         \A d \in Call \ {c} : stage'[d] = stage[d] /\ outcome'[d] = outcome[d],
         stage[c] # "done",
         outcome'[c] = outcome[c] \/ stage'[c] = "done",
         stage[c] \in BindStage => outcome'[c] = "error",
         DOMAIN users' = DOMAIN users, \A v : Docs(v)' = Docs(v),
         \A i \in DOMAIN users : users'[i].mobilePhone = users[i].mobilePhone,
         UNCHANGED <<phoneAccount, bindRace>>, loginRace \subseteq loginRace'
  PROVE  BindInv'
<1>1. outcome[c] = "none" BY DEF BindInv, ReturnedIsDone, StoreTypeOK
<1>2. BindsKnown' BY DEF BindInv, BindsKnown
<1>3. BindsApart' BY DEF BindInv, BindsApart
<1>4. PhoneStaysFree' BY DEF BindInv, PhoneStaysFree, IsBound, BindStage
<1>5. OnePhoneEach' BY DEF BindInv, OnePhoneEach
<1>6. PhoneHasUser' BY DEF BindInv, PhoneHasUser
<1>7. ReturnedIsDone' BY <1>1 DEF BindInv, ReturnedIsDone
<1>8. UserFollowsAccount'
  <2> SUFFICES ASSUME NEW u \in Uid \ (bindRace \union loginRace),
                      \A d \in BindsOf(u) : outcome'[d] # "error"
               PROVE  /\ \A d \in BindsOf(u) : stage'[d] = "user"
                                               => phoneAccount[u] = CallPhone[d]
                      /\ (\A d \in BindsOf(u) : stage'[d] # "user") =>
                             \A i \in Docs(u) : users'[i].mobilePhone = phoneAccount[u]
    BY DEF UserFollowsAccount, BindsOf
  <2>1. \A d \in BindsOf(u) : d \in Call /\ outcome[d] # "error"
    BY <1>1 DEF BindsOf
  <2>2. /\ \A d \in BindsOf(u) : stage[d] = "user" => phoneAccount[u] = CallPhone[d]
        /\ (\A d \in BindsOf(u) : stage[d] # "user") =>
               \A i \in Docs(u) : users[i].mobilePhone = phoneAccount[u]
    BY <2>1 DEF BindInv, UserFollowsAccount
  <2>3. \A d \in BindsOf(u) : stage'[d] = "user" <=> stage[d] = "user"
    BY <2>1 DEF BindStage
  <2> QED BY <2>2, <2>3 DEF Docs
<1> QED BY <1>2, <1>3, <1>4, <1>5, <1>6, <1>7, <1>8 DEF BindInv

LEMMA OtherBind ==
  ASSUME StoreTypeOK, BindInv, NEW c \in Call,
         \/ FindUserByUid(c) \/ LockStep(c) \/ UpdateField(c)
         \/ \E s \in Stages \ {"done"} : CommandFails(c, s)
  PROVE  BindInv'
<1>1. CallUid[c] \in Uid /\ CallPhone[c] \in Phone BY CallType
<1>2. /\ DOMAIN users' = DOMAIN users /\ \A v : Docs(v)' = Docs(v) BY KeepsDocs
<1>3. \A i \in DOMAIN users : users'[i].mobilePhone = users[i].mobilePhone
  <2>1. CASE users' = users BY <2>1
  <2>2. CASE UpdateField(c) BY <1>1, <2>2, SetRoom DEF UpdateField
  <2>3. ASSUME NEW i \in Docs(CallUid[c]), NEW lock \in {"free", "taken"},
               users' = [users EXCEPT ![i].syncLock = lock]
        PROVE  \A j \in DOMAIN users : users'[j].mobilePhone = users[j].mobilePhone
    BY <1>1, <2>3, SetLock
  <2>4. CASE AddLock(c) \/ UnLockUserData(c)
    <3>1. UpdateOne(CallUid[c], "syncLock", "free") BY <2>4 DEF AddLock, UnLockUserData
    <3> QED BY <1>1, <2>1, <2>3, <3>1, FreeLock
  <2>5. CASE TakeLock(c)
    <3>1. \/ users' = users
          \/ \E i \in Docs(CallUid[c]) : users' = [users EXCEPT ![i].syncLock = "taken"]
      BY <2>5 DEF TakeLock, FreeDocs
    <3> QED BY <2>1, <2>3, <3>1
  <2> QED BY <2>1, <2>2, <2>4, <2>5 DEF FindUserByUid, LockStep, CheckLock, CommandFails
<1>4. /\ phoneAccount' = phoneAccount /\ bindRace' = bindRace /\ loginRace \subseteq loginRace'
  BY DEF FindUserByUid, LockStep, CheckLock, AddLock, TakeLock, UnLockUserData, UpdateField,
         CommandFails
<1>5. PICK from \in Stages \ {"done"}, to \in Stages \ BindStage,
           what \in {"ok", "error", "refused"} :
         /\ \/ Continue(c, from, to)
            \/ to = "done" /\ Return(c, from, what)
         /\ from \in BindStage => Return(c, from, "error")
  BY DEF FindUserByUid, LockStep, CheckLock, AddLock, TakeLock, UnLockUserData, UpdateField,
         CommandFails, Stages, BindStage
<1>6. /\ stage[c] # "done" /\ stage'[c] \notin BindStage
      /\ \A d \in Call \ {c} : stage'[d] = stage[d] /\ outcome'[d] = outcome[d]
      /\ outcome'[c] = outcome[c] \/ stage'[c] = "done"
      /\ stage[c] \in BindStage => outcome'[c] = "error"
  BY <1>5 DEF StoreTypeOK, Continue, Return, Go
<1> QED BY <1>2, <1>3, <1>4, <1>6, BindFrame

LEMMA InsertBind ==
  ASSUME StoreTypeOK, OneInserter, BindInv, NEW c \in Call, Insert(c)
  PROVE  BindInv'
<1> DEFINE u == CallUid[c]
<1>1. u \in Uid BY CallType
<1>2. PICK new :
         /\ users'[new] = User(u, "free")
         /\ \A i \in DOMAIN users : users'[i] = users[i]
         /\ Docs(u)' = Docs(u) \union {new} /\ \A v : v # u => Docs(v)' = Docs(v)
  BY <1>1, AddUser DEF Insert
<1>3. PICK what \in {"ok", "error"} : Return(c, "insert", what) BY DEF Insert
<1>4. /\ stage[c] = "insert" /\ stage'[c] = "done"
      /\ \A d \in Call \ {c} : stage'[d] = stage[d] /\ outcome'[d] = outcome[d]
  BY <1>3, CallMoves DEF Stages
<1>5. UNCHANGED <<phoneAccount, loginRace, bindRace>> BY DEF Insert
<1>6. \A v : Docs(v) # {} => Docs(v)' # {} BY <1>2
<1>7. users'[new].mobilePhone = NoPhone BY <1>2 DEF User
<1>8. u \notin loginRace => Docs(u) = {} BY <1>1, <1>4 DEF OneInserter, InStage
<1> HIDE DEF u
<1>9. BindsKnown' BY <1>4, <1>6 DEF BindInv, BindsKnown, BindStage
<1>10. BindsApart' BY <1>4, <1>5 DEF BindInv, BindsApart, BindStage
<1>11. PhoneStaysFree' BY <1>4, <1>5 DEF BindInv, PhoneStaysFree, IsBound
<1>12. OnePhoneEach' BY <1>5 DEF BindInv, OnePhoneEach
<1>13. PhoneHasUser' BY <1>5, <1>6 DEF BindInv, PhoneHasUser
<1>14. ReturnedIsDone' BY <1>4 DEF BindInv, ReturnedIsDone
<1>15. UserFollowsAccount'
  <2> SUFFICES ASSUME NEW v \in Uid \ (bindRace \union loginRace),
                      \A d \in BindsOf(v) : outcome'[d] # "error"
               PROVE  /\ \A d \in BindsOf(v) : stage'[d] = "user"
                                               => phoneAccount[v] = CallPhone[d]
                      /\ (\A d \in BindsOf(v) : stage'[d] # "user") =>
                             \A i \in Docs(v)' : users'[i].mobilePhone = phoneAccount[v]
    BY <1>5 DEF UserFollowsAccount, BindsOf
  <2>1. \A d \in BindsOf(v) : d \in Call /\ (stage'[d] = "user" <=> stage[d] = "user")
    BY <1>4 DEF BindsOf
  <2>2. \A d \in BindsOf(v) : outcome[d] # "error"
    BY <1>4, <2>1 DEF BindInv, ReturnedIsDone
  <2>3. /\ \A d \in BindsOf(v) : stage[d] = "user" => phoneAccount[v] = CallPhone[d]
        /\ (\A d \in BindsOf(v) : stage[d] # "user") =>
               \A i \in Docs(v) : users[i].mobilePhone = phoneAccount[v]
    BY <2>2 DEF BindInv, UserFollowsAccount
  <2>4. CASE v = u
    <3>1. phoneAccount[v] = NoPhone /\ Docs(v)' = {new}
      BY <1>2, <1>8, <2>4 DEF BindInv, PhoneHasUser
    <3> QED BY <1>7, <2>1, <2>3, <3>1
  <2>5. CASE v # u
    <3>1. \A i \in Docs(v)' : i \in Docs(v) /\ users'[i] = users[i]
      BY <1>2, <2>5 DEF Docs
    <3> QED BY <2>1, <2>3, <3>1
  <2> QED BY <2>4, <2>5
<1> QED BY <1>9, <1>10, <1>11, <1>12, <1>13, <1>14, <1>15 DEF BindInv

LEMMA FindBind ==
  ASSUME StoreTypeOK, BindInv, NEW c \in Call, FindAccountByPhone(c)
  PROVE  BindInv'
<1>1. UNCHANGED <<users, phoneAccount, loginRace>> BY DEF FindAccountByPhone
<1>2. CASE IsBound(CallPhone[c])
  <2>1. Return(c, "new", "refused") /\ bindRace' = bindRace
    BY <1>2 DEF FindAccountByPhone
  <2>2. /\ stage[c] = "new" /\ stage'[c] = "done"
        /\ \A d \in Call \ {c} : stage'[d] = stage[d] /\ outcome'[d] = outcome[d]
    BY <2>1, CallMoves DEF Stages
  <2> QED BY <1>1, <2>1, <2>2, BindFrame DEF BindStage, Docs
<1>3. CASE ~IsBound(CallPhone[c])
  <2>1. /\ Continue(c, "new", "account") /\ bindRace' = bindRace \union RacesWith(c)
        /\ CallKind[c] = "bind" /\ Docs(CallUid[c]) # {}
    BY <1>3 DEF FindAccountByPhone
  <2>2. /\ stage[c] = "new" /\ stage'[c] = "account" /\ outcome' = outcome
        /\ \A d \in Call \ {c} : stage'[d] = stage[d]
    BY <2>1 DEF Continue, Go, StoreTypeOK
  <2>3. \A v : Docs(v)' = Docs(v) BY <1>1 DEF Docs
  <2>4. BindsKnown' BY <2>1, <2>2, <2>3 DEF BindInv, BindsKnown
  <2>5. ASSUME NEW d \in Call \ {c}, stage[d] \in BindStage
        PROVE  /\ CallPhone[d] = CallPhone[c] => CallPhone[c] \in RacesWith(c)
               /\ CallUid[d] = CallUid[c] => CallUid[c] \in RacesWith(c)
    <3>1. d \in Binding(c) BY <2>5 DEF BindInv, BindsKnown, Binding, BindStage
    <3> QED BY <3>1 DEF RacesWith
  <2>6. BindsApart' BY <2>1, <2>2, <2>5 DEF BindInv, BindsApart
  <2>7. PhoneStaysFree' BY <1>1, <1>3, <2>1, <2>2 DEF BindInv, PhoneStaysFree, IsBound
  <2>8. OnePhoneEach' BY <1>1, <2>1 DEF BindInv, OnePhoneEach
  <2>9. PhoneHasUser' BY <1>1, <2>3 DEF BindInv, PhoneHasUser
  <2>10. ReturnedIsDone' BY <2>2 DEF BindInv, ReturnedIsDone
  <2>11. UserFollowsAccount'
    BY <1>1, <2>1, <2>2, <2>3 DEF BindInv, UserFollowsAccount, BindsOf
  <2> QED BY <2>4, <2>6, <2>7, <2>8, <2>9, <2>10, <2>11 DEF BindInv
<1> QED BY <1>2, <1>3

LEMMA UpdateAccountBind ==
  ASSUME StoreTypeOK, BindInv, NEW c \in Call, UpdateAccountPhone(c)
  PROVE  BindInv'
<1> DEFINE u == CallUid[c]
           p == CallPhone[c]
<1>1. u \in Uid /\ p \in Phone /\ p # NoPhone BY CallType, CallAssumption
<1>2. /\ phoneAccount'[u] = p /\ \A v \in Uid \ {u} : phoneAccount'[v] = phoneAccount[v]
      /\ UNCHANGED <<users, loginRace, bindRace>> /\ \A v : Docs(v)' = Docs(v)
  BY <1>1 DEF UpdateAccountPhone, StoreTypeOK, Docs
<1>3. /\ stage[c] = "account"
      /\ \A d \in Call \ {c} : stage'[d] = stage[d] /\ outcome'[d] = outcome[d]
      /\ \/ stage'[c] = "user" /\ outcome'[c] = outcome[c]
         \/ stage'[c] = "done" /\ outcome'[c] = "error"
  BY DEF UpdateAccountPhone, Continue, Return, Go, StoreTypeOK
<1>4. /\ CallKind[c] = "bind" /\ Docs(u) # {} /\ outcome[c] = "none"
  BY <1>3 DEF BindInv, BindsKnown, ReturnedIsDone, BindStage
<1>5. \A d \in Call \ {c} : stage[d] \in BindStage =>
         /\ CallPhone[d] = p => p \in bindRace
         /\ CallUid[d] = u => u \in bindRace
  BY <1>3 DEF BindInv, BindsApart, BindStage
<1>6. p \notin bindRace => \A v \in Uid : phoneAccount[v] # p
  BY <1>3 DEF BindInv, PhoneStaysFree, IsBound
<1>7. c \in BindsOf(u) /\ \A v : v # u => c \notin BindsOf(v) BY <1>4 DEF BindsOf
<1>8. BindsKnown' BY <1>2, <1>3, <1>4 DEF BindInv, BindsKnown
<1>9. BindsApart' BY <1>2, <1>3 DEF BindInv, BindsApart, BindStage
<1>10. PhoneStaysFree'
  <2> SUFFICES ASSUME NEW d \in Call, stage'[d] = "account", CallPhone[d] \notin bindRace,
                      NEW v \in Uid, phoneAccount'[v] = CallPhone[d]
               PROVE  FALSE
    BY <1>2 DEF PhoneStaysFree, IsBound
  <2>1. d # c /\ stage[d] = "account" BY <1>3
  <2>2. CallPhone[d] # p BY <1>5, <2>1 DEF BindStage
  <2>3. phoneAccount[v] = CallPhone[d] BY <1>2, <2>2
  <2> QED BY <2>1, <2>3 DEF BindInv, PhoneStaysFree, IsBound
<1> HIDE DEF u, p
<1>11. OnePhoneEach' BY <1>1, <1>2, <1>6 DEF BindInv, OnePhoneEach
<1>12. PhoneHasUser' BY <1>2, <1>4 DEF BindInv, PhoneHasUser
<1>13. ReturnedIsDone' BY <1>3, <1>4 DEF BindInv, ReturnedIsDone
<1>14. UserFollowsAccount'
  <2> SUFFICES ASSUME NEW v \in Uid \ (bindRace \union loginRace),
                      \A d \in BindsOf(v) : outcome'[d] # "error"
               PROVE  /\ \A d \in BindsOf(v) : stage'[d] = "user"
                                               => phoneAccount'[v] = CallPhone[d]
                      /\ (\A d \in BindsOf(v) : stage'[d] # "user") =>
                             \A i \in Docs(v) : users[i].mobilePhone = phoneAccount'[v]
    BY <1>2 DEF UserFollowsAccount, BindsOf
  <2>1. \A d \in BindsOf(v) : d \in Call /\ CallUid[d] = v BY DEF BindsOf
  <2>2. CASE v = u
    <3>1. stage'[c] = "user" BY <1>3, <1>7, <2>2
    <3>2. \A d \in BindsOf(v) : stage'[d] = "user" => d = c
      BY <1>3, <1>5, <2>1, <2>2 DEF BindStage
    <3> QED BY <1>2, <1>7, <2>2, <3>1, <3>2 DEF p
  <2>3. CASE v # u
    <3>1. \A d \in BindsOf(v) : stage'[d] = stage[d] /\ outcome[d] # "error"
      BY <1>3, <1>7, <2>1, <2>3
    <3> QED BY <1>2, <2>3, <3>1 DEF BindInv, UserFollowsAccount
  <2> QED BY <2>2, <2>3
<1> QED BY <1>8, <1>9, <1>10, <1>11, <1>12, <1>13, <1>14 DEF BindInv

LEMMA UpdateUserBind ==
  ASSUME StoreTypeOK, OneInserter, BindInv, NEW c \in Call, UpdateUserPhone(c)
  PROVE  BindInv'
<1> DEFINE u == CallUid[c]
           p == CallPhone[c]
<1>1. u \in Uid /\ p \in Phone BY CallType
<1>2. /\ \A v : Docs(v)' = Docs(v)
      /\ \A i \in DOMAIN users \ Docs(u) : users'[i] = users[i]
      /\ Docs(u) # {} => \E i \in Docs(u) : users'[i].mobilePhone = p
  BY <1>1, SetPhone DEF UpdateUserPhone
<1>3. UNCHANGED <<phoneAccount, loginRace, bindRace>> BY DEF UpdateUserPhone
<1>4. PICK what \in {"ok", "error"} : Return(c, "user", what) BY DEF UpdateUserPhone
<1>5. /\ stage[c] = "user" /\ stage'[c] = "done"
      /\ \A d \in Call \ {c} : stage'[d] = stage[d] /\ outcome'[d] = outcome[d]
  BY <1>4, CallMoves DEF Stages
<1>6. /\ CallKind[c] = "bind" /\ Docs(u) # {} /\ outcome[c] = "none"
  BY <1>5 DEF BindInv, BindsKnown, ReturnedIsDone, BindStage
<1>7. \A d \in Call \ {c} : stage[d] \in BindStage /\ CallUid[d] = u => u \in bindRace
  BY <1>5 DEF BindInv, BindsApart, BindStage
<1>8. c \in BindsOf(u) /\ \A v : v # u => c \notin BindsOf(v) BY <1>6 DEF BindsOf
<1>9. BindsKnown' BY <1>2, <1>5 DEF BindInv, BindsKnown, BindStage
<1>10. BindsApart' BY <1>3, <1>5 DEF BindInv, BindsApart, BindStage
<1>11. PhoneStaysFree' BY <1>3, <1>5 DEF BindInv, PhoneStaysFree, IsBound
<1>12. OnePhoneEach' BY <1>3 DEF BindInv, OnePhoneEach
<1>13. PhoneHasUser' BY <1>2, <1>3 DEF BindInv, PhoneHasUser
<1>14. ReturnedIsDone' BY <1>5 DEF BindInv, ReturnedIsDone
<1>15. UserFollowsAccount'
  <2> SUFFICES ASSUME NEW v \in Uid \ (bindRace \union loginRace),
                      \A d \in BindsOf(v) : outcome'[d] # "error"
               PROVE  /\ \A d \in BindsOf(v) : stage'[d] = "user"
                                               => phoneAccount[v] = CallPhone[d]
                      /\ (\A d \in BindsOf(v) : stage'[d] # "user") =>
                             \A i \in Docs(v) : users'[i].mobilePhone = phoneAccount[v]
    BY <1>2, <1>3 DEF UserFollowsAccount, BindsOf
  <2>1. \A d \in BindsOf(v) : d \in Call /\ CallUid[d] = v /\ outcome[d] # "error"
    BY <1>5, <1>6 DEF BindsOf
  <2>2. /\ \A d \in BindsOf(v) : stage[d] = "user" => phoneAccount[v] = CallPhone[d]
        /\ (\A d \in BindsOf(v) : stage[d] # "user") =>
               \A i \in Docs(v) : users[i].mobilePhone = phoneAccount[v]
    BY <2>1 DEF BindInv, UserFollowsAccount
  <2>3. CASE v = u
    <3>1. phoneAccount[v] = p BY <1>5, <1>8, <2>2, <2>3
    <3>2. \A i, j \in Docs(v) : i = j BY DEF OneInserter
    <3>3. \A i \in Docs(v) : users'[i].mobilePhone = p BY <1>2, <1>6, <2>3, <3>2
    <3>4. \A d \in BindsOf(v) : stage'[d] # "user"
      BY <1>5, <1>7, <2>1, <2>3 DEF BindStage
    <3> QED BY <3>1, <3>3, <3>4
  <2>4. CASE v # u
    <3>1. \A d \in BindsOf(v) : stage'[d] = stage[d] BY <1>5, <1>8, <2>1, <2>4
    <3>2. \A i \in Docs(v) : users'[i] = users[i] BY <1>2, <2>4 DEF Docs
    <3> QED BY <2>2, <3>1, <3>2
  <2> QED BY <2>3, <2>4
<1> QED BY <1>9, <1>10, <1>11, <1>12, <1>13, <1>14, <1>15 DEF BindInv

(* The inductive invariant of the bindings. *)
THEOREM BindingsHold == StoreSpec => []BindInv
<1>1. StoreInit => BindInv
  <2> SUFFICES ASSUME StoreInit PROVE BindInv OBVIOUS
  <2>1. \A i \in DOMAIN users : users[i].mobilePhone = NoPhone BY InitStore DEF User
  <2>2. /\ \A u \in Uid : phoneAccount[u] = NoPhone
        /\ \A c \in Call : stage[c] = "new" /\ outcome[c] = "none"
    BY DEF StoreInit
  <2>3. \A u : BindsOf(u) \subseteq Call /\ Docs(u) \subseteq DOMAIN users
    BY DEF BindsOf, Docs
  <2>4. UserFollowsAccount BY <2>1, <2>2, <2>3 DEF UserFollowsAccount
  <2> QED
    BY <2>2, <2>4 DEF BindInv, BindsKnown, BindsApart, PhoneStaysFree, OnePhoneEach,
                      PhoneHasUser, ReturnedIsDone, BindStage
<1>2. StoreTypeOK /\ OneInserter /\ BindInv /\ [StoreNext]_storeVars => BindInv'
  <2> SUFFICES ASSUME StoreTypeOK, OneInserter, BindInv, [StoreNext]_storeVars PROVE BindInv'
    OBVIOUS
  <2>1. CASE UNCHANGED storeVars
    BY <2>1 DEF BindInv, BindsKnown, BindsApart, PhoneStaysFree, OnePhoneEach, IsBound,
       PhoneHasUser, ReturnedIsDone, UserFollowsAccount, BindsOf, Docs, storeVars
  <2>2. CASE StoreNext
    BY <2>2, OtherBind, InsertBind, FindBind, UpdateAccountBind, UpdateUserBind
    DEF StoreNext, LoginStep, BindStep
  <2> QED BY <2>1, <2>2
<1> QED BY <1>1, <1>2, StoreTypeCorrect, OneInserterHolds, PTL DEF StoreSpec

(* A phone belongs to one account unless bindings of it overlapped, and an  *)
(* account and its user have the same phone unless a binding of the user is *)
(* under way, has failed half way (service/user.go:108), or overlapped: the *)
(* check that the phone is free and the two writes are three commands.      *)
THEOREM BindingsMatch == StoreSpec => []BindingsAgree
<1>1. StoreTypeOK /\ BindInv => BindingsAgree
  <2> SUFFICES ASSUME StoreTypeOK, BindInv, NEW u \in Uid \ (bindRace \union loginRace),
                      \A c \in BindsOf(u) : ~Unfinished(c)
               PROVE  \A i \in Docs(u) : users[i].mobilePhone = phoneAccount[u]
    BY DEF BindingsAgree, BindInv, OnePhoneEach
  <2>1. \A c \in BindsOf(u) : outcome[c] # "error" /\ stage[c] # "user" BY DEF Unfinished
  <2> QED BY <2>1 DEF BindInv, UserFollowsAccount
<1> QED BY <1>1, StoreTypeCorrect, BindingsHold, PTL
=============================================================================
