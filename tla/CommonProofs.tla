---------------------------- MODULE CommonProofs ----------------------------
(***************************************************************************)
(* Theorems about RateLimit and LogCutter, the parts of src/common with    *)
(* state: for every rate, burst and resolution of the clock; for every     *)
(* number of levels and of calls, and every retention.                     *)
(***************************************************************************)
EXTENDS RateLimit, LogCutter, FiniteSetTheorems, WellFoundedInduction, TLAPS

-----------------------------------------------------------------------------
(* RateLimit: the requests of a window. *)

(* What has passed since s, and what is left in the bucket, came out of a  *)
(* full bucket and the refills since s; after the last refill nothing has  *)
(* passed.                                                                 *)
RefillsCover ==
    \A s \in 0..clock :
        /\ s <= lastRefill =>
             Second * (passed - before[s]) + tokens <= peak + topRate * (lastRefill - s)
        /\ s > lastRefill => before[s] = passed

LimiterInv == /\ LimiterTypeOK
              /\ rate <= topRate /\ capacity <= peak /\ tokens <= peak
              /\ RefillsCover

----------------------------------------------------------------------------
(* Products: the provers multiply constants only. *)

LEMMA TimesMonotone ==
    ASSUME NEW a \in Nat, NEW b \in Nat, NEW c \in Nat, a <= b
    PROVE  a * c \in Nat /\ b * c \in Nat /\ a * c <= b * c
<1>1. a * c \in Nat /\ b * c \in Nat /\ (b - a) * c \in Nat OBVIOUS
<1>2. (b - a) * c = b * c - a * c OBVIOUS
<1> QED BY <1>1, <1>2

LEMMA TimesSplit ==
    ASSUME NEW a \in Int, NEW b \in Int, NEW c \in Int
    PROVE  a * (b + c) = a * b + a * c
OBVIOUS

(* A bucket that is refilled stays within the peak and gets no more than   *)
(* the highest rate brings.                                                *)
LEMMA RefillBounds ==
    ASSUME LimiterInv
    PROVE  /\ Refilled \in Nat
           /\ Refilled <= peak
           /\ Refilled <= tokens + topRate * (clock - lastRefill)
<1> DEFINE p == rate * (clock - lastRefill)
           q == topRate * (clock - lastRefill)
<1>1. /\ clock - lastRefill \in Nat /\ rate \in Nat /\ topRate \in Nat
      /\ rate <= topRate
      /\ tokens \in Nat /\ capacity \in Nat /\ peak \in Nat
      /\ tokens <= peak /\ capacity <= peak
  BY LimiterAssumption DEF LimiterInv, LimiterTypeOK
<1>2. p \in Nat /\ q \in Nat /\ p <= q
  BY <1>1, TimesMonotone
<1>3. Refilled = IF tokens < capacity THEN Lower(capacity, tokens + p) ELSE tokens
  <2>1. (clock - lastRefill) * rate = p BY <1>1
  <2> QED BY <2>1 DEF Refilled
<1>4. Refilled \in Nat /\ Refilled <= peak /\ Refilled <= tokens + q
  <2> HIDE DEF p, q
  <2> QED BY <1>1, <1>2, <1>3 DEF Lower
<1> QED BY <1>4

----------------------------------------------------------------------------
LEMMA InitLimiter == LimiterInit => LimiterInv
<1> SUFFICES ASSUME NEW r \in Rates, NEW b \in Bursts, NewRateLimiter(r, b)
             PROVE  LimiterInv
  BY DEF LimiterInit
<1>1. b * r * Second \in Nat BY LimiterAssumption
<1>2. LimiterTypeOK
  BY <1>1, LimiterAssumption DEF NewRateLimiter, LimiterTypeOK
<1>3. RefillsCover
  BY <1>1, <1>2, LimiterAssumption DEF NewRateLimiter, LimiterTypeOK, RefillsCover
<1> QED BY <1>1, <1>2, <1>3, LimiterAssumption DEF NewRateLimiter, LimiterInv

LEMMA StepAllow == LimiterInv /\ Allow => LimiterInv'
<1> SUFFICES ASSUME LimiterInv, Allow PROVE LimiterInv'
  OBVIOUS
<1>1. /\ Refilled \in Nat /\ Refilled <= peak
      /\ Refilled <= tokens + topRate * (clock - lastRefill)
  BY RefillBounds
<1>2. LimiterTypeOK'
  <2>1. tokens' \in Nat /\ passed' \in 0..MaxPassed
    BY <1>1, LimiterAssumption DEF Allow, Enough, LimiterInv, LimiterTypeOK
  <2> QED BY <2>1 DEF Allow, LimiterInv, LimiterTypeOK
<1>3. (rate <= topRate /\ capacity <= peak /\ tokens <= peak)'
  BY <1>1, LimiterAssumption DEF Allow, LimiterInv, LimiterTypeOK
<1>4. ASSUME NEW s \in 0..clock
      PROVE  Second * (passed' - before[s]) + tokens' <= peak + topRate * (clock - s)
  <2> DEFINE n == passed - before[s]
  <2>1. /\ n \in Int /\ Second \in Nat /\ topRate \in Nat /\ peak \in Nat
        /\ s \in Nat /\ clock \in Nat /\ lastRefill \in Nat /\ tokens \in Nat
        /\ lastRefill <= clock /\ s <= clock
    BY LimiterAssumption DEF LimiterInv, LimiterTypeOK
  <2>2. Second * (passed' - before[s]) + tokens' = Second * n + Refilled
    <3>1. CASE Enough
      <4>1. passed' - before[s] = n + 1
        <5>1. passed' = passed + 1 /\ passed \in Nat /\ before[s] \in Nat
          BY <3>1, LimiterAssumption DEF Allow, LimiterInv, LimiterTypeOK
        <5> QED BY <5>1
      <4>2. Second * (n + 1) = Second * n + Second * 1
        BY <2>1, TimesSplit
      <4>3. Second * n \in Int BY <2>1
      <4> HIDE DEF n
      <4> QED BY <1>1, <2>1, <3>1, <4>1, <4>2, <4>3 DEF Allow
    <3>2. CASE ~Enough
      BY <3>2 DEF Allow
    <3> QED BY <3>1, <3>2
  <2>3. CASE s <= lastRefill
    <3>1. Second * n + tokens <= peak + topRate * (lastRefill - s)
      BY <2>1, <2>3 DEF LimiterInv, RefillsCover
    <3>2. topRate * ((lastRefill - s) + (clock - lastRefill))
            = topRate * (lastRefill - s) + topRate * (clock - lastRefill)
      BY <2>1, TimesSplit
    <3>3. (lastRefill - s) + (clock - lastRefill) = clock - s
      BY <2>1
    <3>4. /\ Second * n \in Int /\ topRate * (lastRefill - s) \in Int
          /\ topRate * (clock - lastRefill) \in Int
      BY <2>1
    <3>5. topRate * (clock - s)
            = topRate * (lastRefill - s) + topRate * (clock - lastRefill)
      BY <3>2, <3>3
    <3>6. topRate * (clock - s) \in Int BY <2>1
    <3> DEFINE x == Second * n
               y == topRate * (lastRefill - s)
               z == topRate * (clock - lastRefill)
               w == topRate * (clock - s)
    <3>7. x + tokens <= peak + y /\ w = y + z /\ Refilled <= tokens + z
      BY <1>1, <3>1, <3>5
    <3>8. x \in Int /\ y \in Int /\ z \in Int /\ w \in Int BY <3>4, <3>6
    <3> HIDE DEF n, x, y, z, w
    <3>9. x + Refilled <= peak + w BY <1>1, <2>1, <3>7, <3>8
    <3> QED BY <2>2, <3>9 DEF x, w
  <2>4. CASE s > lastRefill
    <3>1. Second * n = 0
      <4>1. passed = before[s] /\ passed \in Nat
        BY <2>1, <2>4 DEF LimiterInv, LimiterTypeOK, RefillsCover
      <4>2. n = 0 BY <4>1
      <4> QED BY <2>1, <4>2
    <3>2. topRate * (clock - s) \in Nat BY <2>1
    <3> DEFINE w == topRate * (clock - s)
    <3> HIDE DEF n, w
    <3>3. Refilled <= peak + w BY <1>1, <2>1, <3>2 DEF w
    <3> QED BY <1>1, <2>2, <3>1, <3>3 DEF w
  <2> QED BY <2>1, <2>3, <2>4
<1>5. RefillsCover'
  <2>1. clock' = clock /\ lastRefill' = clock /\ before' = before
        /\ peak' = peak /\ topRate' = topRate
    BY DEF Allow
  <2>2. \A s \in 0..clock : s <= clock /\ ~(s > clock)
    BY LimiterAssumption DEF LimiterInv, LimiterTypeOK
  <2> QED BY <1>4, <2>1, <2>2 DEF RefillsCover
<1> QED BY <1>2, <1>3, <1>5 DEF LimiterInv

LEMMA StepPass == LimiterInv /\ Pass => LimiterInv'
<1> SUFFICES ASSUME LimiterInv, Pass PROVE LimiterInv'
  OBVIOUS
<1>1. LimiterTypeOK'
  BY LimiterAssumption DEF Pass, LimiterInv, LimiterTypeOK
<1>2. ASSUME NEW s \in 0..clock' PROVE (s = clock + 1 /\ before'[s] = passed)
                                       \/ (s \in 0..clock /\ before'[s] = before[s])
  BY LimiterAssumption DEF Pass, LimiterInv, LimiterTypeOK
<1>3. lastRefill \in Nat /\ clock \in Nat /\ lastRefill <= clock
  BY LimiterAssumption DEF LimiterInv, LimiterTypeOK
<1>4. RefillsCover'
  <2> SUFFICES ASSUME NEW s \in 0..clock'
               PROVE  /\ s <= lastRefill => Second * (passed - before'[s]) + tokens
                                              <= peak + topRate * (lastRefill - s)
                      /\ s > lastRefill => before'[s] = passed
    BY DEF Pass, RefillsCover
  <2>1. CASE s = clock + 1 /\ before'[s] = passed
    BY <1>3, <2>1
  <2>2. CASE s \in 0..clock /\ before'[s] = before[s]
    BY <2>2 DEF LimiterInv, RefillsCover
  <2> QED BY <1>2, <2>1, <2>2
<1> QED BY <1>1, <1>4 DEF Pass, LimiterInv

LEMMA StepSetRate == LimiterInv /\ (\E r \in Rates : SetRate(r)) => LimiterInv'
<1> SUFFICES ASSUME LimiterInv, NEW r \in Rates, SetRate(r) PROVE LimiterInv'
  OBVIOUS
<1>1. LimiterTypeOK' /\ topRate \in Nat /\ topRate' \in Nat /\ topRate <= topRate'
      /\ rate' <= topRate'
  BY LimiterAssumption DEF SetRate, Higher, LimiterInv, LimiterTypeOK
<1>2. ASSUME NEW s \in 0..clock, s <= lastRefill
      PROVE  Second * (passed - before[s]) + tokens <= peak + topRate' * (lastRefill - s)
  <2>1. lastRefill - s \in Nat
    BY <1>2, LimiterAssumption DEF LimiterInv, LimiterTypeOK
  <2>2. /\ topRate * (lastRefill - s) \in Nat /\ topRate' * (lastRefill - s) \in Nat
        /\ topRate * (lastRefill - s) <= topRate' * (lastRefill - s)
    BY <1>1, <2>1, TimesMonotone
  <2>3. Second * (passed - before[s]) \in Int
    BY LimiterAssumption DEF LimiterInv, LimiterTypeOK
  <2>4. Second * (passed - before[s]) + tokens <= peak + topRate * (lastRefill - s)
    BY <1>2 DEF LimiterInv, RefillsCover
  <2>5. tokens \in Nat /\ peak \in Nat BY DEF LimiterInv, LimiterTypeOK
  <2> QED BY <2>2, <2>3, <2>4, <2>5
<1>3. RefillsCover'
  BY <1>2 DEF SetRate, LimiterInv, RefillsCover
<1> QED BY <1>1, <1>3 DEF SetRate, LimiterInv

LEMMA StepSetBurst == LimiterInv /\ (\E b \in Bursts : SetBurst(b)) => LimiterInv'
<1> SUFFICES ASSUME LimiterInv, NEW b \in Bursts, SetBurst(b) PROVE LimiterInv'
  OBVIOUS
<1>1. /\ capacity' \in Nat /\ Grown(b) \in Nat /\ capacity' <= capacity + Grown(b)
      /\ capacity \in Nat /\ tokens \in Nat /\ peak \in Nat
  <2>1. capacity \in Nat /\ tokens \in Nat /\ peak \in Nat /\ rate \in Nat
    BY LimiterAssumption DEF LimiterInv, LimiterTypeOK
  <2> DEFINE new == b * rate * Second
  <2>2. new \in Nat BY <2>1, LimiterAssumption
  <2>3. Grown(b) = IF new > capacity THEN new - capacity ELSE 0 BY DEF Grown
  <2>4. capacity' = new BY DEF SetBurst
  <2> HIDE DEF new
  <2> QED BY <2>1, <2>2, <2>3, <2>4
<1>2. tokens' = tokens + Grown(b) /\ peak' = peak + Grown(b) BY DEF SetBurst
<1>3. LimiterTypeOK'
  BY <1>1, <1>2 DEF SetBurst, LimiterInv, LimiterTypeOK
<1>4. RefillsCover'
  <2>1. ASSUME NEW s \in 0..clock, s <= lastRefill
        PROVE  Second * (passed - before[s]) + tokens' <= peak' + topRate * (lastRefill - s)
    <3>1. Second * (passed - before[s]) \in Int /\ topRate * (lastRefill - s) \in Int
      BY LimiterAssumption DEF LimiterInv, LimiterTypeOK
    <3>2. Second * (passed - before[s]) + tokens <= peak + topRate * (lastRefill - s)
      BY <2>1 DEF LimiterInv, RefillsCover
    <3> QED BY <1>1, <1>2, <3>1, <3>2
  <2> QED BY <2>1 DEF SetBurst, LimiterInv, RefillsCover
<1> QED BY <1>1, <1>2, <1>3, <1>4 DEF SetBurst, LimiterInv

LEMMA StepLimiter == LimiterInv /\ [LimiterNext]_limiterVars => LimiterInv'
<1>1. CASE UNCHANGED limiterVars
  BY <1>1 DEF limiterVars, LimiterInv, LimiterTypeOK, RefillsCover
<1> QED BY <1>1, StepAllow, StepPass, StepSetRate, StepSetBurst DEF LimiterNext

LEMMA WithinWindow == LimiterInv => WindowBound
<1> SUFFICES ASSUME LimiterInv, NEW s \in 0..clock
             PROVE  Second * (passed - before[s]) <= peak + topRate * (clock - s)
  BY DEF WindowBound
<1>1. /\ Second \in Nat /\ topRate \in Nat /\ peak \in Nat /\ tokens \in Nat
      /\ s \in Nat /\ clock \in Nat /\ lastRefill \in Nat /\ s <= clock
      /\ lastRefill <= clock /\ passed - before[s] \in Int
  BY LimiterAssumption DEF LimiterInv, LimiterTypeOK
<1>2. Second * (passed - before[s]) \in Int /\ topRate * (clock - s) \in Nat
  BY <1>1
<1>3. CASE s <= lastRefill
  <2>1. Second * (passed - before[s]) + tokens <= peak + topRate * (lastRefill - s)
    BY <1>3 DEF LimiterInv, RefillsCover
  <2>2. lastRefill - s \in Nat /\ clock - s \in Nat /\ lastRefill - s <= clock - s
    BY <1>1, <1>3
  <2>3. /\ (lastRefill - s) * topRate \in Nat
        /\ (lastRefill - s) * topRate <= (clock - s) * topRate
    BY <1>1, <2>2, TimesMonotone
  <2>4. /\ (lastRefill - s) * topRate = topRate * (lastRefill - s)
        /\ (clock - s) * topRate = topRate * (clock - s)
    BY <1>1
  <2> QED BY <1>1, <1>2, <2>1, <2>3, <2>4
<1>4. CASE s > lastRefill
  <2>1. passed - before[s] = 0
    BY <1>4 DEF LimiterInv, LimiterTypeOK, RefillsCover
  <2> QED BY <1>1, <1>2, <2>1
<1> QED BY <1>1, <1>3, <1>4

(* Every variable of the limiter has its type, for all rates and bursts.   *)
THEOREM LimiterTypes == LimiterSpec => []LimiterTypeOK
<1>1. LimiterInv => LimiterTypeOK BY DEF LimiterInv
<1> QED BY InitLimiter, StepLimiter, <1>1, PTL DEF LimiterSpec

(* Whatever the requests and the changes of rate and burst (Allow, SetRate,*)
(* SetBurst), no window of time lets more pass than the bucket, all that   *)
(* SetBurst added included, and what the highest rate brings in it.        *)
THEOREM WindowsAreBounded == LimiterSpec => []WindowBound
BY InitLimiter, StepLimiter, WithinWindow, PTL DEF LimiterSpec

-----------------------------------------------------------------------------
(* LogCutter: the folders and files of the log. *)

(* A day begins, and a folder that was last changed on it or before has    *)
(* been kept long enough when the days to retain have passed as well.      *)
FirstTick(d) == d * DayTicks
Retention == RetentionDay * DayTicks
TooOld(d) == RetentionDay > 0 /\ FirstTick(d) + Retention < tick

(* The calls whose message would be lost if nothing more was removed.      *)
Endangered(l) ==
    /\ ~In(l, "idle")
    /\ \/ write[l].director \notin folders \/ ~(write[l].unseen \subseteq folders)
       \/ /\ In(l, "entries")
          /\ \E k \in write[l].names : <<First(write[l].unseen), k>> \notin logFiles
AtRisk == {l \in Levels : Endangered(l)}

(* A folder removed pays for the call that removes it and for those it     *)
(* endangers; a call that fails was endangered, or removes a folder.       *)
LossesPaid == lost + Cardinality(AtRisk) <= removed * Cardinality(Levels)

(* Names are read only by a walk, and only if folders are removed at all.  *)
Walking(l) == write[l].step \in {"walk", "old", "kept", "remove", "entries"}
InFolder(l) == write[l].step \in {"old", "kept", "remove", "entries"}
ToRemove(l) == In(l, "old") \/ In(l, "remove")
WalksRead ==
    \A l \in Levels :
        /\ write[l].unseen # {} => RetentionDay > 0 /\ Walking(l)
        /\ InFolder(l) => write[l].unseen # {}
        /\ ToRemove(l) => TooOld(First(write[l].unseen))

FoldersDated == \A d \in folders : FirstTick(d) <= modTime[d]
WritesDated ==
    \A l \in Levels :
        /\ FirstTick(write[l].director) <= tick
        /\ Walking(l) => write[l].cutoff <= tick - Retention

FilesInFolders == \A f \in logFiles : f[1] \in folders
WrittenKept == \A f \in written : f \in logFiles \/ TooOld(f[1])

CutterInv ==
    /\ LossesPaid
    /\ WalksRead
    /\ FoldersDated
    /\ WritesDated
    /\ FilesInFolders
    /\ WrittenKept

----------------------------------------------------------------------------
(* Numbers and finite sets. *)

(* The quotient is the last multiple. *)
LEMMA LastMultiple ==
  ASSUME NEW a \in Nat, NEW b \in Nat \ {0}
  PROVE  /\ a \div b \in Nat /\ (a \div b) * b <= a /\ a < (a \div b + 1) * b
  OBVIOUS

LEMMA QuotientGrows ==
  ASSUME NEW a \in Nat, NEW b \in Nat \ {0}, NEW c \in Nat, a <= c
  PROVE  a \div b <= c \div b
<1> DEFINE p == a \div b
<1> DEFINE q == c \div b
<1>1. p \in Nat /\ p * b <= a  BY LastMultiple
<1>2. q \in Nat /\ c < (q + 1) * b  BY LastMultiple
<1>3. p * b < (q + 1) * b  BY <1>1, <1>2
<1> HIDE DEF p, q
<1>4. SUFFICES ASSUME q + 1 <= p PROVE FALSE  BY <1>1, <1>2 DEF p, q
<1>5. (q + 1) * b <= p * b  BY <1>1, <1>2, <1>4
<1>6. QED  BY <1>1, <1>2, <1>3, <1>5

(* A set of numbers has a first one. *)
LEMMA FirstIsIn ==
  ASSUME NEW S \in SUBSET Nat, S # {}
  PROVE  First(S) \in S /\ \A e \in S : First(S) <= e
<1>1. PICK x \in S : \A y \in S : ~(<<y, x>> \in OpToRel(<, Nat))
  BY NatLessThanWellFounded, WFMin
<1>2. ASSUME NEW y \in S PROVE x <= y
  <2>1. x \in Nat /\ y \in Nat  OBVIOUS
  <2>2. <<y, x>> \notin OpToRel(<, Nat)  BY <1>1
  <2>3. ~(y < x)  BY <2>1, <2>2 DEF OpToRel
  <2>4. QED  BY <2>1, <2>3
<1>3. QED  BY <1>1, <1>2 DEF First

(* A product with a sum, for the days that have passed. *)
LEMMA TimesAdd ==
  ASSUME NEW a \in Int, NEW b \in Int, NEW c \in Int
  PROVE  (a + b) * c = a * c + b * c
  OBVIOUS

----------------------------------------------------------------------------
(* Types. *)

LEMMA TodayIsDay ==
  ASSUME CutterTypeOK
  PROVE  Today \in Days /\ FirstTick(Today) <= tick
<1>1. tick \in Nat /\ MaxTick \in Nat /\ DayTicks \in Nat \ {0} /\ tick <= MaxTick
  BY CutterAssumption DEF CutterTypeOK
<1>2. Today \in Nat /\ Today * DayTicks <= tick  BY <1>1, LastMultiple DEF Today
<1>3. MaxTick \div DayTicks \in Nat  BY <1>1, LastMultiple
<1>4. Today <= MaxTick \div DayTicks  BY <1>1, QuotientGrows DEF Today
<1>5. QED  BY <1>2, <1>3, <1>4 DEF Days, FirstTick

LEMMA DaysAreNumbers == Days \subseteq Nat
<1>1. MaxTick \div DayTicks \in Nat  BY CutterAssumption, LastMultiple
<1>2. QED  BY <1>1 DEF Days

LEMMA BeginsAreNumbers ==
  /\ \A d \in Days : FirstTick(d) \in Nat
  /\ Retention \in Int
  BY CutterAssumption, DaysAreNumbers DEF FirstTick, Retention

WriteCall == [step : {"idle", "made", "walk", "old", "kept", "remove", "entries"},
              director : Days, unseen : SUBSET Days, cutoff : Int,
              names : SUBSET Levels]

(* A step of one call changes that call. *)
LEMMA CallUpdated ==
  ASSUME CutterTypeOK, NEW l \in Levels, NEW c \in WriteCall,
         write' = [write EXCEPT ![l] = c]
  PROVE  write' \in [Levels -> WriteCall]
  BY DEF CutterTypeOK, WriteCall

LEMMA InitTypes == CutterInit => CutterTypeOK
<1>1. MaxTick \div DayTicks \in Nat  BY CutterAssumption, LastMultiple
<1>2. QED  BY <1>1, CutterAssumption DEF CutterInit, CutterTypeOK, Days, Idle

LEMMA LoseTypes ==
  ASSUME CutterTypeOK, NEW l \in Levels, Lose(l)
  PROVE  write' \in [Levels -> WriteCall] /\ lost' \in Nat
<1>1. Idle \in WriteCall  BY CutterAssumption, LastMultiple DEF Idle, WriteCall, Days
<1>2. write \in [Levels -> WriteCall] /\ lost \in Nat  BY DEF CutterTypeOK, WriteCall
<1>3. QED  BY <1>1, <1>2 DEF Lose

LEMMA TypeStep ==
  ASSUME CutterTypeOK, [CutterNext]_cutterVars
  PROVE  CutterTypeOK'
<1> USE CutterAssumption DEF CutterTypeOK
<1>0. 0 \in Days  BY LastMultiple DEF Days
<1>1. CASE Elapse
  BY <1>1 DEF Elapse, disk
<1>2. ASSUME NEW l \in Levels, MakeFolder(l) PROVE CutterTypeOK'
  <2>1. Today \in Days  BY TodayIsDay
  <2>2. write' \in [Levels -> WriteCall]
    <3> DEFINE c == [write[l] EXCEPT !.step = "made", !.director = Today]
    <3>0. write[l] \in WriteCall  BY DEF WriteCall
    <3>1. c \in WriteCall  BY <2>1, <3>0 DEF WriteCall
    <3>2. write' = [write EXCEPT ![l] = c]  BY <1>2 DEF MakeFolder
    <3> HIDE DEF c
    <3>3. QED  BY <3>1, <3>2, CallUpdated
  <2>3. modTime' \in [Days -> 0..MaxTick]
    BY <1>2, <2>1 DEF MakeFolder
  <2>4. folders' \subseteq Days  BY <1>2, <2>1 DEF MakeFolder
  <2>5. writes' \in 0..MaxLogs  BY <1>2 DEF MakeFolder
  <2>6. QED  BY <1>2, <2>2, <2>3, <2>4, <2>5 DEF MakeFolder, past, WriteCall
<1>3. ASSUME NEW l \in Levels, StartWalk(l) PROVE CutterTypeOK'
  <2>1. Cutoff \in Int  BY DEF Cutoff
  <2>2. write' \in [Levels -> WriteCall]
    <3> DEFINE names == IF RetentionDay <= 0 THEN {} ELSE folders
    <3>1. names \in SUBSET Days  OBVIOUS
    <3>2. write' = [write EXCEPT ![l].step = "walk", ![l].cutoff = Cutoff,
                     ![l].unseen = names]
      BY <1>3 DEF StartWalk
    <3> HIDE DEF names
    <3>3. write[l] \in WriteCall  BY DEF WriteCall
    <3>4. [write[l] EXCEPT !.step = "walk", !.cutoff = Cutoff, !.unseen = names] \in WriteCall
      BY <2>1, <3>1, <3>3 DEF WriteCall
    <3>5. write' = [write EXCEPT ![l] =
                      [write[l] EXCEPT !.step = "walk", !.cutoff = Cutoff, !.unseen = names]]
      BY <3>2
    <3>6. QED  BY <3>4, <3>5 DEF WriteCall
  <2>3. QED  BY <1>3, <2>2 DEF StartWalk, past, disk, WriteCall
<1>4. ASSUME NEW l \in Levels, Visit(l) \/ ReadNames(l) \/ LookUp(l)
      PROVE  CutterTypeOK'
  <2> DEFINE d == First(write[l].unseen)
  <2>1. write' \in [Levels -> WriteCall] /\ lost' \in Nat
    <3>0. write[l] \in WriteCall  BY DEF WriteCall
    <3>1. CASE Lose(l)  BY <3>1, LoseTypes
    <3>2. CASE Visit(l) /\ ~Lose(l)
      <4>1. PICK step \in {"old", "kept"} :
              write' = [write EXCEPT ![l] = [write[l] EXCEPT !.step = step]]
        BY <3>2 DEF Visit
      <4>2. [write[l] EXCEPT !.step = step] \in WriteCall  BY DEF WriteCall
      <4>3. lost' = lost  BY <3>2 DEF Visit
      <4>4. QED  BY <4>1, <4>2, <4>3, CallUpdated
    <3>3. CASE ReadNames(l) /\ ~Lose(l)
      <4> DEFINE found == {k \in Levels : <<d, k>> \in logFiles}
      <4>1. PICK step \in {"remove", "entries"} :
              write' = [write EXCEPT ![l] =
                          [write[l] EXCEPT !.step = step, !.names = found]]
        BY <3>3 DEF ReadNames
      <4>2. found \in SUBSET Levels  OBVIOUS
      <4> HIDE DEF found
      <4>3. [write[l] EXCEPT !.step = step, !.names = found] \in WriteCall
        BY <3>0, <4>2 DEF WriteCall
      <4>4. lost' = lost  BY <3>3 DEF ReadNames
      <4>5. QED  BY <4>1, <4>3, <4>4, CallUpdated
    <3>4. CASE LookUp(l) /\ ~Lose(l)
      <4>1. write' = [write EXCEPT ![l] =
                        [write[l] EXCEPT !.step = "walk", !.unseen = @ \ {d}]]
        BY <3>4 DEF LookUp
      <4> HIDE DEF d
      <4>2. [write[l] EXCEPT !.step = "walk", !.unseen = @ \ {d}] \in WriteCall
        BY <3>0 DEF WriteCall
      <4>3. lost' = lost  BY <3>4 DEF LookUp
      <4>4. QED  BY <4>1, <4>2, <4>3, CallUpdated
    <3>5. QED  BY <1>4, <3>1, <3>2, <3>3, <3>4
  <2>2. QED  BY <1>4, <2>1 DEF Visit, ReadNames, LookUp, disk, WriteCall
<1>5. ASSUME NEW l \in Levels, Remove(l) PROVE CutterTypeOK'
  <2>1. write' \in [Levels -> WriteCall]  BY <1>5 DEF Remove, WriteCall
  <2>2. QED  BY <1>5, <2>1 DEF Remove, WriteCall
<1>6. ASSUME NEW l \in Levels, OpenFile(l) PROVE CutterTypeOK'
  <2>1. write' \in [Levels -> WriteCall] /\ lost' \in Nat
    <3>1. CASE Lose(l)  BY <3>1, LoseTypes
    <3>2. CASE write' = [write EXCEPT ![l] = Idle] /\ UNCHANGED lost
      BY <3>2, <1>0 DEF WriteCall, Idle
    <3>3. QED  BY <1>6, <3>1, <3>2 DEF OpenFile
  <2>2. modTime' \in [Days -> 0..MaxTick]  BY <1>6 DEF OpenFile, disk
  <2>3. <<write[l].director, l>> \in Days \X Levels  OBVIOUS
  <2>4. logFiles' \subseteq Days \X Levels /\ written' \subseteq Days \X Levels
    BY <1>6, <2>3 DEF OpenFile, disk
  <2>5. folders' \subseteq Days  BY <1>6 DEF OpenFile, disk
  <2>6. QED  BY <1>6, <2>1, <2>2, <2>4, <2>5 DEF OpenFile, WriteCall
<1>7. CASE UNCHANGED cutterVars
  BY <1>7 DEF cutterVars
<1>8. QED  BY <1>1, <1>2, <1>3, <1>4, <1>5, <1>6, <1>7 DEF CutterNext

----------------------------------------------------------------------------
(* Times: folders and calls carry no date that has not come yet.           *)

LEMMA FoldersDatedStep ==
  ASSUME CutterTypeOK, FoldersDated, WritesDated, CutterNext
  PROVE  FoldersDated'
<1> USE DEF FoldersDated
<1>0. /\ \A d \in Days : FirstTick(d) \in Nat /\ modTime[d] \in Nat /\ modTime[d] <= MaxTick
      /\ tick \in Nat
  BY BeginsAreNumbers, CutterAssumption DEF CutterTypeOK
<1>1. CASE Elapse
  BY <1>1 DEF Elapse, disk, FirstTick
<1>2. ASSUME NEW l \in Levels, MakeFolder(l) PROVE FoldersDated'
  <2>1. Today \in Days /\ FirstTick(Today) <= tick  BY TodayIsDay
  <2>2. SUFFICES ASSUME NEW d \in folders' PROVE FirstTick(d) <= modTime'[d]
    BY DEF FirstTick
  <2>3. CASE d \in folders
    BY <1>2, <2>1, <2>3 DEF MakeFolder, CutterTypeOK
  <2>4. CASE d \notin folders
    BY <1>2, <2>1, <2>4 DEF MakeFolder, CutterTypeOK
  <2>5. QED  BY <2>3, <2>4
<1>3. ASSUME NEW l \in Levels, StartWalk(l) \/ Visit(l) \/ ReadNames(l) \/ LookUp(l)
      PROVE  FoldersDated'
  BY <1>3 DEF StartWalk, Visit, ReadNames, LookUp, disk, FirstTick
<1>4. ASSUME NEW l \in Levels, Remove(l) PROVE FoldersDated'
  <2>1. folders' \subseteq folders /\ modTime' = modTime  BY <1>4 DEF Remove
  <2>2. QED  BY <2>1 DEF FirstTick
<1>5. ASSUME NEW l \in Levels, OpenFile(l) PROVE FoldersDated'
  <2>1. SUFFICES ASSUME NEW d \in folders' PROVE FirstTick(d) <= modTime'[d]
    BY DEF FirstTick
  <2>2. d \in folders /\ d \in Days  BY <1>5 DEF OpenFile, disk, CutterTypeOK
  <2>3. modTime' = modTime \/ modTime' = [modTime EXCEPT ![write[l].director] = tick]
    BY <1>5 DEF OpenFile, disk
  <2>4. FirstTick(write[l].director) <= tick  BY DEF WritesDated
  <2>5. QED  BY <2>2, <2>3, <2>4 DEF CutterTypeOK
<1>6. QED  BY <1>1, <1>2, <1>3, <1>4, <1>5 DEF CutterNext

LEMMA WritesDatedStep ==
  ASSUME CutterTypeOK, WritesDated, CutterNext
  PROVE  WritesDated'
<1> USE DEF WritesDated
<1>0. /\ \A d \in Days : FirstTick(d) \in Nat
      /\ tick \in Nat /\ Retention \in Int
      /\ \A l \in Levels : write[l].director \in Days /\ write[l].cutoff \in Int
  BY BeginsAreNumbers, CutterAssumption DEF CutterTypeOK
<1>1. CASE Elapse
  <2>1. tick' = tick + 1 /\ write' = write  BY <1>1 DEF Elapse
  <2>2. SUFFICES ASSUME NEW l \in Levels
                 PROVE  /\ FirstTick(write[l].director) <= tick'
                        /\ Walking(l) => write[l].cutoff <= tick' - Retention
    BY <2>1 DEF FirstTick, Walking, Retention
  <2>3. QED  BY <1>0, <2>1
<1>2. ASSUME NEW l \in Levels,
             \/ MakeFolder(l) \/ StartWalk(l) \/ Visit(l) \/ ReadNames(l)
             \/ Remove(l) \/ LookUp(l) \/ OpenFile(l)
      PROVE  WritesDated'
  <2>1. tick' = tick
    BY <1>2 DEF MakeFolder, StartWalk, Visit, ReadNames, Remove, LookUp, OpenFile, past
  <2>2. SUFFICES ASSUME NEW k \in Levels
                 PROVE  /\ FirstTick(write'[k].director) <= tick
                        /\ write'[k].step \in {"walk", "old", "kept", "remove", "entries"}
                             => write'[k].cutoff <= tick - Retention
    BY <2>1 DEF FirstTick, Walking, Retention
  <2>3. FirstTick(Idle.director) <= tick  BY <1>0, CutterAssumption DEF Idle, FirstTick
  <2>4. CASE Lose(l) \/ write' = [write EXCEPT ![l] = Idle]
    BY <2>3, <2>4 DEF Lose, Idle, CutterTypeOK, Walking
  <2>5. CASE MakeFolder(l)
    BY <2>5, TodayIsDay DEF MakeFolder, CutterTypeOK, Walking
  <2>6. CASE StartWalk(l)
    <3>1. Cutoff = tick - Retention  BY DEF Cutoff, Retention
    <3>2. PICK names : write' = [write EXCEPT ![l].step = "walk", ![l].cutoff = Cutoff,
                                   ![l].unseen = names]
      BY <2>6 DEF StartWalk
    <3>3. QED  BY <1>0, <3>1, <3>2 DEF CutterTypeOK, Walking
  <2>7. CASE (Visit(l) \/ ReadNames(l) \/ Remove(l) \/ LookUp(l)) /\ ~Lose(l)
    <3>1. Walking(l)
      BY <2>7 DEF Visit, ReadNames, Remove, LookUp, In, Walking
    <3>2. /\ write'[l].director = write[l].director
          /\ write'[l].cutoff = write[l].cutoff
          /\ \A j \in Levels \ {l} : write'[j] = write[j]
      BY <2>7 DEF Visit, ReadNames, Remove, LookUp, CutterTypeOK
    <3>3. QED  BY <3>1, <3>2 DEF Walking
  <2>8. CASE OpenFile(l)
    BY <2>4, <2>8 DEF OpenFile
  <2>9. QED  BY <1>2, <2>4, <2>5, <2>6, <2>7, <2>8
<1>3. QED  BY <1>1, <1>2 DEF CutterNext

----------------------------------------------------------------------------
(* What is removed is old enough, and was read by a walk.                  *)

(* What was too old remains so. *)
LEMMA AgeGrows ==
  ASSUME CutterTypeOK, CutterNext, NEW d \in Days, TooOld(d)
  PROVE  TooOld(d)'
<1>1. tick \in Nat /\ tick' \in Nat /\ tick <= tick'
  <2>1. tick' = tick + 1 \/ tick' = tick
    BY Zenon DEF CutterNext, Elapse, MakeFolder, StartWalk, Visit, ReadNames, Remove,
       LookUp, OpenFile, past
  <2>2. tick \in Nat  BY CutterAssumption DEF CutterTypeOK
  <2>3. QED  BY <2>1, <2>2
<1>2. FirstTick(d) \in Nat /\ Retention \in Int  BY BeginsAreNumbers
<1>3. QED  BY <1>1, <1>2 DEF TooOld, FirstTick, Retention

LEMMA WalksReadStep ==
  ASSUME CutterTypeOK, FoldersDated, WritesDated, WalksRead, CutterNext
  PROVE  WalksRead'
<1> USE DEF In, Walking, InFolder, ToRemove
<1>1. \A k \in Levels : write[k].unseen # {} => First(write[k].unseen) \in Days
  <2>1. TAKE k \in Levels
  <2>2. HAVE write[k].unseen # {}
  <2>3. write[k].unseen \in SUBSET Nat  BY DaysAreNumbers DEF CutterTypeOK
  <2>4. QED  BY <2>2, <2>3, FirstIsIn DEF CutterTypeOK
<1> DEFINE Ripe(e) == RetentionDay > 0 /\ e * DayTicks + RetentionDay * DayTicks < tick'
<1>0. \A e \in Days : TooOld(e) => Ripe(e)
  BY AgeGrows DEF TooOld, FirstTick, Retention
<1>2. \A k \in Levels : ToRemove(k) => Ripe(First(write[k].unseen))
  BY <1>0, <1>1 DEF WalksRead
<1> DEFINE Good(k) ==
      /\ write'[k].unseen # {}
           => RetentionDay > 0 /\ write'[k].step \in {"walk", "old", "kept", "remove", "entries"}
      /\ write'[k].step \in {"old", "kept", "remove", "entries"} => write'[k].unseen # {}
      /\ write'[k].step \in {"old", "remove"} => Ripe(First(write'[k].unseen))
<1>3. SUFFICES \A k \in Levels : Good(k)
  BY DEF WalksRead, TooOld, FirstTick, Retention
<1> HIDE DEF Ripe
<1>4. \A k \in Levels : write'[k] = write[k] => Good(k)
  BY <1>2 DEF WalksRead
<1>5. CASE Elapse
  BY <1>4, <1>5 DEF Elapse
<1>6. ASSUME NEW l \in Levels,
             \/ MakeFolder(l) \/ StartWalk(l) \/ Visit(l) \/ ReadNames(l)
             \/ Remove(l) \/ LookUp(l) \/ OpenFile(l)
      PROVE  Good(l) /\ \A k \in Levels \ {l} : write'[k] = write[k]
  <2>1. CASE Lose(l) \/ write' = [write EXCEPT ![l] = Idle]
    BY <2>1 DEF Lose, Idle, CutterTypeOK
  <2>2. CASE MakeFolder(l)
    <3>1. write[l].unseen = {}  BY <2>2 DEF MakeFolder, WalksRead
    <3>2. QED  BY <2>2, <3>1 DEF MakeFolder, CutterTypeOK
  <2>3. CASE StartWalk(l)
    <3>1. PICK names : /\ write' = [write EXCEPT ![l].step = "walk", ![l].cutoff = Cutoff,
                                      ![l].unseen = names]
                       /\ names # {} => ~(RetentionDay <= 0)
      BY <2>3 DEF StartWalk
    <3>2. QED  BY <3>1, CutterAssumption DEF CutterTypeOK
  <2>4. CASE Visit(l) /\ ~Lose(l)
    <3> DEFINE d == First(write[l].unseen)
    <3>1. In(l, "walk") /\ write[l].unseen # {} /\ RetentionDay > 0 /\ d \in folders
      BY <2>4 DEF Visit, WalksRead
    <3>2. /\ write'[l].step \in {"old", "kept"} /\ write'[l].unseen = write[l].unseen
          /\ write'[l].step = "old" => modTime[d] < write[l].cutoff
          /\ \A k \in Levels \ {l} : write'[k] = write[k]
      BY <2>4 DEF Visit, CutterTypeOK
    <3>3. ASSUME write'[l].step = "old" PROVE Ripe(d)
      <4>1. modTime[d] < write[l].cutoff  BY <3>2, <3>3
      <4>2. /\ FirstTick(d) <= modTime[d] /\ write[l].cutoff <= tick - Retention
        BY <3>1, <4>1 DEF FoldersDated, WritesDated
      <4>3. /\ d \in Days /\ FirstTick(d) \in Nat /\ Retention \in Int /\ tick \in Nat
            /\ modTime[d] \in Nat /\ write[l].cutoff \in Int
        BY <3>1, BeginsAreNumbers, CutterAssumption DEF CutterTypeOK
      <4>4. TooOld(d)  BY <3>1, <4>1, <4>2, <4>3 DEF TooOld
      <4>5. QED  BY <1>0, <4>3, <4>4
    <3>4. QED  BY <3>1, <3>2, <3>3
  <2>5. CASE ReadNames(l) /\ ~Lose(l)
    <3>1. /\ InFolder(l) /\ write'[l].unseen = write[l].unseen
          /\ write'[l].step \in {"remove", "entries"}
          /\ write'[l].step = "remove" => ToRemove(l)
          /\ \A k \in Levels \ {l} : write'[k] = write[k]
      BY <2>5 DEF ReadNames, CutterTypeOK
    <3>2. QED  BY <1>2, <3>1 DEF WalksRead
  <2>6. CASE Remove(l)
    <3>1. /\ In(l, "remove") /\ write'[l].unseen = write[l].unseen
          /\ write'[l].step = "entries"
          /\ \A k \in Levels \ {l} : write'[k] = write[k]
      BY <2>6 DEF Remove, CutterTypeOK
    <3>2. QED  BY <3>1 DEF WalksRead
  <2>7. CASE LookUp(l) /\ ~Lose(l)
    <3>1. /\ In(l, "entries") /\ write'[l].step = "walk"
          /\ \A k \in Levels \ {l} : write'[k] = write[k]
      BY <2>7 DEF LookUp, CutterTypeOK
    <3>2. QED  BY <3>1 DEF WalksRead
  <2>8. CASE OpenFile(l)  BY <2>1, <2>8 DEF OpenFile
  <2>9. QED  BY <1>6, <2>1, <2>2, <2>3, <2>4, <2>5, <2>6, <2>7, <2>8
<1>7. QED  BY <1>4, <1>5, <1>6 DEF CutterNext

(* A folder takes its files with it. *)
LEMMA FilesInFoldersStep ==
  ASSUME CutterTypeOK, FilesInFolders, CutterNext
  PROVE  FilesInFolders'
<1> USE DEF FilesInFolders
<1>1. CASE Elapse  BY <1>1 DEF Elapse, disk
<1>2. ASSUME NEW l \in Levels,
             \/ MakeFolder(l) \/ StartWalk(l) \/ Visit(l) \/ ReadNames(l) \/ LookUp(l)
      PROVE  FilesInFolders'
  <2>1. folders \subseteq folders' /\ logFiles' = logFiles
    BY <1>2 DEF MakeFolder, StartWalk, Visit, ReadNames, LookUp, disk
  <2>2. QED  BY <2>1
<1>3. ASSUME NEW l \in Levels, Remove(l) PROVE FilesInFolders'  BY <1>3 DEF Remove
<1>4. ASSUME NEW l \in Levels, OpenFile(l) PROVE FilesInFolders'
  BY <1>4 DEF OpenFile, disk
<1>5. QED  BY <1>1, <1>2, <1>3, <1>4 DEF CutterNext

LEMMA WrittenKeptStep ==
  ASSUME CutterTypeOK, WalksRead, WrittenKept, CutterNext
  PROVE  WrittenKept'
<1>1. SUFFICES ASSUME NEW f \in written', f \notin logFiles'
               PROVE  TooOld(f[1])'
  BY DEF WrittenKept, TooOld, FirstTick, Retention
<1>2. ASSUME f \in written, f \notin logFiles PROVE TooOld(f[1])'
  <2>1. f[1] \in Days  BY <1>2 DEF CutterTypeOK
  <2>2. QED  BY <1>2, <2>1, AgeGrows DEF WrittenKept
<1>3. ASSUME NEW l \in Levels, Remove(l) PROVE TooOld(f[1])'
  <2>1. CASE f \notin logFiles  BY <1>2, <1>3, <2>1 DEF Remove
  <2>2. CASE f \in logFiles
    <3>1. f[1] = First(write[l].unseen)  BY <1>1, <1>3, <2>2 DEF Remove
    <3>2. TooOld(f[1])  BY <1>3, <3>1 DEF Remove, WalksRead, ToRemove
    <3>3. f[1] \in Days  BY <2>2 DEF CutterTypeOK
    <3>4. QED  BY <3>2, <3>3, AgeGrows
  <2>3. QED  BY <2>1, <2>2
<1>4. ASSUME NEW l \in Levels, OpenFile(l) PROVE TooOld(f[1])'
  <2>1. f \in written /\ f \notin logFiles  BY <1>1, <1>4 DEF OpenFile, disk
  <2>2. QED  BY <1>2, <2>1
<1>5. ASSUME written' = written, logFiles' = logFiles PROVE TooOld(f[1])'
  BY <1>1, <1>2, <1>5
<1>6. QED
  BY <1>3, <1>4, <1>5 DEF CutterNext, Elapse, MakeFolder, StartWalk, Visit, ReadNames,
     LookUp, disk, past

----------------------------------------------------------------------------
(* Losses. *)

LEMMA RisksAreFew ==
  /\ AtRisk \subseteq Levels /\ IsFiniteSet(AtRisk) /\ IsFiniteSet(Levels)
  /\ Cardinality(AtRisk) \in Nat /\ Cardinality(Levels) \in Nat
<1>1. AtRisk \subseteq Levels /\ IsFiniteSet(Levels)  BY CutterAssumption DEF AtRisk
<1>2. IsFiniteSet(AtRisk)  BY <1>1, FS_Subset
<1>3. QED  BY <1>1, <1>2, FS_CardinalityType

(* A set without one of its members is smaller. *)
LEMMA FewerWithout ==
  ASSUME NEW S, IsFiniteSet(S), NEW x \in S, NEW T \in SUBSET (S \ {x})
  PROVE  Cardinality(T) + 1 <= Cardinality(S)
<1>1. IsFiniteSet(S \ {x}) /\ Cardinality(S \ {x}) = Cardinality(S) - 1
  BY FS_RemoveElement
<1>2. IsFiniteSet(T) /\ Cardinality(T) <= Cardinality(S \ {x})  BY <1>1, FS_Subset
<1>3. Cardinality(S) \in Nat /\ Cardinality(T) \in Nat  BY <1>2, FS_CardinalityType
<1>4. QED  BY <1>1, <1>2, <1>3

LEMMA LossesPaidStep ==
  ASSUME CutterTypeOK, CutterTypeOK', WalksRead, FilesInFolders, LossesPaid, CutterNext
  PROVE  LossesPaid'
<1> DEFINE Risk(k) == /\ write'[k].step # "idle"
                      /\ \/ write'[k].director \notin folders'
                         \/ ~(write'[k].unseen \subseteq folders')
                         \/ /\ write'[k].step = "entries"
                            /\ \E j \in write'[k].names :
                                 <<First(write'[k].unseen), j>> \notin logFiles'
<1> DEFINE R == AtRisk
<1> DEFINE R1 == {k \in Levels : Risk(k)}
<1> DEFINE n == Cardinality(Levels)
<1>1. R1 = AtRisk'
  <2>1. \A k \in Levels : Endangered(k)' <=> Risk(k)  BY DEF Endangered, In, First
  <2>2. QED  BY <2>1 DEF AtRisk
<1>2. /\ IsFiniteSet(R) /\ Cardinality(R) \in Nat /\ n \in Nat /\ IsFiniteSet(Levels)
      /\ lost \in Nat /\ removed \in Nat
  BY RisksAreFew DEF CutterTypeOK
<1>3. IsFiniteSet(R1) /\ Cardinality(R1) \in Nat
  BY <1>2, FS_Subset, FS_CardinalityType
<1>4. lost + Cardinality(R) <= removed * n  BY DEF LossesPaid
<1>5. SUFFICES lost' + Cardinality(R1) <= removed' * n  BY <1>1 DEF LossesPaid
<1>6. ASSUME R1 \subseteq R, UNCHANGED <<lost, removed>>
      PROVE  lost' + Cardinality(R1) <= removed' * n
  <2>1. Cardinality(R1) <= Cardinality(R)  BY <1>2, <1>6, FS_Subset
  <2> HIDE DEF R, R1, n
  <2>2. QED  BY <1>2, <1>3, <1>4, <1>6, <2>1
<1>7. ASSUME NEW l \in R, R1 \subseteq R \ {l}, lost' = lost + 1, removed' = removed
      PROVE  lost' + Cardinality(R1) <= removed' * n
  <2>1. Cardinality(R1) + 1 <= Cardinality(R)  BY <1>2, <1>7, FewerWithout
  <2> HIDE DEF R, R1, n
  <2>2. QED  BY <1>2, <1>3, <1>4, <1>7, <2>1
<1>8. \A k \in Levels : /\ k \notin R /\ write'[k] = write[k]
                        /\ folders \subseteq folders' /\ logFiles \subseteq logFiles'
         => k \notin R1
  BY DEF AtRisk, Endangered, In
<1>9. \A l \in Levels : Lose(l) =>
         /\ l \notin R1 /\ lost' = lost + 1
         /\ \A k \in Levels \ {l} : write'[k] = write[k]
  BY DEF Lose, Idle, CutterTypeOK
<1>10. CASE Elapse
  <2>1. R1 \subseteq R  BY <1>8, <1>10 DEF Elapse, disk
  <2>2. QED  BY <1>6, <1>10, <2>1 DEF Elapse
<1>11. ASSUME NEW l \in Levels, MakeFolder(l)
       PROVE  lost' + Cardinality(R1) <= removed' * n
  <2>1. /\ folders' = folders \union {Today}
        /\ logFiles' = logFiles
        /\ write'[l].director = Today /\ write'[l].step = "made"
        /\ write'[l].unseen = write[l].unseen
        /\ \A k \in Levels \ {l} : write'[k] = write[k]
    BY <1>11 DEF MakeFolder, CutterTypeOK
  <2>2. write[l].unseen = {}  BY <1>11 DEF MakeFolder, WalksRead, In, Walking
  <2>3. l \notin R1  BY <2>1, <2>2
  <2>4. R1 \subseteq R  BY <1>8, <2>1, <2>3
  <2>5. QED  BY <1>6, <1>11, <2>4 DEF MakeFolder, past
<1>12. ASSUME NEW l \in Levels, StartWalk(l)
       PROVE  lost' + Cardinality(R1) <= removed' * n
  <2>1. PICK names : /\ write' = [write EXCEPT ![l].step = "walk", ![l].cutoff = Cutoff,
                                     ![l].unseen = names]
                     /\ names \subseteq folders
    <3> DEFINE read == IF RetentionDay <= 0 THEN {} ELSE folders
    <3>1. write' = [write EXCEPT ![l].step = "walk", ![l].cutoff = Cutoff,
                      ![l].unseen = read]
      BY <1>12 DEF StartWalk
    <3>2. read \subseteq folders  OBVIOUS
    <3> HIDE DEF read
    <3>3. QED  BY <3>1, <3>2
  <2>2. /\ folders' = folders /\ logFiles' = logFiles
        /\ write'[l].director = write[l].director /\ write'[l].step = "walk"
        /\ write'[l].unseen = names
        /\ \A k \in Levels \ {l} : write'[k] = write[k]
    BY <1>12, <2>1 DEF StartWalk, disk, CutterTypeOK
  <2>3. l \in R1 => l \in R
    BY <1>12, <2>1, <2>2 DEF StartWalk, AtRisk, Endangered, In
  <2>4. R1 \subseteq R  BY <1>8, <2>2, <2>3
  <2>5. QED  BY <1>6, <1>12, <2>4 DEF StartWalk, past
<1>13. ASSUME NEW l \in Levels, Visit(l) \/ ReadNames(l) \/ LookUp(l)
       PROVE  lost' + Cardinality(R1) <= removed' * n
  <2> DEFINE d == First(write[l].unseen)
  <2>1. d \in write[l].unseen
    <3>1. write[l].unseen \in SUBSET Nat /\ write[l].unseen # {}
      BY <1>13, DaysAreNumbers
      DEF Visit, ReadNames, LookUp, WalksRead, InFolder, In, CutterTypeOK
    <3>2. QED  BY <3>1, FirstIsIn
  <2>2. UNCHANGED <<folders, logFiles, removed>>
    BY <1>13 DEF Visit, ReadNames, LookUp, disk
  <2>3. CASE Lose(l)
    <3>0. lost' # lost  BY <1>2, <2>3 DEF Lose
    <3>1. l \in R
      <4>1. CASE Visit(l) \/ ReadNames(l)
        <5>1. d \notin folders /\ ~In(l, "idle")
          BY <3>0, <4>1 DEF Visit, ReadNames, In
        <5>2. QED  BY <2>1, <5>1 DEF AtRisk, Endangered
      <4>2. CASE LookUp(l)
        BY <3>0, <4>2 DEF LookUp, AtRisk, Endangered, In
      <4>3. QED  BY <1>13, <4>1, <4>2
    <3>2. R1 \subseteq R \ {l}  BY <1>8, <1>9, <2>2, <2>3
    <3>3. QED  BY <1>7, <1>9, <2>2, <2>3, <3>1, <3>2
  <2>4. CASE ~Lose(l)
    <3>1. /\ write'[l].director = write[l].director
          /\ write'[l].unseen \subseteq write[l].unseen
          /\ \A k \in Levels \ {l} : write'[k] = write[k]
          /\ lost' = lost
      BY <1>13, <2>4 DEF Visit, ReadNames, LookUp, CutterTypeOK
    <3>2. write'[l].step = "entries" =>
             \A j \in write'[l].names : <<First(write'[l].unseen), j>> \in logFiles
      BY <1>13, <2>4 DEF Visit, ReadNames, LookUp, CutterTypeOK
    <3>3. l \in R1 => l \in R
      BY <1>13, <2>2, <3>1, <3>2 DEF Visit, ReadNames, LookUp, AtRisk, Endangered, In
    <3>4. R1 \subseteq R  BY <1>8, <2>2, <3>1, <3>3
    <3>5. QED  BY <1>6, <2>2, <3>1, <3>4
  <2>5. QED  BY <2>3, <2>4
<1>14. ASSUME NEW l \in Levels, Remove(l)
       PROVE  lost' + Cardinality(R1) <= removed' * n
  <2> DEFINE d == First(write[l].unseen)
  <2>1. d \in write[l].unseen
    <3>1. write[l].unseen \in SUBSET Nat /\ write[l].unseen # {}
      BY <1>14, DaysAreNumbers DEF Remove, WalksRead, InFolder, In, CutterTypeOK
    <3>2. QED  BY <3>1, FirstIsIn
  <2>2. lost' = lost  BY <1>14 DEF Remove
  <2>3. CASE d \in folders
    <3>1. removed' = removed + 1  BY <1>14, <2>3 DEF Remove
    <3>2. removed' * n = removed * n + n  BY <1>2, <3>1
    <3>3. R1 \in SUBSET Levels  OBVIOUS
    <3> HIDE DEF R1
    <3>4. Cardinality(R1) <= n  BY <1>2, <3>3, FS_Subset
    <3> HIDE DEF R, n
    <3>5. removed * n \in Nat  BY <1>2
    <3>6. QED  BY <1>2, <1>3, <1>4, <2>2, <3>2, <3>4, <3>5
  <2>4. CASE d \notin folders
    <3>1. UNCHANGED <<folders, logFiles, removed>>
      BY <1>14, <2>4 DEF Remove, FilesInFolders
    <3>2. l \in R  BY <1>14, <2>1, <2>4 DEF Remove, AtRisk, Endangered, In
    <3>3. \A k \in Levels \ {l} : write'[k] = write[k]  BY <1>14 DEF Remove, CutterTypeOK
    <3>4. R1 \subseteq R  BY <1>8, <3>1, <3>2, <3>3
    <3>5. QED  BY <1>6, <2>2, <3>1, <3>4
  <2>5. QED  BY <2>3, <2>4
<1>15. ASSUME NEW l \in Levels, OpenFile(l)
       PROVE  lost' + Cardinality(R1) <= removed' * n
  <2>1. folders' = folders /\ logFiles \subseteq logFiles' /\ removed' = removed
    BY <1>15 DEF OpenFile, disk
  <2>2. CASE write[l].director \notin folders
    <3>1. Lose(l)  BY <1>15, <2>2 DEF OpenFile
    <3>2. l \in R  BY <1>15, <2>2 DEF OpenFile, AtRisk, Endangered, In
    <3>3. R1 \subseteq R \ {l}  BY <1>8, <1>9, <2>1, <3>1
    <3>4. QED  BY <1>7, <1>9, <2>1, <3>1, <3>2, <3>3
  <2>3. CASE write[l].director \in folders
    <3>1. write' = [write EXCEPT ![l] = Idle] /\ lost' = lost
      BY <1>15, <2>3 DEF OpenFile
    <3>2. l \notin R1 /\ \A k \in Levels \ {l} : write'[k] = write[k]
      BY <3>1 DEF Idle, CutterTypeOK
    <3>3. R1 \subseteq R  BY <1>8, <2>1, <3>2
    <3>4. QED  BY <1>6, <2>1, <3>1, <3>3
  <2>4. QED  BY <2>2, <2>3
<1>16. QED
  BY <1>10, <1>11, <1>12, <1>13, <1>14, <1>15 DEF CutterNext

----------------------------------------------------------------------------
(* The invariants. *)

(* The state stays of its types: days that have begun, and a call of Write *)
(* per level (cutter.go:57-91).                                            *)
THEOREM CutterTypeCorrect == CutterSpec => []CutterTypeOK
<1>1. CutterInit => CutterTypeOK  BY InitTypes
<1>2. CutterTypeOK /\ [CutterNext]_cutterVars => CutterTypeOK'  BY TypeStep
<1>3. QED  BY <1>1, <1>2, PTL DEF CutterSpec

LEMMA InvInit == CutterInit => CutterInv
<1>1. SUFFICES ASSUME CutterInit PROVE CutterInv  OBVIOUS
<1>2. AtRisk = {}  BY <1>1 DEF CutterInit, AtRisk, Endangered, In, Idle
<1>3. Cardinality(AtRisk) = 0 /\ Cardinality(Levels) \in Nat
  BY <1>2, FS_EmptySet, RisksAreFew
<1>4. LossesPaid  BY <1>1, <1>3 DEF CutterInit, LossesPaid
<1>5. WalksRead
  BY <1>1 DEF CutterInit, WalksRead, Idle, In, Walking, InFolder, ToRemove
<1>6. WritesDated
  BY <1>1, CutterAssumption DEF CutterInit, WritesDated, Idle, Walking, FirstTick
<1>7. FoldersDated /\ FilesInFolders /\ WrittenKept
  BY <1>1 DEF CutterInit, FoldersDated, FilesInFolders, WrittenKept
<1>8. QED  BY <1>4, <1>5, <1>6, <1>7 DEF CutterInv

LEMMA InvStutters ==
  ASSUME CutterInv, UNCHANGED cutterVars
  PROVE  CutterInv'
<1>1. LossesPaid'
  BY DEF CutterInv, LossesPaid, cutterVars, AtRisk, Endangered, In, First
<1>2. WalksRead'
  BY DEF CutterInv, WalksRead, cutterVars, In, Walking, InFolder, ToRemove, First,
     TooOld, FirstTick, Retention
<1>3. FoldersDated' /\ WritesDated' /\ FilesInFolders'
  BY DEF CutterInv, FoldersDated, WritesDated, FilesInFolders, cutterVars, Walking,
     FirstTick, Retention
<1>4. WrittenKept'
  BY DEF CutterInv, WrittenKept, cutterVars, TooOld, FirstTick, Retention
<1>5. QED  BY <1>1, <1>2, <1>3, <1>4 DEF CutterInv

(* Every loss is paid for by a removed folder, and every file that is gone *)
(* was kept for the days to retain.                                        *)
THEOREM LogsHold == CutterSpec => []CutterInv
<1>1. CutterInit => CutterInv  BY InvInit
<1>2. CutterTypeOK /\ CutterTypeOK' /\ CutterInv /\ [CutterNext]_cutterVars => CutterInv'
  <2>1. CutterTypeOK /\ CutterTypeOK' /\ CutterInv /\ CutterNext => CutterInv'
    BY LossesPaidStep, WalksReadStep, FoldersDatedStep, WritesDatedStep,
       FilesInFoldersStep, WrittenKeptStep
    DEF CutterInv
  <2>2. CutterInv /\ UNCHANGED cutterVars => CutterInv'  BY InvStutters
  <2>3. QED  BY <2>1, <2>2
<1>3. QED  BY <1>1, <1>2, CutterTypeCorrect, PTL DEF CutterSpec

(* A removed folder costs each level one message at most, however the      *)
(* walks overlap, and a message is kept for the days to retain             *)
(* (cutter.go:57-91, 104-121).                                             *)
THEOREM LogsAreKept == CutterSpec => []LogsKept
<1>1. CutterTypeOK /\ CutterInv => LogsKept
  <2>1. SUFFICES ASSUME CutterTypeOK, CutterInv PROVE LossBound /\ KeptWhileRetained
    BY DEF LogsKept
  <2>2. LossBound
    <3>1. /\ Cardinality(AtRisk) \in Nat /\ Cardinality(Levels) \in Nat
          /\ lost \in Nat /\ removed \in Nat
      BY <2>1, RisksAreFew DEF CutterTypeOK
    <3>2. removed * Cardinality(Levels) \in Nat  BY <3>1
    <3>3. lost + Cardinality(AtRisk) <= removed * Cardinality(Levels)
      BY <2>1 DEF CutterInv, LossesPaid
    <3>4. QED  BY <3>1, <3>2, <3>3 DEF LossBound
  <2>3. KeptWhileRetained
    <3>1. SUFFICES ASSUME NEW f \in written,
                          RetentionDay <= 0 \/ tick <= (f[1] + RetentionDay) * DayTicks,
                          f \notin logFiles
                   PROVE  FALSE
      BY DEF KeptWhileRetained
    <3>2. TooOld(f[1])  BY <2>1, <3>1 DEF CutterInv, WrittenKept
    <3>3. f \in Days \X Levels  BY <2>1, <3>1 DEF CutterTypeOK
    <3>4. f[1] \in Int
      <4>1. f[1] \in Days  BY <3>3
      <4>2. \A d \in Days : d \in Int  BY DaysAreNumbers
      <4>3. QED  BY <4>1, <4>2, Zenon
    <3>5. (f[1] + RetentionDay) * DayTicks = FirstTick(f[1]) + Retention
      <4> DEFINE d == f[1]
      <4>1. d \in Int /\ RetentionDay \in Int /\ DayTicks \in Int  BY <3>4, CutterAssumption
      <4> HIDE DEF d
      <4>2. (d + RetentionDay) * DayTicks = d * DayTicks + RetentionDay * DayTicks
        BY ONLY <4>1, TimesAdd
      <4>3. QED  BY <4>2 DEF d, FirstTick, Retention
    <3>6. FirstTick(f[1]) \in Int /\ Retention \in Int /\ tick \in Int
      BY <2>1, <3>3, BeginsAreNumbers, CutterAssumption DEF CutterTypeOK
    <3>7. QED  BY <3>1, <3>2, <3>5, <3>6, CutterAssumption DEF TooOld
  <2>4. QED  BY <2>2, <2>3
<1>2. QED  BY <1>1, CutterTypeCorrect, LogsHold, PTL
=============================================================================
