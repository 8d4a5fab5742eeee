------------------------------ MODULE LogCutter ------------------------------
(***************************************************************************)
(* The log files of a process                                              *)
(*   common/logs/cutter.go                   Write, removeNDaysFolders     *)
(*   common/logs/zap_core.go, zap.go, common/config/zap.go   the cores     *)
(*                                                                         *)
(* There is a core with a Cutter and a mutex of its own per level, and all *)
(* write into one directory with a folder per day.  Every Write first      *)
(* walks through the directory and removes the folders that were last      *)
(* changed too long ago; it may meet the Write of another level there.     *)
(*                                                                         *)
(* No message of the repository has a field "business", "folder" or        *)
(* "directory", so that the folders of days have no folders in them.       *)
(***************************************************************************)
EXTENDS Integers, FiniteSets

CONSTANTS
    Levels,         \* from the configured one up to fatal
    RetentionDay,   \* days; zero and less keep everything
    DayTicks,       \* ticks of the clock in a day
    MaxTick,        \* bound: ticks in a behaviour
    MaxLogs         \* bound: calls of Write in a behaviour

ASSUME CutterAssumption ==
    /\ IsFiniteSet(Levels) /\ RetentionDay \in Int
    /\ DayTicks \in Nat \ {0} /\ MaxTick \in Nat /\ MaxLogs \in Nat

Days == 0..(MaxTick \div DayTicks)

VARIABLES
    tick,         \* time.Now()
    folders,      \* days that have a folder
    modTime,      \* when an entry was last added to it
    logFiles,     \* the file of a level in the folder of a day: <<day, level>>
    write,        \* of a level: its call of Write, which holds the mutex of its
                  \* Cutter, with its locals; Idle without one
    written,      \* history: files that a message was written to
    writes,        \* history: calls of Write
    lost,         \* history: of them, those that returned an error
    removed       \* history: folders removed

cutterVars == <<tick, folders, modTime, logFiles, write, written, writes, lost, removed>>
disk == <<folders, modTime, logFiles>>
past == <<tick, written, lost, removed>>

Idle == [step |-> "idle", director |-> 0, unseen |-> {}, cutoff |-> 0, names |-> {}]
Today == tick \div DayTicks

CutterInit ==
    /\ tick = 0 /\ folders = {} /\ modTime = [d \in Days |-> 0]
    /\ logFiles = {}
    /\ write = [l \in Levels |-> Idle]
    /\ written = {} /\ writes = 0 /\ lost = 0 /\ removed = 0

----------------------------------------------------------------------------
(* The operators named Mutant... are defects the properties are tested     *)
(* against, and are used by no specification.                              *)

In(l, step) == write[l].step = step
Lose(l) == write' = [write EXCEPT ![l] = Idle] /\ lost' = lost + 1

(* MkdirAll *)
MakeFolder(l) ==
    /\ In(l, "idle")
    /\ writes < MaxLogs  \* bound
    /\ writes' = writes + 1
    /\ write' = [write EXCEPT ![l].step = "made", ![l].director = Today]
    /\ folders' = folders \union {Today}
    /\ modTime' = IF Today \in folders THEN modTime
                  ELSE [modTime EXCEPT ![Today] = tick]
    /\ UNCHANGED <<logFiles, past>>

(* Mutant: the day that has begun is counted. *)
MutantCutoff == tick - (RetentionDay - 1) * DayTicks

Cutoff == tick - RetentionDay * DayTicks

(* filepath.Walk reads the names in the directory. *)
StartWalk(l) ==
    /\ In(l, "made")
    /\ write' = [write EXCEPT ![l].step = "walk", ![l].cutoff = Cutoff,
                   ![l].unseen = IF RetentionDay <= 0 THEN {} ELSE folders]
    /\ UNCHANGED <<disk, writes, past>>

First(names) == CHOOSE d \in names : \A e \in names : d <= e

(* The next name: its folder is looked up, if it is still there ...        *)
Visit(l) ==
    /\ In(l, "walk") /\ write[l].unseen # {}
    /\ LET d == First(write[l].unseen)
       IN IF d \notin folders THEN Lose(l)
          ELSE /\ write' = [write EXCEPT ![l].step =
                              IF modTime[d] < write[l].cutoff THEN "old" ELSE "kept"]
               /\ UNCHANGED lost
    /\ UNCHANGED <<disk, tick, writes, written, removed>>

(* ... and read, before the function of the walk is called for it.         *)
ReadNames(l) ==
    /\ In(l, "old") \/ In(l, "kept")
    /\ LET d == First(write[l].unseen)
       IN IF d \notin folders THEN Lose(l)
          ELSE /\ write' = [write EXCEPT
                              ![l].step = IF In(l, "old") THEN "remove" ELSE "entries",
                              ![l].names = {k \in Levels : <<d, k>> \in logFiles}]
               /\ UNCHANGED lost
    /\ UNCHANGED <<disk, tick, writes, written, removed>>

(* RemoveAll, which does not mind that a folder is gone.                   *)
Remove(l) ==
    /\ In(l, "remove")
    /\ LET d == First(write[l].unseen)
       IN /\ folders' = folders \ {d}
          /\ logFiles' = {f \in logFiles : f[1] # d}
          /\ removed' = IF d \in folders THEN removed + 1 ELSE removed
    /\ write' = [write EXCEPT ![l].step = "entries"]
    /\ UNCHANGED <<tick, modTime, writes, written, lost>>

(* The walk then looks for what it has read in the folder, be it removed   *)
(* or kept, and its error is that of Write.                                *)
LookUp(l) ==
    /\ In(l, "entries")
    /\ LET d == First(write[l].unseen)
       IN IF \E k \in write[l].names : <<d, k>> \notin logFiles THEN Lose(l)
          ELSE /\ write' = [write EXCEPT ![l].step = "walk", ![l].unseen = @ \ {d}]
               /\ UNCHANGED lost
    /\ UNCHANGED <<disk, tick, writes, written, removed>>

(* OpenFile creates the file if need be; the message is appended.          *)
OpenFile(l) ==
    /\ In(l, "walk") /\ write[l].unseen = {}
    /\ LET d == write[l].director
       IN IF d \notin folders
          THEN Lose(l) /\ UNCHANGED <<disk, written>>
          ELSE /\ write' = [write EXCEPT ![l] = Idle]
               /\ modTime' = IF <<d, l>> \in logFiles THEN modTime
                             ELSE [modTime EXCEPT ![d] = tick]
               /\ logFiles' = logFiles \union {<<d, l>>}
               /\ written' = written \union {<<d, l>>}
               /\ UNCHANGED <<folders, lost>>
    /\ UNCHANGED <<tick, writes, removed>>

Elapse ==
    /\ tick < MaxTick  \* bound
    /\ tick' = tick + 1
    /\ UNCHANGED <<disk, write, writes, written, lost, removed>>

CutterNext ==
    \/ Elapse
    \/ \E l \in Levels : \/ MakeFolder(l) \/ StartWalk(l) \/ Visit(l) \/ ReadNames(l)
                         \/ Remove(l) \/ LookUp(l) \/ OpenFile(l)

CutterSpec == CutterInit /\ [][CutterNext]_cutterVars

----------------------------------------------------------------------------
CutterTypeOK ==
    /\ tick \in 0..MaxTick /\ folders \subseteq Days
    /\ modTime \in [Days -> 0..MaxTick]
    /\ logFiles \subseteq Days \X Levels /\ written \subseteq Days \X Levels
    /\ write \in [Levels -> [step : {"idle", "made", "walk", "old", "kept",
                                      "remove", "entries"},
                             director : Days, unseen : SUBSET Days,
                             cutoff : Int, names : SUBSET Levels]]
    /\ writes \in 0..MaxLogs /\ {lost, removed} \subseteq Nat

(* The removal of a folder makes the walk that removes it fail, and those  *)
(* of other levels that have it before them; their messages are lost       *)
(* (cutter.go:82-85).  No other message is: however the writers overlap,   *)
(* a removed folder costs each level one at most.                          *)
LossBound == lost <= removed * Cardinality(Levels)

(* A message is kept for the days to retain, counted from the beginning of *)
(* the day it was written on (an addition to a file does not change the    *)
(* time of its folder), also by a walk that other levels overtake.  (Files *)
(* are only appended to, and removed with their folder.)                   *)
KeptWhileRetained ==
    \A f \in written : RetentionDay <= 0 \/ tick <= (f[1] + RetentionDay) * DayTicks
                         => f \in logFiles

LogsKept == LossBound /\ KeptWhileRetained
=============================================================================
