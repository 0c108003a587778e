---------------------------- MODULE Storage_proofs ----------------------------
(***************************************************************************)
(* Four safety properties of the programs on shared memory, semaphores and *)
(* files, for any number of clients, turns, terminal runs, producers,      *)
(* slots, items, kills, users and files:                                   *)
(*                                                                         *)
(*   PidFileNamesHolder      file_lock.cpp:360-396, the pid file of the    *)
(*                           single instance                               *)
(*   LostOnlyToOldSemaphore  mman_test.cpp:393-649, the counter in the     *)
(*                           shared segment                                *)
(*   IntactUnlessLeftDirty   semaphore_test.cpp, producers and a consumer  *)
(*                           on three semaphores                           *)
(*   WritesSurvive           IO_File_creat-open-read-close.cpp and         *)
(*                           IO_File_stat.cpp, records, links and locks    *)
(*                                                                         *)
(* None is inductive.  That a running instance finds its own pid in the    *)
(* file rests on every write to it being made under the one write lock,    *)
(* which rests on who may hold a lock in which step of its script          *)
(* (LockInv).  That the counter loses increments only to an old semaphore  *)
(* rests on every permit of a semaphore being held once (CounterInv).      *)
(* That the consumer finds the item it expects rests on the balance of the *)
(* permits of the three semaphores, which holds where no killed run left   *)
(* them (SemInv).  That an appended record stays rests on which file each  *)
(* call of each tool finds open (FileInv).  The steps of the other         *)
(* programs of Storage leave these states alone.                           *)
(***************************************************************************)
EXTENDS Storage, SequenceTheorems, FiniteSetTheorems, TLAPS

-----------------------------------------------------------------------------
(* Locks on the pid file (FileLocks).                                      *)

Steps(r, p) == FileLock!ScriptOf(script[r])[p]

\* How many steps of its script a process has done.
Gone(r, p) == Len(Steps(r, p)) - Len(steps[r][p])

LockScripts == {"fcntl_01", "fcntl_02", "fcntl_03", "fcntl_04", "flock_01", "flock_02", "none"}
Locking == {"waits", "asks"}
StepSet == [op : {"waits", "asks", "unlocks", "forks", "truncates", "writes"},
            kind : {"none", "read", "write"} \cup FileLock!Roles,
            on : {FileLock!Record, "fd1", "fd3"}]

\* Locks of different owners are read locks.
Compatible == \A l, m \in locks : l.owner # m.owner => l.kind = "read" /\ m.kind = "read"

\* Who has a record lock runs, and waits for no other lock; who has the lock of
\* a description has it as its script asks for it, and one of its processes runs.
RecordHolder(r, p) ==
  /\ lockers[r][p] = "runs"
  /\ \A k \in 1 .. Len(Steps(r, p)) : k > Gone(r, p) => Steps(r, p)[k].op # "waits"
DescriptionHolder(r, d, kind) ==
  /\ \E p \in FileLock!Roles : lockers[r][p] = "runs"
  /\ \/ script[r] = "flock_01" /\ kind = "read"
     \/ script[r] = "flock_02" /\ kind = "write" /\ d = "fd1"
Holders ==
  \A l \in locks :
    /\ l \in [owner : Runs \X (FileLock!Roles \cup {"fd1", "fd3"}), kind : {"read", "write"}]
    /\ l.owner[2] \in FileLock!Roles => RecordHolder(l.owner[1], l.owner[2])
    /\ l.owner[2] \notin FileLock!Roles => DescriptionHolder(l.owner[1], l.owner[2], l.kind)

\* An instance of fcntl_04 keeps its lock until it ends, a child starts when its
\* parent has done everything, and the offset counts what was written.
PidPair == {"parent", "child01"}
PidRun(r, p) == script[r] = "fcntl_04" /\ lockers[r][p] = "runs"
OneInstanceHolds ==
  \A r \in Runs, p \in PidPair :
    PidRun(r, p) /\ Gone(r, p) >= 1 => [owner |-> <<r, p>>, kind |-> "write"] \in locks
ChildAfterParent ==
  \A r \in Runs : script[r] = "fcntl_04" =>
    IF lockers[r]["child01"] = "absent" THEN Gone(r, "child01") = 0 ELSE Gone(r, "parent") = 4
Wrote(r, p) == IF script[r] = "fcntl_04" /\ Gone(r, p) >= 3 THEN 1 ELSE 0
OffsetCounts == \A r \in Runs : offset[r] = Wrote(r, "parent") + Wrote(r, "child01")
FileOf(r, p) == IF p = "parent" THEN <<<<r, p>>>> ELSE <<FileLock!Hole, <<r, p>>>>
HolderWrote ==
  \A r \in Runs, p \in PidPair : PidRun(r, p) =>
    /\ Gone(r, p) = 2 => file = <<>>
    /\ Gone(r, p) >= 3 => file = FileOf(r, p)

LockInv ==
  /\ FileLock!TypeOK
  /\ steps \in [Runs -> [FileLock!Roles -> Seq(StepSet)]]
  /\ Compatible
  /\ Holders
  /\ OneInstanceHolds
  /\ ChildAfterParent
  /\ OffsetCounts
  /\ HolderWrote

\* What the scripts are like: who holds a record lock waits for no other.
Rules(name, p, S) ==
  /\ \A k, l \in 1 .. Len(S) :
       S[k].op \in Locking /\ S[k].on = FileLock!Record /\ k < l => S[l].op # "waits"
  /\ \A k \in 1 .. Len(S) : S[k].op \in Locking =>
       /\ S[k].kind \in {"read", "write"}
       /\ S[k].on # FileLock!Record =>
            \/ name = "flock_01" /\ S[k].kind = "read"
            \/ name = "flock_02" /\ S[k].kind = "write" /\ S[k].on = "fd1"
       /\ name \in {"flock_01", "flock_02"} => S[k].on # FileLock!Record
  /\ \A k \in 1 .. Len(S) : S[k].op = "forks" =>
       /\ S[k].kind \in FileLock!Roles /\ S[k].kind # p
       /\ name = "fcntl_04" => p = "parent" /\ k = 4 /\ S[k].kind = "child01"
  /\ \A k \in 1 .. Len(S) : S[k].op \in {"truncates", "writes"} => name = "fcntl_04" /\ p \in PidPair
  /\ name = "fcntl_04" /\ p \in PidPair =>
       /\ Len(S) = IF p = "parent" THEN 4 ELSE 3
       /\ S[1] = [op |-> "asks", kind |-> "write", on |-> FileLock!Record]
       /\ S[2].op = "truncates" /\ S[3].op = "writes"
       /\ p = "parent" => S[4].op = "forks"
  /\ name = "fcntl_04" /\ p \notin PidPair => S = <<>>

\* Every script of file_lock.cpp:225-430 is a sequence of such steps.
LEMMA ScriptSeq ==
    ASSUME NEW name \in LockScripts, NEW p \in FileLock!Roles
    PROVE  FileLock!ScriptOf(name)[p] \in Seq(StepSet)
<1>1. /\ \A kind \in {"read", "write"}, on \in {FileLock!Record, "fd1", "fd3"} :
           FileLock!Waits(kind, on) \in StepSet /\ FileLock!Asks(kind, on) \in StepSet
      /\ \A q \in FileLock!Roles : FileLock!Forks(q) \in StepSet
      /\ {FileLock!Readw, FileLock!Writew, FileLock!Unlock, FileLock!Truncate, FileLock!WritePid}
           \subseteq StepSet
  BY DEF StepSet, FileLock!Waits, FileLock!Asks, FileLock!Readw, FileLock!Writew, FileLock!Unlock,
         FileLock!Forks, FileLock!Truncate, FileLock!WritePid, FileLock!Record
<1>. USE <1>1 DEF FileLock!Roles, FileLock!Script, FileLock!ScriptOf
<1>2. CASE name = "fcntl_01"
  BY <1>2 DEF FileLock!Fcntl01
<1>3. CASE name = "fcntl_02"
  BY <1>3 DEF FileLock!Fcntl02
<1>4. CASE name = "fcntl_03"
  BY <1>4 DEF FileLock!Fcntl03
<1>5. CASE name = "fcntl_04"
  BY <1>5 DEF FileLock!Fcntl04, FileLock!OneInstance
<1>6. CASE name = "flock_01"
  BY <1>6 DEF FileLock!Flock01
<1>7. CASE name = "flock_02"
  BY <1>7 DEF FileLock!Flock02
<1>8. CASE name = "none"
  BY <1>8
<1>. QED
  BY <1>2, <1>3, <1>4, <1>5, <1>6, <1>7, <1>8 DEF LockScripts

\* What the scripts are like: a record lock is never waited for by who has one,
\* and the instances of fcntl_04 lock, fork, truncate and write in that order.
LEMMA ScriptRules ==
    ASSUME NEW name \in LockScripts, NEW p \in FileLock!Roles
    PROVE  Rules(name, p, FileLock!ScriptOf(name)[p])
<1>. USE DEF FileLock!ScriptOf, FileLock!Script, FileLock!Roles, FileLock!Record, Rules, Locking,
             FileLock!Waits, FileLock!Asks, FileLock!Readw, FileLock!Writew, FileLock!Unlock,
             FileLock!Forks, FileLock!Truncate, FileLock!WritePid, PidPair
<1>1. CASE name = "fcntl_01"
  BY <1>1 DEF FileLock!Fcntl01
<1>2. CASE name = "fcntl_02"
  BY <1>2 DEF FileLock!Fcntl02
<1>3. CASE name = "fcntl_03"
  BY <1>3 DEF FileLock!Fcntl03
<1>4. CASE name = "fcntl_04"
  BY <1>4 DEF FileLock!Fcntl04, FileLock!OneInstance
<1>5. CASE name = "flock_01"
  BY <1>5 DEF FileLock!Flock01
<1>6. CASE name = "flock_02"
  BY <1>6 DEF FileLock!Flock02
<1>7. CASE name = "none"
  BY <1>7
<1>. QED
  BY <1>1, <1>2, <1>3, <1>4, <1>5, <1>6, <1>7 DEF LockScripts

\* A script that is under way, and the step it does next.
LEMMA UnderWay ==
    ASSUME LockInv, NEW r \in Runs, NEW p \in FileLock!Roles
    PROVE  /\ script[r] \in LockScripts
           /\ Steps(r, p) \in Seq(StepSet) /\ Rules(script[r], p, Steps(r, p))
           /\ Gone(r, p) \in 0 .. Len(Steps(r, p))
           /\ steps[r][p] = SubSeq(Steps(r, p), Gone(r, p) + 1, Len(Steps(r, p)))
<1>1. script[r] \in LockScripts
  <2>1. CASE script \in FileLock!Together
    <3>1. CASE script \in UNION {[Runs -> same] : same \in {{"fcntl_01", "fcntl_02"}, {"fcntl_04"},
                                                            {"flock_01", "flock_02"}}}
      <4>1. PICK T \in {[Runs -> same] : same \in {{"fcntl_01", "fcntl_02"}, {"fcntl_04"},
                                                   {"flock_01", "flock_02"}}} : script \in T
        BY <3>1
      <4>2. PICK same \in {{"fcntl_01", "fcntl_02"}, {"fcntl_04"}, {"flock_01", "flock_02"}} :
              script \in [Runs -> same]
        BY <4>1
      <4>. QED
        BY <4>2 DEF LockScripts
    <3>2. CASE script \in {[s \in Runs |-> IF s = only THEN "fcntl_03" ELSE "none"] : only \in Runs}
      BY <3>2 DEF LockScripts
    <3>3. \/ script \in UNION {[Runs -> same] : same \in {{"fcntl_01", "fcntl_02"}, {"fcntl_04"},
                                                          {"flock_01", "flock_02"}}}
          \/ script \in {[s \in Runs |-> IF s = only THEN "fcntl_03" ELSE "none"] : only \in Runs}
      BY <2>1, Zenon DEF FileLock!Together
    <3>. QED
      BY <3>1, <3>2, <3>3
  <2>2. CASE script = [s \in Runs |-> "none"]
    BY <2>2 DEF LockScripts
  <2>. QED
    BY <2>1, <2>2 DEF LockInv, FileLock!TypeOK
<1>2. Steps(r, p) \in Seq(StepSet) /\ Rules(script[r], p, Steps(r, p))
  BY <1>1, ScriptSeq, ScriptRules DEF Steps
<1>3. PICK n \in 0 .. Len(Steps(r, p)) : steps[r][p] = SubSeq(Steps(r, p), n + 1, Len(Steps(r, p)))
  BY DEF LockInv, FileLock!TypeOK, Steps
<1>4. Len(steps[r][p]) = Len(Steps(r, p)) - n
  BY <1>2, <1>3
<1>5. Gone(r, p) = n
  BY <1>2, <1>3, <1>4 DEF Gone
<1>. QED
  BY <1>1, <1>2, <1>3, <1>5

\* The next step of a process is the step of its script it has come to.
LEMMA NextStep ==
    ASSUME LockInv, NEW r \in Runs, NEW p \in FileLock!Roles, steps[r][p] # <<>>
    PROVE  /\ Gone(r, p) < Len(Steps(r, p))
           /\ FileLock!Step(r, p) = Steps(r, p)[Gone(r, p) + 1]
           /\ FileLock!Step(r, p) \in StepSet
           /\ Tail(steps[r][p]) = SubSeq(Steps(r, p), Gone(r, p) + 2, Len(Steps(r, p)))
           /\ Len(Tail(steps[r][p])) = Len(steps[r][p]) - 1
<1>. DEFINE S == Steps(r, p)  n == Gone(r, p)
<1>1. S \in Seq(StepSet) /\ n \in 0 .. Len(S) /\ steps[r][p] = SubSeq(S, n + 1, Len(S))
  BY UnderWay
<1>. HIDE DEF S, n
<1>2. n < Len(S)
  BY <1>1
<1>3. Head(steps[r][p]) = S[n + 1] /\ S[n + 1] \in StepSet
  BY <1>1, <1>2
<1>4. Tail(steps[r][p]) = SubSeq(S, n + 2, Len(S)) /\ Len(Tail(steps[r][p])) = Len(steps[r][p]) - 1
  BY <1>1, <1>2
<1>. QED
  BY <1>2, <1>3, <1>4 DEF S, n, FileLock!Step

\* One more step of one process is done.
LEMMA Advanced ==
    ASSUME LockInv, NEW r \in Runs, NEW p \in FileLock!Roles, steps[r][p] # <<>>,
           FileLock!Advance(r, p), script' = script
    PROVE  /\ steps' \in [Runs -> [FileLock!Roles -> Seq(StepSet)]]
           /\ \A s \in Runs, q \in FileLock!Roles :
                /\ Steps(s, q)' = Steps(s, q)
                /\ Gone(s, q)' = IF s = r /\ q = p THEN Gone(s, q) + 1 ELSE Gone(s, q)
                /\ \E n \in 0 .. Len(FileLock!ScriptOf(script[s])[q]) :
                     steps'[s][q] = SubSeq(FileLock!ScriptOf(script[s])[q], n + 1,
                                           Len(FileLock!ScriptOf(script[s])[q]))
<1>1. steps \in [Runs -> [FileLock!Roles -> Seq(StepSet)]]
  BY DEF LockInv
<1>2. \A s \in Runs, q \in FileLock!Roles :
         steps'[s][q] = IF s = r /\ q = p THEN Tail(steps[r][p]) ELSE steps[s][q]
  BY <1>1 DEF FileLock!Advance
<1>3. Tail(steps[r][p]) \in Seq(StepSet)
  BY <1>1
<1>4. steps' \in [Runs -> [FileLock!Roles -> Seq(StepSet)]]
  BY <1>1, <1>3 DEF FileLock!Advance
<1>5. ASSUME NEW s \in Runs, NEW q \in FileLock!Roles
      PROVE  /\ Steps(s, q)' = Steps(s, q)
             /\ Gone(s, q)' = IF s = r /\ q = p THEN Gone(s, q) + 1 ELSE Gone(s, q)
             /\ \E n \in 0 .. Len(FileLock!ScriptOf(script[s])[q]) :
                  steps'[s][q] = SubSeq(FileLock!ScriptOf(script[s])[q], n + 1,
                                        Len(FileLock!ScriptOf(script[s])[q]))
  <2>1. Steps(s, q)' = Steps(s, q)
    BY DEF Steps
  <2>2. /\ Steps(s, q) \in Seq(StepSet) /\ steps[s][q] \in Seq(StepSet)
        /\ Gone(s, q) \in 0 .. Len(Steps(s, q))
        /\ steps[s][q] = SubSeq(Steps(s, q), Gone(s, q) + 1, Len(Steps(s, q)))
    BY <1>1, UnderWay
  <2>3. Gone(s, q)' = IF s = r /\ q = p THEN Gone(s, q) + 1 ELSE Gone(s, q)
    <3>1. /\ Len(Tail(steps[r][p])) = Len(steps[r][p]) - 1
          /\ Len(Steps(s, q)) \in Nat /\ Len(steps[s][q]) \in Nat
      BY <2>2, NextStep
    <3>2. Gone(s, q)' = Len(Steps(s, q)) - Len(steps'[s][q])
      BY <2>1 DEF Gone
    <3>3. steps'[s][q] = IF s = r /\ q = p THEN Tail(steps[r][p]) ELSE steps[s][q]
      BY <1>2
    <3>4. Len(steps'[s][q]) = IF s = r /\ q = p THEN Len(steps[s][q]) - 1 ELSE Len(steps[s][q])
      BY <3>1, <3>3
    <3>5. Gone(s, q) = Len(Steps(s, q)) - Len(steps[s][q])
      BY DEF Gone
    <3>6. CASE s = r /\ q = p
      BY <3>1, <3>2, <3>4, <3>5, <3>6
    <3>7. CASE ~(s = r /\ q = p)
      BY <3>1, <3>2, <3>4, <3>5, <3>7
    <3>. QED
      BY <3>6, <3>7
  <2>4. CASE s = r /\ q = p
    <3>1. /\ Gone(r, p) < Len(Steps(r, p))
          /\ Tail(steps[r][p]) = SubSeq(Steps(r, p), Gone(r, p) + 2, Len(Steps(r, p)))
      BY NextStep
    <3>2. Gone(s, q) + 1 \in 0 .. Len(Steps(s, q)) /\ (Gone(s, q) + 1) + 1 = Gone(s, q) + 2
      BY <2>2, <2>4, <3>1
    <3>3. steps'[s][q] = SubSeq(Steps(s, q), (Gone(s, q) + 1) + 1, Len(Steps(s, q)))
      BY <1>2, <2>4, <3>1, <3>2
    <3>. QED
      BY <2>1, <2>3, <2>4, <3>2, <3>3 DEF Steps
  <2>5. CASE ~(s = r /\ q = p)
    <3>1. steps'[s][q] = steps[s][q]
      BY <1>2, <2>5
    <3>. QED
      BY <2>1, <2>2, <2>3, <2>5, <3>1 DEF Steps
  <2>. QED
    BY <2>4, <2>5
<1>. QED
  BY <1>4, <1>5

\* One instance of fcntl_04 is past its lock: two write locks are not compatible.
LEMMA OnlyOne ==
    ASSUME LockInv, NEW r \in Runs, NEW s \in Runs, NEW p \in PidPair, NEW q \in PidPair,
           PidRun(r, p), Gone(r, p) >= 1, PidRun(s, q), Gone(s, q) >= 1
    PROVE  s = r /\ q = p
<1>. DEFINE l == [owner |-> <<r, p>>, kind |-> "write"]
            m == [owner |-> <<s, q>>, kind |-> "write"]
<1>1. l \in locks /\ m \in locks
  BY DEF LockInv, OneInstanceHolds
<1>2. l.owner # m.owner => l.kind = "read"
  BY <1>1 DEF LockInv, Compatible
<1>. QED
  BY <1>2

\* What an instance of fcntl_04 does next.
LEMMA PidStep ==
    ASSUME LockInv, NEW r \in Runs, NEW p \in FileLock!Roles, steps[r][p] # <<>>
    PROVE  LET op == FileLock!Step(r, p).op IN
           /\ script[r] = "fcntl_04" =>
                /\ p \in PidPair
                /\ op \in Locking => Gone(r, p) = 0
                /\ op = "truncates" => Gone(r, p) = 1
                /\ op = "writes" => Gone(r, p) = 2
                /\ op # "unlocks"
                /\ op = "forks" => Gone(r, p) = 3 /\ p = "parent" /\ FileLock!Step(r, p).kind = "child01"
                /\ Gone(r, p) = 0 => FileLock!Step(r, p) = FileLock!Asks("write", FileLock!Record)
           /\ op \in {"truncates", "writes"} => script[r] = "fcntl_04"
<1>. DEFINE S == Steps(r, p)  n == Gone(r, p)
<1>1. /\ S \in Seq(StepSet) /\ n \in 0 .. Len(S) - 1 /\ FileLock!Step(r, p) = S[n + 1]
      /\ Rules(script[r], p, S)
  BY UnderWay, NextStep
<1>. HIDE DEF S, n
<1>2. ASSUME script[r] = "fcntl_04"
      PROVE  /\ p \in PidPair
             /\ n + 1 \in 1 .. (IF p = "parent" THEN 4 ELSE 3)
             /\ S[1] = FileLock!Asks("write", FileLock!Record)
             /\ S[1].op = "asks" /\ S[2].op = "truncates" /\ S[3].op = "writes"
             /\ p = "parent" => S[4].op = "forks" /\ S[4].kind = "child01"
  <2>1. p \in PidPair
    BY <1>1, <1>2 DEF Rules
  <2>. QED
    BY <1>1, <1>2, <2>1 DEF Rules, FileLock!Asks
<1>3. script[r] = "fcntl_04" => n = 0 \/ n = 1 \/ n = 2 \/ (n = 3 /\ p = "parent")
  BY <1>1, <1>2
<1>4. FileLock!Step(r, p).op \in {"truncates", "writes"} => script[r] = "fcntl_04"
  BY <1>1 DEF Rules
<1>. QED
  BY <1>1, <1>2, <1>3, <1>4 DEF S, n, Locking

\* The types after a step that was done, with what else changes.
LEMMA LockTypes ==
    ASSUME LockInv, NEW r \in Runs, NEW p \in FileLock!Roles, steps[r][p] # <<>>,
           FileLock!Advance(r, p), script' = script,
           lockers' \in [Runs -> [FileLock!Roles -> {"absent", "runs", "refused", "ended", "killed"}]],
           \A l \in locks' : l.owner[1] \in Runs /\ l.kind \in {"read", "write"},
           file' \in Seq(FileLock!Pids \cup {FileLock!Hole}), offset' \in [Runs -> 0 .. 2]
    PROVE  FileLock!TypeOK' /\ steps' \in [Runs -> [FileLock!Roles -> Seq(StepSet)]]
<1>1. script' \in FileLock!Together \cup {[s \in Runs |-> "none"]}
  BY DEF LockInv, FileLock!TypeOK
<1>. QED
  BY <1>1, Advanced DEF FileLock!TypeOK

\* How far every process is then.
LEMMA OneFurther ==
    ASSUME LockInv, NEW r \in Runs, NEW p \in FileLock!Roles, steps[r][p] # <<>>,
           FileLock!Advance(r, p), script' = script, NEW s \in Runs, NEW q \in FileLock!Roles
    PROVE  /\ Steps(s, q)' = Steps(s, q) /\ Gone(s, q) \in Nat /\ Gone(s, q)' \in Nat
           /\ s = r /\ q = p => Gone(s, q)' = Gone(s, q) + 1
           /\ ~(s = r /\ q = p) => Gone(s, q)' = Gone(s, q)
<1>1. Gone(s, q) \in Nat
  BY UnderWay
<1>2. Steps(s, q)' = Steps(s, q)
  BY Advanced
<1>3. Gone(s, q)' = IF s = r /\ q = p THEN Gone(s, q) + 1 ELSE Gone(s, q)
  BY Advanced
<1>. QED
  BY <1>1, <1>2, <1>3

\* Who holds a record lock goes on holding it while it runs.
LEMMA StillHolder ==
    ASSUME LockInv, NEW r \in Runs, NEW p \in FileLock!Roles, steps[r][p] # <<>>,
           FileLock!Advance(r, p), script' = script, NEW s \in Runs, NEW q \in FileLock!Roles,
           RecordHolder(s, q), lockers'[s][q] = "runs"
    PROVE  RecordHolder(s, q)'
<1>1. Steps(s, q)' = Steps(s, q) /\ Gone(s, q) \in Nat /\ Gone(s, q)' \in Nat /\ Gone(s, q)' >= Gone(s, q)
  BY OneFurther
<1>2. Len(Steps(s, q)) \in Nat
  BY UnderWay
<1>. QED
  BY <1>1, <1>2 DEF RecordHolder

\* A step that is not the writing of the pid leaves the offset right.
LEMMA SameWrites ==
    ASSUME LockInv, NEW r \in Runs, NEW p \in FileLock!Roles, steps[r][p] # <<>>,
           FileLock!Advance(r, p), UNCHANGED <<script, offset>>,
           script[r] = "fcntl_04" => Gone(r, p) # 2
    PROVE  OffsetCounts'
<1>1. ASSUME NEW s \in Runs, NEW q \in PidPair
      PROVE  Wrote(s, q)' = Wrote(s, q)
  <2>1. q \in FileLock!Roles
    BY DEF PidPair, FileLock!Roles
  <2>2. /\ Gone(s, q) \in Nat /\ Gone(s, q)' \in Nat
        /\ s = r /\ q = p => Gone(s, q)' = Gone(s, q) + 1
        /\ ~(s = r /\ q = p) => Gone(s, q)' = Gone(s, q)
    BY <2>1, OneFurther
  <2>3. CASE s = r /\ q = p
    BY <2>2, <2>3 DEF Wrote
  <2>4. CASE ~(s = r /\ q = p)
    BY <2>2, <2>4 DEF Wrote
  <2>. QED
    BY <2>3, <2>4
<1>2. "parent" \in PidPair /\ "child01" \in PidPair
  BY DEF PidPair
<1>. QED
  BY <1>1, <1>2 DEF LockInv, OffsetCounts

\* And one that is neither that nor the truncation leaves what the pid file holds.
LEMMA SameFile ==
    ASSUME LockInv, NEW r \in Runs, NEW p \in FileLock!Roles, steps[r][p] # <<>>,
           FileLock!Advance(r, p), UNCHANGED <<script, file>>,
           script[r] = "fcntl_04" => Gone(r, p) \notin {1, 2},
           \A s \in Runs, q \in PidPair : script[s] = "fcntl_04" /\ lockers'[s][q] = "runs" =>
             lockers[s][q] = "runs" \/ (Gone(s, q) = 0 /\ ~(s = r /\ q = p))
    PROVE  HolderWrote'
<1>. SUFFICES ASSUME NEW s \in Runs, NEW q \in PidPair, PidRun(s, q)', Gone(s, q)' >= 2
              PROVE  /\ Gone(s, q)' = 2 => file' = <<>>
                     /\ Gone(s, q)' >= 3 => file' = FileOf(s, q)'
  <2>1. \A s \in Runs, q \in PidPair : Gone(s, q)' \in Nat
    BY OneFurther DEF PidPair, FileLock!Roles
  <2>. QED
    BY <2>1 DEF HolderWrote
<1>1. /\ Gone(s, q) \in Nat /\ Gone(s, q)' \in Nat
      /\ s = r /\ q = p => Gone(s, q)' = Gone(s, q) + 1
      /\ ~(s = r /\ q = p) => Gone(s, q)' = Gone(s, q)
  <2>1. q \in FileLock!Roles
    BY DEF PidPair, FileLock!Roles
  <2>. QED
    BY <2>1, OneFurther
<1>2. PidRun(s, q) /\ (Gone(s, q) = 2 => Gone(s, q)' = 2) /\ (Gone(s, q)' = 2 => Gone(s, q) = 2)
        /\ (Gone(s, q)' >= 3 => Gone(s, q) >= 3)
  BY <1>1 DEF PidRun
<1>3. /\ Gone(s, q) = 2 => file = <<>>
      /\ Gone(s, q) >= 3 => file = FileOf(s, q)
  BY <1>2 DEF LockInv, HolderWrote
<1>. QED
  BY <1>2, <1>3 DEF FileOf

\* A lock that is asked for and granted.
LEMMA LockStep ==
    ASSUME LockInv, NEW r \in Runs, NEW p \in FileLock!Roles, FileLock!Lock(r, p)
    PROVE  LockInv'
<1>1. PICK now, new :
        /\ now = FileLock!Step(r, p)
        /\ new = [owner |-> IF now.on = FileLock!Record THEN <<r, p>> ELSE <<r, now.on>>,
                  kind |-> now.kind]
  OBVIOUS
<1>2. /\ steps[r][p] # <<>> /\ lockers[r][p] = "runs"
      /\ now.op \in Locking
      /\ locks' = {l \in locks : l.owner # new.owner} \cup {new}
      /\ \A l \in locks : l.owner # new.owner => new.kind # "write" /\ l.kind # "write"
      /\ FileLock!Advance(r, p) /\ UNCHANGED <<script, lockers, file, offset>>
  BY <1>1 DEF FileLock!Lock, FileLock!Does, FileLock!Alive, FileLock!Step, FileLock!Granted,
              FileLock!Conflict, FileLock!Ask, FileLock!Owner, Locking
<1>3. \A s \in Runs, q \in FileLock!Roles :
        /\ Gone(s, q) \in Nat
        /\ s = r /\ q = p => Gone(s, q)' = Gone(s, q) + 1
        /\ ~(s = r /\ q = p) => Gone(s, q)' = Gone(s, q)
  BY <1>2, OneFurther
<1>4. \* what the script says of this step
      /\ now.kind \in {"read", "write"} /\ now.on \in {FileLock!Record, "fd1", "fd3"}
      /\ now.on = FileLock!Record =>
           \A k \in 1 .. Len(Steps(r, p)) : k > Gone(r, p) + 1 => Steps(r, p)[k].op # "waits"
      /\ now.on # FileLock!Record =>
           \/ script[r] = "flock_01" /\ now.kind = "read"
           \/ script[r] = "flock_02" /\ now.kind = "write" /\ now.on = "fd1"
  <2>1. /\ Gone(r, p) + 1 \in 1 .. Len(Steps(r, p)) /\ now = Steps(r, p)[Gone(r, p) + 1]
        /\ now \in StepSet /\ Rules(script[r], p, Steps(r, p))
    BY <1>1, <1>2, UnderWay, NextStep
  <2>. QED
    BY <1>2, <2>1 DEF Rules, StepSet
<1>5. /\ new.owner = IF now.on = FileLock!Record THEN <<r, p>> ELSE <<r, now.on>>
      /\ new.kind = now.kind
      /\ new \in [owner : Runs \X (FileLock!Roles \cup {"fd1", "fd3"}), kind : {"read", "write"}]
      /\ new.owner[2] \in FileLock!Roles <=> now.on = FileLock!Record
  BY <1>1, <1>4 DEF FileLock!Roles, FileLock!Record
<1>6. FileLock!TypeOK' /\ steps' \in [Runs -> [FileLock!Roles -> Seq(StepSet)]]
  <2>1. \A l \in locks' : l.owner[1] \in Runs /\ l.kind \in {"read", "write"}
    BY <1>2, <1>5 DEF LockInv, FileLock!TypeOK
  <2>. QED
    BY <1>2, <2>1, LockTypes DEF LockInv, FileLock!TypeOK
<1>7. Compatible'
  <2>1. \A l \in locks : l.kind \in {"read", "write"}
    BY DEF LockInv, FileLock!TypeOK
  <2>. QED
    BY <1>2, <1>5, <2>1 DEF Compatible, LockInv
<1>11. Holders'
  <2>1. ASSUME NEW l \in locks
        PROVE  /\ l.owner[2] \in FileLock!Roles => RecordHolder(l.owner[1], l.owner[2])'
               /\ l.owner[2] \notin FileLock!Roles =>
                    DescriptionHolder(l.owner[1], l.owner[2], l.kind)'
    <3>1. l.owner[1] \in Runs
      BY DEF LockInv, FileLock!TypeOK
    <3>2. l.owner[2] \in FileLock!Roles => RecordHolder(l.owner[1], l.owner[2])'
      <4>. SUFFICES ASSUME l.owner[2] \in FileLock!Roles PROVE RecordHolder(l.owner[1], l.owner[2])'
        OBVIOUS
      <4>1. RecordHolder(l.owner[1], l.owner[2])
        BY DEF LockInv, Holders
      <4>2. lockers'[l.owner[1]][l.owner[2]] = "runs"
        BY <1>2, <4>1 DEF RecordHolder
      <4>. QED
        BY <1>2, <3>1, <4>1, <4>2, StillHolder
    <3>. QED
      BY <1>2, <3>2 DEF LockInv, Holders, DescriptionHolder
  <2>2. now.on = FileLock!Record => RecordHolder(r, p)'
    <3>1. Steps(r, p)' = Steps(r, p) /\ Gone(r, p)' = Gone(r, p) + 1
      BY <1>2, OneFurther
    <3>. QED
      BY <1>2, <1>4, <3>1 DEF RecordHolder
  <2>3. now.on # FileLock!Record => DescriptionHolder(r, now.on, now.kind)'
    BY <1>2, <1>4 DEF DescriptionHolder
  <2>4. /\ new.owner[2] \in FileLock!Roles => RecordHolder(new.owner[1], new.owner[2])'
        /\ new.owner[2] \notin FileLock!Roles =>
             DescriptionHolder(new.owner[1], new.owner[2], new.kind)'
    BY <1>5, <2>2, <2>3
  <2>5. \A l \in locks : l \in [owner : Runs \X (FileLock!Roles \cup {"fd1", "fd3"}), kind : {"read", "write"}]
    BY DEF LockInv, Holders
  <2>. QED
    BY <1>2, <1>5, <2>1, <2>4, <2>5 DEF Holders
<1>8. OneInstanceHolds'
  <2>. SUFFICES ASSUME NEW s \in Runs, NEW q \in PidPair, PidRun(s, q)', Gone(s, q)' >= 1
                PROVE  [owner |-> <<s, q>>, kind |-> "write"] \in locks'
    BY DEF OneInstanceHolds
  <2>1. q \in FileLock!Roles /\ PidRun(s, q)
    BY <1>2 DEF PidPair, FileLock!Roles, PidRun
  <2>2. CASE s = r /\ q = p
    <3>1. Gone(r, p) = 0
      BY <1>1, <1>2, <2>1, <2>2, PidStep DEF PidRun
    <3>2. FileLock!Step(r, p) = FileLock!Asks("write", FileLock!Record)
      BY <1>2, <2>1, <2>2, <3>1, PidStep DEF PidRun
    <3>3. new = [owner |-> <<r, p>>, kind |-> "write"]
      BY <1>1, <3>2 DEF FileLock!Asks
    <3>. QED
      BY <1>2, <2>2, <3>3
  <2>3. CASE ~(s = r /\ q = p)
    <3>1. [owner |-> <<s, q>>, kind |-> "write"] \in locks
      BY <1>3, <2>1, <2>3 DEF LockInv, OneInstanceHolds
    <3>2. new.owner # <<s, q>>
      BY <1>4, <1>5, <2>3 DEF PidPair, FileLock!Record
    <3>. QED
      BY <1>2, <3>1, <3>2
  <2>. QED
    BY <2>2, <2>3
<1>9. ChildAfterParent'
  <2>1. script[r] = "fcntl_04" => Gone(r, p) = 0
    BY <1>1, <1>2, PidStep
  <2>. QED
    BY SMTT(30), <1>2, <1>3, <2>1 DEF LockInv, ChildAfterParent, FileLock!Roles
<1>10. OffsetCounts' /\ HolderWrote'
  <2>1. script[r] = "fcntl_04" => Gone(r, p) = 0
    BY <1>1, <1>2, PidStep
  <2>. QED
    BY <1>2, <2>1, SameWrites, SameFile
<1>. QED
  BY <1>6, <1>7, <1>8, <1>9, <1>10, <1>11 DEF LockInv

\* A lock that is given back.
LEMMA UnlockStep ==
    ASSUME LockInv, NEW r \in Runs, NEW p \in FileLock!Roles, FileLock!Un(r, p)
    PROVE  LockInv'
<1>1. /\ steps[r][p] # <<>> /\ lockers[r][p] = "runs" /\ FileLock!Step(r, p).op = "unlocks"
      /\ locks' = {l \in locks : l.owner # <<r, p>>}
      /\ FileLock!Advance(r, p) /\ UNCHANGED <<script, lockers, file, offset>>
  BY DEF FileLock!Un, FileLock!Does, FileLock!Alive, FileLock!Step
<1>2. script[r] # "fcntl_04"
  BY <1>1, PidStep
<1>3. \A s \in Runs, q \in FileLock!Roles : ~(s = r /\ q = p) => Gone(s, q)' = Gone(s, q)
  BY <1>1, OneFurther
<1>4. FileLock!TypeOK' /\ steps' \in [Runs -> [FileLock!Roles -> Seq(StepSet)]]
  BY <1>1, LockTypes DEF LockInv, FileLock!TypeOK
<1>5. Compatible'
  BY <1>1 DEF LockInv, Compatible
<1>6. Holders'
  <2>1. ASSUME NEW l \in locks, l.owner[2] \in FileLock!Roles
        PROVE  RecordHolder(l.owner[1], l.owner[2])'
    <3>1. l.owner[1] \in Runs /\ RecordHolder(l.owner[1], l.owner[2])
      BY <2>1 DEF LockInv, Holders, FileLock!TypeOK
    <3>2. lockers'[l.owner[1]][l.owner[2]] = "runs"
      BY <1>1, <3>1 DEF RecordHolder
    <3>. QED
      BY <1>1, <2>1, <3>1, <3>2, StillHolder
  <2>. QED
    BY <1>1, <2>1 DEF LockInv, Holders, DescriptionHolder
<1>7. OneInstanceHolds'
  BY <1>1, <1>2, <1>3 DEF LockInv, OneInstanceHolds, PidRun, PidPair, FileLock!Roles
<1>8. ChildAfterParent'
  BY <1>1, <1>2, <1>3 DEF LockInv, ChildAfterParent, FileLock!Roles
<1>9. OffsetCounts' /\ HolderWrote'
  BY <1>1, <1>2, SameWrites, SameFile
<1>. QED
  BY <1>4, <1>5, <1>6, <1>7, <1>8, <1>9 DEF LockInv

\* A child that starts.
LEMMA ForkStep ==
    ASSUME LockInv, NEW r \in Runs, NEW p \in FileLock!Roles, FileLock!Fork(r, p)
    PROVE  LockInv'
<1>1. PICK kid : kid = FileLock!Step(r, p).kind
  OBVIOUS
<1>2. /\ steps[r][p] # <<>> /\ lockers[r][p] = "runs" /\ FileLock!Step(r, p).op = "forks"
      /\ lockers' = [lockers EXCEPT ![r][kid] = "runs"]
      /\ FileLock!Advance(r, p) /\ UNCHANGED <<script, locks, file, offset>>
  BY <1>1 DEF FileLock!Fork, FileLock!Does, FileLock!Alive, FileLock!Step, FileLock!Become
<1>3. kid \in FileLock!Roles /\ kid # p
  <2>1. /\ Gone(r, p) + 1 \in 1 .. Len(Steps(r, p))
        /\ FileLock!Step(r, p) = Steps(r, p)[Gone(r, p) + 1] /\ Rules(script[r], p, Steps(r, p))
    BY <1>2, UnderWay, NextStep
  <2>. QED
    BY <1>1, <1>2, <2>1 DEF Rules
<1>4. script[r] = "fcntl_04" => Gone(r, p) = 3 /\ p = "parent" /\ kid = "child01"
  BY <1>1, <1>2, PidStep
<1>5. \A s \in Runs, q \in FileLock!Roles :
        lockers'[s][q] = IF s = r /\ q = kid THEN "runs" ELSE lockers[s][q]
  BY <1>2, <1>3 DEF LockInv, FileLock!TypeOK
<1>6. \A s \in Runs, q \in FileLock!Roles :
        /\ Gone(s, q) \in Nat
        /\ s = r /\ q = p => Gone(s, q)' = Gone(s, q) + 1
        /\ ~(s = r /\ q = p) => Gone(s, q)' = Gone(s, q)
  BY <1>2, OneFurther
<1>7. script[r] = "fcntl_04" => lockers[r]["child01"] = "absent" /\ Gone(r, "child01") = 0
  BY <1>4 DEF LockInv, ChildAfterParent
<1>8. FileLock!TypeOK' /\ steps' \in [Runs -> [FileLock!Roles -> Seq(StepSet)]]
  <2>1. lockers' \in [Runs -> [FileLock!Roles -> {"absent", "runs", "refused", "ended", "killed"}]]
    BY <1>2, <1>3 DEF LockInv, FileLock!TypeOK
  <2>. QED
    BY <1>2, <2>1, LockTypes DEF LockInv, FileLock!TypeOK
<1>9. Compatible'
  BY <1>2 DEF LockInv, Compatible
<1>10. Holders'
  <2>1. ASSUME NEW l \in locks, l.owner[2] \in FileLock!Roles
        PROVE  RecordHolder(l.owner[1], l.owner[2])'
    <3>1. l.owner[1] \in Runs /\ RecordHolder(l.owner[1], l.owner[2])
      BY <2>1 DEF LockInv, Holders, FileLock!TypeOK
    <3>2. lockers'[l.owner[1]][l.owner[2]] = "runs"
      BY <1>5, <2>1, <3>1 DEF RecordHolder
    <3>. QED
      BY <1>2, <2>1, <3>1, <3>2, StillHolder
  <2>2. ASSUME NEW l \in locks, l.owner[2] \notin FileLock!Roles
        PROVE  DescriptionHolder(l.owner[1], l.owner[2], l.kind)'
    <3>1. l.owner[1] \in Runs /\ DescriptionHolder(l.owner[1], l.owner[2], l.kind)
      BY <2>2 DEF LockInv, Holders, FileLock!TypeOK
    <3>2. \E q \in FileLock!Roles : lockers'[l.owner[1]][q] = "runs"
      BY <1>5, <3>1 DEF DescriptionHolder
    <3>. QED
      BY <1>2, <3>1, <3>2 DEF DescriptionHolder
  <2>. QED
    BY <1>2, <2>1, <2>2 DEF LockInv, Holders
<1>11. OneInstanceHolds'
  <2>. SUFFICES ASSUME NEW s \in Runs, NEW q \in PidPair, PidRun(s, q)', Gone(s, q)' >= 1
                PROVE  [owner |-> <<s, q>>, kind |-> "write"] \in locks
    BY <1>2 DEF OneInstanceHolds
  <2>1. q \in FileLock!Roles
    BY DEF PidPair, FileLock!Roles
  <2>2. PidRun(s, q) /\ Gone(s, q) >= 1
    BY <1>2, <1>4, <1>5, <1>6, <1>7, <2>1 DEF PidRun
  <2>. QED
    BY <2>2 DEF LockInv, OneInstanceHolds
<1>12. ChildAfterParent'
  <2>. SUFFICES ASSUME NEW s \in Runs, script[s] = "fcntl_04"
                PROVE  IF lockers'[s]["child01"] = "absent" THEN Gone(s, "child01")' = 0
                       ELSE Gone(s, "parent")' = 4
    BY <1>2 DEF ChildAfterParent
  <2>1. "parent" \in FileLock!Roles /\ "child01" \in FileLock!Roles
    BY DEF FileLock!Roles
  <2>2. CASE s = r
    BY <1>4, <1>5, <1>6, <2>1, <2>2
  <2>3. CASE s # r
    BY <1>5, <1>6, <2>1, <2>3 DEF LockInv, ChildAfterParent
  <2>. QED
    BY <2>2, <2>3
<1>13. OffsetCounts' /\ HolderWrote'
  <2>1. \A s \in Runs, q \in PidPair : script[s] = "fcntl_04" /\ lockers'[s][q] = "runs" =>
             lockers[s][q] = "runs" \/ (Gone(s, q) = 0 /\ ~(s = r /\ q = p))
    BY <1>3, <1>4, <1>5, <1>7 DEF PidPair, FileLock!Roles
  <2>2. script[r] = "fcntl_04" => Gone(r, p) \notin {1, 2}
    BY <1>4
  <2>. QED
    BY <1>2, <2>1, <2>2, SameWrites, SameFile
<1>. QED
  BY <1>8, <1>9, <1>10, <1>11, <1>12, <1>13 DEF LockInv

\* The pid file is emptied, or written: by the one instance that has the lock.
LEMMA OwnFile ==
    ASSUME LockInv, NEW r \in Runs, NEW p \in FileLock!Roles, steps[r][p] # <<>>,
           lockers[r][p] = "runs", FileLock!Step(r, p).op \in {"truncates", "writes"},
           FileLock!Advance(r, p), UNCHANGED <<script, lockers, locks>>
    PROVE  /\ script[r] = "fcntl_04" /\ p \in PidPair /\ Gone(r, p) \in {1, 2}
           /\ Gone(r, p) = IF FileLock!Step(r, p).op = "truncates" THEN 1 ELSE 2
           /\ \A s \in Runs, q \in PidPair :
                PidRun(s, q)' /\ Gone(s, q)' >= 2 => s = r /\ q = p
           /\ Compatible' /\ Holders' /\ OneInstanceHolds' /\ ChildAfterParent'
<1>1. /\ script[r] = "fcntl_04" /\ p \in PidPair /\ Gone(r, p) \in {1, 2}
      /\ Gone(r, p) = IF FileLock!Step(r, p).op = "truncates" THEN 1 ELSE 2
  BY PidStep
<1>2. \A s \in Runs, q \in FileLock!Roles :
        /\ Gone(s, q) \in Nat
        /\ s = r /\ q = p => Gone(s, q)' = Gone(s, q) + 1
        /\ ~(s = r /\ q = p) => Gone(s, q)' = Gone(s, q)
  BY OneFurther
<1>3. \A q \in PidPair : q \in FileLock!Roles
  BY DEF PidPair, FileLock!Roles
<1>4. ASSUME NEW s \in Runs, NEW q \in PidPair, PidRun(s, q)', Gone(s, q)' >= 1
      PROVE  PidRun(s, q) /\ Gone(s, q) >= 1
  BY <1>1, <1>2, <1>3, <1>4 DEF PidRun
<1>5. ASSUME NEW s \in Runs, NEW q \in PidPair, PidRun(s, q)', Gone(s, q)' >= 2
      PROVE  s = r /\ q = p
  <2>1. PidRun(s, q) /\ Gone(s, q) >= 1
    BY <1>2, <1>3, <1>4, <1>5
  <2>2. PidRun(r, p) /\ Gone(r, p) >= 1
    BY <1>1 DEF PidRun
  <2>. QED
    BY <1>1, <2>1, <2>2, OnlyOne
<1>6. OneInstanceHolds'
  BY <1>4 DEF LockInv, OneInstanceHolds
<1>7. ChildAfterParent'
  <2>1. lockers[r]["child01"] = "absent" => p = "parent"
    BY <1>1 DEF PidPair
  <2>2. p = "parent" => lockers[r]["child01"] = "absent"
    BY <1>1 DEF LockInv, ChildAfterParent
  <2>3. "parent" \in FileLock!Roles /\ "child01" \in FileLock!Roles
    BY DEF FileLock!Roles
  <2>. QED
    BY <1>1, <1>2, <2>1, <2>2, <2>3 DEF LockInv, ChildAfterParent
<1>8. Compatible'
  BY DEF LockInv, Compatible
<1>9. Holders'
  <2>1. ASSUME NEW l \in locks, l.owner[2] \in FileLock!Roles
        PROVE  RecordHolder(l.owner[1], l.owner[2])'
    <3>1. l.owner[1] \in Runs /\ RecordHolder(l.owner[1], l.owner[2])
      BY <2>1 DEF LockInv, Holders, FileLock!TypeOK
    <3>2. lockers'[l.owner[1]][l.owner[2]] = "runs"
      BY <3>1 DEF RecordHolder
    <3>. QED
      BY <2>1, <3>1, <3>2, StillHolder
  <2>. QED
    BY <2>1 DEF LockInv, Holders, DescriptionHolder
<1>. QED
  BY <1>1, <1>5, <1>6, <1>7, <1>8, <1>9

\* The instance that has the lock empties the file.
LEMMA TruncateStep ==
    ASSUME LockInv, NEW r \in Runs, NEW p \in FileLock!Roles, FileLock!Ftruncate(r, p)
    PROVE  LockInv'
<1>1. /\ steps[r][p] # <<>> /\ lockers[r][p] = "runs" /\ FileLock!Step(r, p).op = "truncates"
      /\ file' = <<>>
      /\ FileLock!Advance(r, p) /\ UNCHANGED <<script, lockers, locks, offset>>
  BY DEF FileLock!Ftruncate, FileLock!Does, FileLock!Alive, FileLock!Step
<1>2. /\ script[r] = "fcntl_04" /\ Gone(r, p) = 1
      /\ \A s \in Runs, q \in PidPair : PidRun(s, q)' /\ Gone(s, q)' >= 2 => s = r /\ q = p
      /\ Compatible' /\ Holders' /\ OneInstanceHolds' /\ ChildAfterParent'
  BY <1>1, OwnFile
<1>3. FileLock!TypeOK' /\ steps' \in [Runs -> [FileLock!Roles -> Seq(StepSet)]]
  <2>1. file' \in Seq(FileLock!Pids \cup {FileLock!Hole})
    BY <1>1
  <2>2. /\ lockers' \in [Runs -> [FileLock!Roles -> {"absent", "runs", "refused", "ended", "killed"}]]
        /\ \A l \in locks' : l.owner[1] \in Runs /\ l.kind \in {"read", "write"}
        /\ offset' \in [Runs -> 0 .. 2]
    BY <1>1 DEF LockInv, FileLock!TypeOK
  <2>. QED
    BY <1>1, <2>1, <2>2, LockTypes
<1>4. OffsetCounts'
  BY <1>1, <1>2, SameWrites
<1>5. HolderWrote'
  <2>1. \A s \in Runs, q \in PidPair :
          /\ Gone(s, q)' \in Nat
          /\ s = r /\ q = p => Gone(s, q)' = 2
    BY <1>1, <1>2, OneFurther DEF PidPair, FileLock!Roles
  <2>. QED
    BY <1>1, <1>2, <2>1 DEF HolderWrote
<1>. QED
  BY <1>2, <1>3, <1>4, <1>5 DEF LockInv

\* It writes its pid, at its offset.
LEMMA WriteStep ==
    ASSUME LockInv, NEW r \in Runs, NEW p \in FileLock!Roles, FileLock!Write(r, p)
    PROVE  LockInv'
<1>1. /\ steps[r][p] # <<>> /\ lockers[r][p] = "runs" /\ FileLock!Step(r, p).op = "writes"
      /\ file' = FileLock!WriteAt(file, offset[r], <<r, p>>)
      /\ offset' = [offset EXCEPT ![r] = @ + 1]
      /\ FileLock!Advance(r, p) /\ UNCHANGED <<script, lockers, locks>>
  BY DEF FileLock!Write, FileLock!Does, FileLock!Alive, FileLock!Step
<1>2. /\ script[r] = "fcntl_04" /\ p \in PidPair /\ Gone(r, p) = 2
      /\ \A s \in Runs, q \in PidPair : PidRun(s, q)' /\ Gone(s, q)' >= 2 => s = r /\ q = p
      /\ Compatible' /\ Holders' /\ OneInstanceHolds' /\ ChildAfterParent'
  BY <1>1, OwnFile
<1>3. \A s \in Runs, q \in PidPair :
        /\ Gone(s, q) \in Nat
        /\ s = r /\ q = p => Gone(s, q)' = 3
        /\ ~(s = r /\ q = p) => Gone(s, q)' = Gone(s, q)
  BY <1>1, <1>2, OneFurther DEF PidPair, FileLock!Roles
<1>4. file = <<>>
  BY <1>1, <1>2 DEF LockInv, HolderWrote, PidRun
<1>5. /\ offset \in [Runs -> 0 .. 2]
      /\ p = "parent" => offset[r] = 0
      /\ p = "child01" => offset[r] = 1
  <2>1. offset \in [Runs -> 0 .. 2]
    BY DEF LockInv, FileLock!TypeOK
  <2>2. offset[r] = Wrote(r, "parent") + Wrote(r, "child01")
    BY DEF LockInv, OffsetCounts
  <2>3. IF lockers[r]["child01"] = "absent" THEN Gone(r, "child01") = 0 ELSE Gone(r, "parent") = 4
    BY <1>2 DEF LockInv, ChildAfterParent
  <2>4. p = "parent" => Wrote(r, "parent") = 0 /\ Wrote(r, "child01") = 0
    BY <1>2, <2>3 DEF Wrote
  <2>5. p = "child01" => Wrote(r, "parent") = 1 /\ Wrote(r, "child01") = 0
    BY <1>1, <1>2, <2>3 DEF Wrote
  <2>. QED
    BY <2>1, <2>2, <2>4, <2>5
<1>6. file' = FileOf(r, p)
  <2>1. Len(file) = 0
    BY <1>4
  <2>2. CASE p = "parent"
    <3>1. file' = [i \in 1 .. 1 |-> <<r, p>>]
      BY <1>1, <1>5, <2>1, <2>2 DEF FileLock!WriteAt
    <3>. QED
      BY <2>2, <3>1 DEF FileOf
  <2>3. CASE p = "child01"
    <3>1. file' = [i \in 1 .. 2 |-> IF i = 2 THEN <<r, p>> ELSE FileLock!Hole]
      BY <1>1, <1>5, <2>1, <2>3 DEF FileLock!WriteAt
    <3>. QED
      BY <2>3, <3>1 DEF FileOf
  <2>. QED
    BY <1>2, <2>2, <2>3 DEF PidPair
<1>7. FileLock!TypeOK' /\ steps' \in [Runs -> [FileLock!Roles -> Seq(StepSet)]]
  <2>1. <<r, p>> \in FileLock!Pids
    BY DEF FileLock!Pids
  <2>2. file' \in Seq(FileLock!Pids \cup {FileLock!Hole})
    <3>1. CASE p = "parent"
      BY <1>6, <2>1, <3>1 DEF FileOf
    <3>2. CASE p # "parent"
      BY <1>6, <2>1, <3>2 DEF FileOf
    <3>. QED
      BY <3>1, <3>2
  <2>3. offset' \in [Runs -> 0 .. 2]
    BY <1>1, <1>2, <1>5 DEF PidPair
  <2>4. /\ lockers' \in [Runs -> [FileLock!Roles -> {"absent", "runs", "refused", "ended", "killed"}]]
        /\ \A l \in locks' : l.owner[1] \in Runs /\ l.kind \in {"read", "write"}
    BY <1>1 DEF LockInv, FileLock!TypeOK
  <2>. QED
    BY <1>1, <2>2, <2>3, <2>4, LockTypes
<1>8. OffsetCounts'
  <2>. SUFFICES ASSUME NEW s \in Runs
                PROVE  offset'[s] = Wrote(s, "parent")' + Wrote(s, "child01")'
    BY DEF OffsetCounts
  <2>1. "parent" \in PidPair /\ "child01" \in PidPair
    BY DEF PidPair
  <2>2. offset[s] = Wrote(s, "parent") + Wrote(s, "child01")
    BY DEF LockInv, OffsetCounts
  <2>3. ASSUME NEW q \in PidPair
        PROVE  /\ s = r /\ q = p => Wrote(s, q)' = 1 /\ Wrote(s, q) = 0
               /\ ~(s = r /\ q = p) => Wrote(s, q)' = Wrote(s, q)
    <3>1. CASE s = r /\ q = p
      <4>1. Gone(s, q)' = 3 /\ Gone(s, q) = 2 /\ script'[s] = "fcntl_04"
        BY <1>1, <1>2, <1>3, <3>1
      <4>. QED
        BY <3>1, <4>1 DEF Wrote
    <3>2. CASE ~(s = r /\ q = p)
      <4>1. Gone(s, q)' = Gone(s, q)
        BY <1>3, <3>2
      <4>. QED
        BY <1>1, <3>2, <4>1 DEF Wrote
    <3>. QED
      BY <3>1, <3>2
  <2>4. \A q \in PidPair : Wrote(s, q) \in {0, 1}
    BY DEF Wrote
  <2>5. CASE s = r
    <3>1. offset'[s] = offset[s] + 1
      BY <1>1, <1>5, <2>5
    <3>2. Wrote(s, "parent")' + Wrote(s, "child01")' = Wrote(s, "parent") + Wrote(s, "child01") + 1
      BY <1>2, <2>1, <2>3, <2>4, <2>5 DEF PidPair
    <3>. QED
      BY <2>2, <3>1, <3>2
  <2>6. CASE s # r
    <3>1. offset'[s] = offset[s]
      BY <1>1, <1>5, <2>6
    <3>. QED
      BY <2>1, <2>2, <2>3, <2>6, <3>1
  <2>. QED
    BY <2>5, <2>6
<1>9. HolderWrote'
  BY <1>2, <1>3, <1>6 DEF HolderWrote, FileOf
<1>. QED
  BY <1>2, <1>7, <1>8, <1>9 DEF LockInv

\* A process that is refused, ends or is killed.
LEMMA EndStep ==
    ASSUME LockInv, NEW r \in Runs, NEW p \in FileLock!Roles, lockers[r][p] = "runs",
           NEW fate_ \in {"refused", "ended", "killed"}, FileLock!Become(r, p, fate_),
           locks' = FileLock!Released(r, p), UNCHANGED <<script, steps, file, offset>>
    PROVE  LockInv'
<1>1. /\ lockers \in [Runs -> [FileLock!Roles -> {"absent", "runs", "refused", "ended", "killed"}]]
      /\ lockers' = [lockers EXCEPT ![r][p] = fate_]
  BY DEF LockInv, FileLock!TypeOK, FileLock!Become
<1>2. \A s \in Runs, q \in FileLock!Roles :
        lockers'[s][q] = IF s = r /\ q = p THEN fate_ ELSE lockers[s][q]
  BY <1>1
<1>3. \A s \in Runs, q \in FileLock!Roles : Steps(s, q)' = Steps(s, q) /\ Gone(s, q)' = Gone(s, q)
  BY DEF Steps, Gone
<1>4. /\ \A l \in locks' : l \in locks /\ l.owner # <<r, p>>
      /\ \A l \in locks' : l.owner[1] = r /\ l.owner[2] \notin FileLock!Roles => ~FileLock!LastOf(r, p)
      /\ \A l \in locks : l.owner # <<r, p>> /\ l.owner[2] \in FileLock!Roles => l \in locks'
  BY DEF FileLock!Released
<1>5. FileLock!TypeOK'
  <2>1. lockers' \in [Runs -> [FileLock!Roles -> {"absent", "runs", "refused", "ended", "killed"}]]
    BY <1>1
  <2>2. /\ script' \in FileLock!Together \cup {[s \in Runs |-> "none"]}
        /\ \A l \in locks' : l.owner[1] \in Runs /\ l.kind \in {"read", "write"}
        /\ file' \in Seq(FileLock!Pids \cup {FileLock!Hole}) /\ offset' \in [Runs -> 0 .. 2]
    BY <1>4 DEF LockInv, FileLock!TypeOK
  <2>3. \A s \in Runs, q \in FileLock!Roles :
          \E n \in 0 .. Len(FileLock!ScriptOf(script'[s])[q]) :
            steps'[s][q] = SubSeq(FileLock!ScriptOf(script'[s])[q], n + 1,
                                  Len(FileLock!ScriptOf(script'[s])[q]))
    BY Zenon DEF LockInv, FileLock!TypeOK
  <2>. QED
    BY <2>1, <2>2, <2>3 DEF FileLock!TypeOK
<1>6. Compatible'
  BY <1>4 DEF LockInv, Compatible
<1>7. Holders'
  <2>. SUFFICES ASSUME NEW l \in locks'
                PROVE  /\ l \in [owner : Runs \X (FileLock!Roles \cup {"fd1", "fd3"}), kind : {"read", "write"}]
                       /\ l.owner[2] \in FileLock!Roles => RecordHolder(l.owner[1], l.owner[2])'
                       /\ l.owner[2] \notin FileLock!Roles =>
                            DescriptionHolder(l.owner[1], l.owner[2], l.kind)'
    BY DEF Holders
  <2>1. /\ l \in locks /\ l \in [owner : Runs \X (FileLock!Roles \cup {"fd1", "fd3"}), kind : {"read", "write"}]
        /\ l.owner # <<r, p>>
    BY <1>4 DEF LockInv, Holders
  <2>2. CASE l.owner[2] \in FileLock!Roles
    <3>1. RecordHolder(l.owner[1], l.owner[2])
      BY <2>1, <2>2 DEF LockInv, Holders
    <3>2. l.owner[1] \in Runs /\ ~(l.owner[1] = r /\ l.owner[2] = p)
      BY <2>1
    <3>3. lockers'[l.owner[1]][l.owner[2]] = "runs"
      BY <1>2, <2>2, <3>1, <3>2 DEF RecordHolder
    <3>. QED
      BY <1>3, <2>1, <2>2, <3>1, <3>2, <3>3 DEF RecordHolder
  <2>3. CASE l.owner[2] \notin FileLock!Roles
    <3>1. DescriptionHolder(l.owner[1], l.owner[2], l.kind) /\ l.owner[1] \in Runs
      BY <2>1, <2>3 DEF LockInv, Holders
    <3>2. \E q \in FileLock!Roles : lockers'[l.owner[1]][q] = "runs"
      <4>1. CASE l.owner[1] = r
        <5>1. ~FileLock!LastOf(r, p)
          BY <1>4, <2>3, <4>1
        <5>2. PICK q \in FileLock!Roles \ {p} : lockers[r][q] = "runs"
          BY <5>1 DEF FileLock!LastOf
        <5>. QED
          BY <1>2, <4>1, <5>2
      <4>2. CASE l.owner[1] # r
        BY <1>2, <3>1, <4>2 DEF DescriptionHolder
      <4>. QED
        BY <4>1, <4>2
    <3>3. \/ script'[l.owner[1]] = "flock_01" /\ l.kind = "read"
          \/ script'[l.owner[1]] = "flock_02" /\ l.kind = "write" /\ l.owner[2] = "fd1"
      BY <3>1 DEF DescriptionHolder
    <3>. QED
      BY <2>1, <2>3, <3>2, <3>3 DEF DescriptionHolder
  <2>. QED
    BY <2>1, <2>2, <2>3
<1>8. \A s \in Runs, q \in PidPair :
        /\ q \in FileLock!Roles
        /\ PidRun(s, q)' => PidRun(s, q) /\ ~(s = r /\ q = p)
        /\ Gone(s, q)' = Gone(s, q)
  BY <1>2, <1>3 DEF PidPair, FileLock!Roles, PidRun
<1>9. OneInstanceHolds'
  <2>. SUFFICES ASSUME NEW s \in Runs, NEW q \in PidPair, PidRun(s, q)', Gone(s, q)' >= 1
                PROVE  [owner |-> <<s, q>>, kind |-> "write"] \in locks'
    BY DEF OneInstanceHolds
  <2>1. [owner |-> <<s, q>>, kind |-> "write"] \in locks
    BY <1>8 DEF LockInv, OneInstanceHolds
  <2>. QED
    BY <1>4, <1>8, <2>1
<1>10. ChildAfterParent'
  <2>1. "parent" \in PidPair /\ "child01" \in PidPair
    BY DEF PidPair
  <2>2. \A s \in Runs : lockers'[s]["child01"] = "absent" <=> lockers[s]["child01"] = "absent"
    BY <1>2, <1>8, <2>1
  <2>. QED
    BY <1>8, <2>1, <2>2 DEF LockInv, ChildAfterParent
<1>11. OffsetCounts'
  <2>1. \A s \in Runs, q \in PidPair : Wrote(s, q)' = Wrote(s, q)
    BY <1>8 DEF Wrote
  <2>2. "parent" \in PidPair /\ "child01" \in PidPair
    BY DEF PidPair
  <2>. QED
    BY <2>1, <2>2 DEF LockInv, OffsetCounts
<1>12. HolderWrote'
  BY <1>8 DEF LockInv, HolderWrote, FileOf
<1>. QED
  BY <1>5, <1>6, <1>7, <1>9, <1>10, <1>11, <1>12 DEF LockInv

\* Every step of the lock programs preserves LockInv.
LEMMA LockNext == ASSUME LockInv, FileLock!Next PROVE LockInv'
<1>1. PICK r \in Runs, p \in FileLock!Roles : FileLock!Process(r, p) \/ FileLock!Killed(r, p)
  BY DEF FileLock!Next
<1>2. CASE FileLock!Lock(r, p)
  BY <1>2, LockStep
<1>3. CASE FileLock!Un(r, p)
  BY <1>3, UnlockStep
<1>4. CASE FileLock!Fork(r, p)
  BY <1>4, ForkStep
<1>5. CASE FileLock!Ftruncate(r, p)
  BY <1>5, TruncateStep
<1>6. CASE FileLock!Write(r, p)
  BY <1>6, WriteStep
<1>7. CASE FileLock!Refused(r, p)
  BY <1>7, EndStep DEF FileLock!Refused, FileLock!Does, FileLock!Alive
<1>8. CASE FileLock!Exit(r, p)
  BY <1>8, EndStep DEF FileLock!Exit
<1>9. CASE FileLock!Killed(r, p)
  BY <1>9, EndStep DEF FileLock!Killed
<1>. QED
  BY <1>1, <1>2, <1>3, <1>4, <1>5, <1>6, <1>7, <1>8, <1>9 DEF FileLock!Process

\* So does a step of another program.
LEMMA LockUnchanged == ASSUME LockInv, UNCHANGED lockVars PROVE LockInv'
<1>1. UNCHANGED <<script, lockers, steps, locks, file, offset>>
  BY DEF lockVars
<1>2. /\ \A r, p : Steps(r, p)' = Steps(r, p) /\ Gone(r, p)' = Gone(r, p)
      /\ \A r, p : Wrote(r, p)' = Wrote(r, p) /\ (RecordHolder(r, p)' <=> RecordHolder(r, p))
  BY <1>1 DEF Steps, Gone, Wrote, RecordHolder
<1>3. FileLock!TypeOK' /\ Compatible' /\ OneInstanceHolds' /\ ChildAfterParent' /\ OffsetCounts'
  BY <1>1, <1>2 DEF LockInv, FileLock!TypeOK, Compatible, OneInstanceHolds, PidRun, ChildAfterParent,
                    OffsetCounts
<1>4. Holders' /\ HolderWrote'
  BY <1>1, <1>2 DEF LockInv, Holders, DescriptionHolder, HolderWrote, PidRun, FileOf
<1>. QED
  BY <1>1, <1>3, <1>4 DEF LockInv

\* LockInv holds when the lock programs start, and when they are not run.
LEMMA LockInit == ASSUME FileLock!Init \/ FileLock!NotRun PROVE LockInv
<1>1. FileLock!Quiet /\ script \in FileLock!Together \cup {[r \in Runs |-> "none"]}
  BY DEF FileLock!Init, FileLock!NotRun
<1>2. \A r \in Runs : script[r] \in LockScripts
  <2>1. CASE script \in FileLock!Together
    <3>1. CASE script \in UNION {[Runs -> same] : same \in {{"fcntl_01", "fcntl_02"}, {"fcntl_04"},
                                                            {"flock_01", "flock_02"}}}
      <4>1. PICK T \in {[Runs -> same] : same \in {{"fcntl_01", "fcntl_02"}, {"fcntl_04"},
                                                   {"flock_01", "flock_02"}}} : script \in T
        BY <3>1
      <4>2. PICK same \in {{"fcntl_01", "fcntl_02"}, {"fcntl_04"}, {"flock_01", "flock_02"}} :
              script \in [Runs -> same]
        BY <4>1
      <4>. QED
        BY <4>2 DEF LockScripts
    <3>2. CASE script \in {[s \in Runs |-> IF s = only THEN "fcntl_03" ELSE "none"] : only \in Runs}
      BY <3>2 DEF LockScripts
    <3>3. \/ script \in UNION {[Runs -> same] : same \in {{"fcntl_01", "fcntl_02"}, {"fcntl_04"},
                                                          {"flock_01", "flock_02"}}}
          \/ script \in {[s \in Runs |-> IF s = only THEN "fcntl_03" ELSE "none"] : only \in Runs}
      BY <2>1, Zenon DEF FileLock!Together
    <3>. QED
      BY <3>1, <3>2, <3>3
  <2>2. CASE script = [s \in Runs |-> "none"]
    BY <2>2 DEF LockScripts
  <2>. QED
    BY <1>1, <2>1, <2>2
<1>3. \A name \in LockScripts : FileLock!ScriptOf(name) \in [FileLock!Roles -> Seq(StepSet)]
  <2>. SUFFICES ASSUME NEW name \in LockScripts
                PROVE  FileLock!ScriptOf(name) \in [FileLock!Roles -> Seq(StepSet)]
    OBVIOUS
  <2>1. FileLock!ScriptOf(name) = [p \in FileLock!Roles |-> FileLock!ScriptOf(name)[p]]
    <3>1. \A a, b, c, d : FileLock!Script(a, b, c, d) \in [FileLock!Roles -> {a, b, c, d}]
      BY DEF FileLock!Script, FileLock!Roles
    <3>2. \E a, b, c, d : FileLock!ScriptOf(name) = FileLock!Script(a, b, c, d)
      BY DEF FileLock!ScriptOf, LockScripts, FileLock!Fcntl01, FileLock!Fcntl02, FileLock!Fcntl03,
             FileLock!Fcntl04, FileLock!Flock01, FileLock!Flock02
    <3>. QED
      BY <3>1, <3>2
  <2>. QED
    BY <2>1, ScriptSeq
<1>4. steps \in [Runs -> [FileLock!Roles -> Seq(StepSet)]]
  BY <1>1, <1>2, <1>3 DEF FileLock!Quiet
<1>5. \A r \in Runs, p \in FileLock!Roles :
        steps[r][p] = Steps(r, p) /\ Steps(r, p) \in Seq(StepSet) /\ Gone(r, p) = 0
  <2>. SUFFICES ASSUME NEW r \in Runs, NEW p \in FileLock!Roles
                PROVE  steps[r][p] = Steps(r, p) /\ Steps(r, p) \in Seq(StepSet) /\ Gone(r, p) = 0
    OBVIOUS
  <2>1. steps[r][p] = Steps(r, p)
    BY <1>1 DEF FileLock!Quiet, Steps
  <2>2. Steps(r, p) \in Seq(StepSet)
    BY <1>2, ScriptSeq DEF Steps
  <2>3. Len(Steps(r, p)) \in Nat
    BY <2>2
  <2>. QED
    BY <2>1, <2>2, <2>3 DEF Gone
<1>6. /\ locks = {} /\ file = <<>> /\ offset = [r \in Runs |-> 0]
      /\ lockers \in [Runs -> [FileLock!Roles -> {"absent", "runs"}]]
      /\ \A r \in Runs : lockers[r]["child01"] = "absent"
  BY DEF FileLock!Quiet, FileLock!Init, FileLock!NotRun, FileLock!Roles
<1>7. FileLock!TypeOK
  <2>1. \A r \in Runs, p \in FileLock!Roles :
          \E n \in 0 .. Len(FileLock!ScriptOf(script[r])[p]) :
            steps[r][p] = SubSeq(FileLock!ScriptOf(script[r])[p], n + 1, Len(FileLock!ScriptOf(script[r])[p]))
    <3>. SUFFICES ASSUME NEW r \in Runs, NEW p \in FileLock!Roles
                  PROVE  \E n \in 0 .. Len(Steps(r, p)) :
                           steps[r][p] = SubSeq(Steps(r, p), n + 1, Len(Steps(r, p)))
      BY DEF Steps
    <3>1. steps[r][p] = Steps(r, p) /\ Steps(r, p) \in Seq(StepSet)
      BY <1>5
    <3>2. Len(Steps(r, p)) \in Nat /\ SubSeq(Steps(r, p), 1, Len(Steps(r, p))) = Steps(r, p)
      BY <3>1
    <3>3. 0 \in 0 .. Len(Steps(r, p)) /\ steps[r][p] = SubSeq(Steps(r, p), 0 + 1, Len(Steps(r, p)))
      BY <3>1, <3>2
    <3>. QED
      BY <3>3
  <2>2. /\ lockers \in [Runs -> [FileLock!Roles -> {"absent", "runs", "refused", "ended", "killed"}]]
        /\ \A l \in locks : l.owner[1] \in Runs /\ l.kind \in {"read", "write"}
        /\ file \in Seq(FileLock!Pids \cup {FileLock!Hole}) /\ offset \in [Runs -> 0 .. 2]
    BY <1>6
  <2>. QED
    BY <1>1, <2>1, <2>2 DEF FileLock!TypeOK
<1>8. \A p \in PidPair : p \in FileLock!Roles
  BY DEF PidPair, FileLock!Roles
<1>9. \A r \in Runs : Wrote(r, "parent") = 0 /\ Wrote(r, "child01") = 0
  BY <1>5, <1>8 DEF Wrote, PidPair
<1>10. OffsetCounts
  BY <1>6, <1>9 DEF OffsetCounts
<1>11. ChildAfterParent
  BY <1>5, <1>6, <1>8 DEF ChildAfterParent, PidPair
<1>. QED
  BY <1>4, <1>5, <1>6, <1>7, <1>8, <1>10, <1>11
     DEF LockInv, Compatible, Holders, OneInstanceHolds, HolderWrote

\* LockInv says who is past the lock, and what the file holds then.
LEMMA LockNames == ASSUME LockInv PROVE FileLock!PidFileNamesHolder
<1>1. ASSUME NEW r \in Runs, NEW p \in PidPair, NEW n \in Nat, FileLock!Past(r, p, n)
      PROVE  PidRun(r, p) /\ Gone(r, p) >= n
  <2>1. p \in FileLock!Roles
    BY DEF PidPair, FileLock!Roles
  <2>2. PidRun(r, p) /\ Len(steps[r][p]) <= Len(Steps(r, p)) - n
    BY <1>1 DEF FileLock!Past, PidRun, Steps
  <2>3. Len(steps[r][p]) \in Nat /\ Len(Steps(r, p)) \in Nat
    BY <2>1, UnderWay DEF LockInv
  <2>. QED
    BY <2>2, <2>3 DEF Gone
<1>. SUFFICES ASSUME NEW r \in Runs, NEW p \in FileLock!Roles
              PROVE  /\ p \in PidPair /\ FileLock!Past(r, p, 1) =>
                          \A s \in Runs, q \in PidPair : FileLock!Past(s, q, 1) => s = r /\ q = p
                     /\ p = "parent" /\ FileLock!Past(r, p, 3) => file = <<<<r, p>>>>
                     /\ p = "child01" /\ FileLock!Past(r, p, 3) => file = <<FileLock!Hole, <<r, p>>>>
  BY DEF FileLock!PidFileNamesHolder, PidPair
<1>2. ASSUME p \in PidPair, FileLock!Past(r, p, 1), NEW s \in Runs, NEW q \in PidPair,
             FileLock!Past(s, q, 1)
      PROVE  s = r /\ q = p
  BY <1>1, <1>2, OnlyOne
<1>3. ASSUME p \in PidPair, FileLock!Past(r, p, 3) PROVE file = FileOf(r, p)
  BY <1>1, <1>3 DEF LockInv, HolderWrote
<1>. QED
  BY <1>2, <1>3 DEF PidPair, FileOf

\* A process that waits for a lock does so at a step of its script.
LEMMA BlockedAt ==
    ASSUME LockInv, NEW r \in Runs, NEW p \in FileLock!Roles, FileLock!Blocked(r, p)
    PROVE  \E k \in 1 .. Len(Steps(r, p)), l \in locks :
             /\ k > Gone(r, p) /\ Steps(r, p)[k].op = "waits"
             /\ Steps(r, p)[k].on # FileLock!Record => l.owner # <<r, Steps(r, p)[k].on>>
             /\ Steps(r, p)[k].kind = "write" \/ l.kind = "write"
<1>1. steps[r][p] # <<>> /\ FileLock!Step(r, p).op = "waits"
  BY DEF FileLock!Blocked, FileLock!Does, FileLock!Alive, FileLock!Step
<1>2. /\ Gone(r, p) + 1 \in 1 .. Len(Steps(r, p)) /\ Gone(r, p) + 1 > Gone(r, p)
      /\ FileLock!Step(r, p) = Steps(r, p)[Gone(r, p) + 1]
  BY <1>1, UnderWay, NextStep
<1>3. PICK l \in locks : /\ l.owner # FileLock!Ask(r, p)
                         /\ FileLock!Step(r, p).kind = "write" \/ l.kind = "write"
  BY DEF FileLock!Blocked, FileLock!Conflict
<1>. QED
  BY <1>1, <1>2, <1>3 DEF FileLock!Ask, FileLock!Owner

\* Of the process that is waited for and the others of its run one is not waiting.
LEMMA LockGoesOn == ASSUME LockInv PROVE FileLock!LocksGoOn
<1>. SUFFICES ASSUME NEW r \in Runs, NEW p \in FileLock!Roles, lockers[r][p] = "runs",
                     \A s \in Runs, q \in FileLock!Roles : lockers[s][q] = "runs" => FileLock!Blocked(s, q)
              PROVE  FALSE
  BY DEF FileLock!LocksGoOn
<1>1. PICK l \in locks : TRUE
  BY BlockedAt
<1>2. /\ l \in [owner : Runs \X (FileLock!Roles \cup {"fd1", "fd3"}), kind : {"read", "write"}]
      /\ l.owner[2] \in FileLock!Roles => RecordHolder(l.owner[1], l.owner[2])
      /\ l.owner[2] \notin FileLock!Roles => DescriptionHolder(l.owner[1], l.owner[2], l.kind)
  BY DEF LockInv, Holders
<1>3. CASE l.owner[2] \in FileLock!Roles
  <2>1. FileLock!Blocked(l.owner[1], l.owner[2]) /\ RecordHolder(l.owner[1], l.owner[2])
    BY <1>2, <1>3 DEF RecordHolder
  <2>. QED
    BY <1>2, <1>3, <2>1, BlockedAt DEF RecordHolder
<1>4. CASE l.owner[2] \notin FileLock!Roles
  <2>1. PICK s, d : s \in Runs /\ s = l.owner[1] /\ d = l.owner[2] /\ l.owner = <<s, d>>
    BY <1>2
  <2>2. /\ \/ script[s] = "flock_01" /\ l.kind = "read"
           \/ script[s] = "flock_02" /\ l.kind = "write" /\ d = "fd1"
        /\ \E q \in FileLock!Roles : lockers[s][q] = "runs"
    BY <1>2, <1>4, <2>1 DEF DescriptionHolder
  <2>3. PICK q \in FileLock!Roles : FileLock!Blocked(s, q)
    BY <2>1, <2>2
  <2>4. PICK k \in 1 .. Len(Steps(s, q)), m \in locks :
          /\ Steps(s, q)[k].op = "waits"
          /\ Steps(s, q)[k].on # FileLock!Record => m.owner # <<s, Steps(s, q)[k].on>>
          /\ Steps(s, q)[k].kind = "write" \/ m.kind = "write"
    BY <2>1, <2>3, BlockedAt
  <2>5. Rules(script[s], q, Steps(s, q))
    BY <2>1, UnderWay
  <2>6. /\ Steps(s, q)[k].on # FileLock!Record
        /\ \/ script[s] = "flock_01" /\ Steps(s, q)[k].kind = "read"
           \/ script[s] = "flock_02" /\ Steps(s, q)[k].kind = "write" /\ Steps(s, q)[k].on = "fd1"
    BY SMTT(30), <2>1, <2>2, <2>4, <2>5 DEF Rules, Locking
  <2>7. CASE script[s] = "flock_02"
    BY <2>1, <2>2, <2>4, <2>6, <2>7 DEF LockInv, Compatible
  <2>8. CASE script[s] = "flock_01"
    <3>1. l.kind = "read" /\ m.kind = "write"
      BY <2>2, <2>4, <2>6, <2>8
    <3>2. m.owner = l.owner
      BY <3>1 DEF LockInv, Compatible
    <3>3. DescriptionHolder(m.owner[1], m.owner[2], m.kind)
      BY <1>4, <3>2 DEF LockInv, Holders
    <3>. QED
      BY <2>1, <2>8, <3>1, <3>2, <3>3 DEF DescriptionHolder
  <2>. QED
    BY <2>2, <2>7, <2>8
<1>. QED
  BY <1>3, <1>4

\* Who may hold a lock on the file, in which step of its script, and what the pid
\* file holds then (file_lock.cpp:225-430), in every state of Storage.
THEOREM LocksInvariant == Spec => []LockInv
<1>1. Init => LockInv
  BY LockInit DEF Init
<1>2. LockInv /\ [Next]_vars => LockInv'
  BY LockNext, LockUnchanged DEF Next, vars
<1>. QED
  BY <1>1, <1>2, PTL DEF Spec

\* In every state, the pid file names the instance that holds its lock once that
\* has written its pid (fcntl_04, file_lock.cpp:360-396).
THEOREM PidFileHolder == Spec => []PidFileNamesHolder
<1>1. LockInv => PidFileNamesHolder
  BY LockNames, LockGoesOn DEF PidFileNamesHolder
<1>. QED
  BY <1>1, LocksInvariant, PTL

-----------------------------------------------------------------------------
(* Counters in shared memory (SharedCounter).                              *)

Looping == {"wait", "read", "write", "post"}
Preparing == {"unlink segment", "create", "map", "zero", "unlink semaphore"}
HasMutex(p) == mutex[p] \in Counter!Semaphores

\* A process that counts has its segment and its semaphore, and one that has
\* not come so far has none.
HandlesFit ==
  \A p \in Counter!Processes :
    /\ at[p] \in {"absent", "open", "init", "open semaphore"} \cup Preparing =>
         mutex[p] = Counter!Free
    /\ at[p] \in Looping \cup {"unlink"} => HasMutex(p)
    /\ p # "service" /\ at[p] \in {"absent", "open", "init"} => segment[p] = Counter!Free
    /\ p # "service" /\ at[p] \in Looping \cup {"unlink", "open semaphore"} =>
         segment[p] \in Counter!Segments
    /\ at[p] \in {"read", "write"} => p # "service"
    /\ at[p] # "done" => turn[p] < Turns

\* The semaphore of the family and that of the service are known to nobody
\* before they are created, and who created one has it open.
NotYet(m) == semName # m /\ \A p \in Counter!Processes : mutex[p] # m
FamilyApart ==
  /\ \A p \in Counter!Family : segment[p] \in {Counter!Free, "inherited"}
  /\ at["parent"] \in {"absent", "open", "init", "unlink"} => at["child"] = "absent"
  /\ at["parent"] \in {"absent", "open", "init"} => NotYet("family's")
  /\ semName = "family's" => mutex["parent"] = "family's"
ServiceFirst ==
  /\ at["service"] \in {"absent", "unlink segment", "create"} =>
       segName # "made" /\ \A p \in Counter!Processes : segment[p] # "made"
  /\ at["service"] \in {"map", "zero"} =>
       \A p \in Counter!Counting : segment[p] = "made" => p \in early
  /\ at["service"] \in {"absent", "open"} \cup Preparing => NotYet("service's")
  /\ semName = "service's" => mutex["service"] = "service's"

\* The permit of a semaphore is there, or one process has it.
Holds(p, m) == mutex[p] = m /\ at[p] \in {"read", "write", "post", "killed holding"}
Permits ==
  \A m \in Counter!Semaphores :
    /\ semValue[m] = 1 => \A p \in Counter!Processes : ~Holds(p, m)
    /\ \A p, q \in Counter!Processes : Holds(p, m) /\ Holds(q, m) => p = q
    /\ m # "left" /\ semValue[m] = 0 /\ (\E p \in Counter!Processes : mutex[p] = m) =>
         \E p \in Counter!Processes : Holds(p, m)

\* Where all who count share a semaphore and none was early, the counter is
\* what was added, and who is about to write has read it.
CountsIn(p, s) == segment[p] = s /\ mutex[p] # Counter!Free
Clean(s) ==
  /\ \A p, q \in Counter!Counting : CountsIn(p, s) /\ CountsIn(q, s) => mutex[p] = mutex[q]
  /\ \A p \in Counter!Counting : CountsIn(p, s) => p \notin early
CleanCounts ==
  \A s \in Counter!Segments :
    /\ Clean(s) =>
         /\ count[s] = added[s]
         /\ \A p \in Counter!Counting : CountsIn(p, s) /\ at[p] = "write" => read[p] = count[s]
    /\ (\A p \in Counter!Counting : ~CountsIn(p, s)) => added[s] = 0

CounterInv ==
  /\ Counter!TypeOK
  /\ HandlesFit
  /\ FamilyApart
  /\ ServiceFirst
  /\ Permits
  /\ CleanCounts

\* The parent, its child, the service and the clients are different processes.
LEMMA CounterProcesses ==
    /\ "service" \in Counter!Processes /\ \A c \in Clients : c \in Counter!Counting
    /\ \A p \in Counter!Counting : p \in Counter!Processes /\ p # "service"
    /\ \A p \in Counter!Processes : p # "service" => p \in Counter!Counting
    /\ \A p \in Counter!Family : p \in Counter!Counting /\ p \notin Clients
    /\ "parent" \in Counter!Family /\ "child" \in Counter!Family
BY ClientsAssumption DEF Counter!Processes, Counter!Counting, Counter!Family

\* The parts of CounterInv, by name.
LEMMA CounterParts ==
    ASSUME CounterInv
    PROVE  /\ Counter!TypeOK /\ HandlesFit /\ FamilyApart /\ ServiceFirst /\ Permits /\ CleanCounts
BY DEF CounterInv

\* Only one label changes.
LEMMA GotoLabel ==
    ASSUME CounterInv, NEW p \in Counter!Processes, NEW new, Counter!Goto(p, new)
    PROVE  \A q \in Counter!Processes : at'[q] = IF q = p THEN new ELSE at[q]
BY CounterParts DEF Counter!TypeOK, Counter!Goto

\* The counters stay right as long as nobody who counts gets another segment or
\* semaphore, and nobody reads, writes or resets.
LEMMA CountsSame ==
    ASSUME CounterInv, UNCHANGED <<count, added, read>>, \A p \in early : p \in early',
           \A p \in Counter!Counting :
             /\ mutex[p] # Counter!Free => segment'[p] = segment[p] /\ mutex'[p] = mutex[p]
             /\ at'[p] = "write" => at[p] = "write"
    PROVE  CleanCounts'
<1>. SUFFICES ASSUME NEW s \in Counter!Segments
              PROVE  /\ Clean(s)' =>
                          /\ count[s] = added[s]
                          /\ \A p \in Counter!Counting : CountsIn(p, s)' /\ at'[p] = "write" =>
                               read[p] = count[s]
                     /\ (\A p \in Counter!Counting : ~CountsIn(p, s)') => added[s] = 0
  BY DEF CleanCounts
<1>1. \A p \in Counter!Counting : CountsIn(p, s) => CountsIn(p, s)' /\ mutex'[p] = mutex[p]
  BY DEF CountsIn
<1>2. \A p \in Counter!Counting : CountsIn(p, s)' /\ at'[p] = "write" => CountsIn(p, s) /\ at[p] = "write"
  <2>1. \A p \in Counter!Counting : at[p] = "write" => mutex[p] # Counter!Free
    BY CounterParts, CounterProcesses DEF HandlesFit, HasMutex, Looping, Counter!Semaphores, Counter!Free
  <2>. QED
    BY <2>1 DEF CountsIn
<1>3. Clean(s)' => Clean(s)
  BY <1>1 DEF Clean
<1>. QED
  BY <1>1, <1>2, <1>3, CounterParts DEF CleanCounts

\* So do the permits when nobody begins or ceases to hold one.
LEMMA PermitsSame ==
    ASSUME CounterInv, UNCHANGED <<semValue, mutex>>,
           \A p \in Counter!Processes :
             at'[p] \in {"read", "write", "post", "killed holding"} <=>
             at[p] \in {"read", "write", "post", "killed holding"}
    PROVE  Permits'
<1>1. Permits
  BY CounterParts
<1>2. \A p \in Counter!Processes, m \in Counter!Semaphores : Holds(p, m)' <=> Holds(p, m)
  BY DEF Holds
<1>. QED
  BY <1>1, <1>2 DEF Permits

Holding == {"read", "write", "post", "killed holding"}

\* The permits stay right when processes that had no semaphore open one.
LEMMA PermitsOpened ==
    ASSUME CounterInv, NEW P, NEW k \in Counter!Semaphores,
           \A p \in P : p \in Counter!Processes /\ mutex[p] = Counter!Free /\ at[p] \notin Holding,
           \A p \in Counter!Processes : /\ mutex'[p] = IF p \in P THEN k ELSE mutex[p]
                                        /\ at'[p] \in Holding <=> at[p] \in Holding,
           \/ NotYet(k) /\ semValue' = [semValue EXCEPT ![k] = 1]
           \/ semValue' = semValue /\ (k = "left" \/ \E q \in Counter!Processes : mutex[q] = k)
    PROVE  Permits'
<1>1. \A p \in Counter!Processes, m \in Counter!Semaphores : Holds(p, m)' <=> Holds(p, m)
  BY DEF Holds, Holding, Counter!Semaphores, Counter!Free
<1>2. \A p \in Counter!Processes, m \in Counter!Semaphores : m # k => (mutex'[p] = m <=> mutex[p] = m)
  BY DEF Counter!Semaphores, Counter!Free
<1>3. \A m \in Counter!Semaphores : m # k => semValue'[m] = semValue[m]
  BY CounterParts DEF Counter!TypeOK
<1>4. CASE NotYet(k) /\ semValue' = [semValue EXCEPT ![k] = 1]
  <2>1. semValue'[k] = 1 /\ \A p \in Counter!Processes : ~Holds(p, k)
    BY <1>4, CounterParts DEF NotYet, Holds, Counter!TypeOK
  <2>. QED
    BY <1>1, <1>2, <1>3, <2>1, CounterParts DEF Permits
<1>5. CASE semValue' = semValue /\ (k = "left" \/ \E q \in Counter!Processes : mutex[q] = k)
  BY <1>1, <1>2, <1>5, CounterParts DEF Permits
<1>. QED
  BY <1>4, <1>5

\* Labels change, and names, but nothing that is mapped, open or counted.
LEMMA ServiceUnlinksStep ==
    ASSUME CounterInv, Counter!ServiceUnlinksSegment \/ Counter!ServiceUnlinksSemaphore
    PROVE  CounterInv'
<1>. USE CounterParts
<1>1. PICK old, new :
        /\ at["service"] = old /\ Counter!Goto("service", new)
        /\ \/ old = "unlink segment" /\ new = "create" /\ segName' = Counter!Free /\ semName' = semName
           \/ old = "unlink semaphore" /\ new = "open" /\ semName' = Counter!Free /\ segName' = segName
        /\ UNCHANGED <<semValue, count, added, segment, mutex, early, read, turn>>
  BY DEF Counter!ServiceUnlinksSegment, Counter!ServiceUnlinksSemaphore, Counter!handles
<1>2. \A p \in Counter!Processes : at'[p] = IF p = "service" THEN new ELSE at[p]
  BY <1>1, GotoLabel, CounterProcesses
<1>3. Counter!TypeOK'
  BY <1>1 DEF Counter!TypeOK, Counter!Goto
<1>4. HandlesFit'
  BY <1>1, <1>2 DEF HandlesFit, HasMutex, Looping, Preparing
<1>5. FamilyApart'
  BY <1>1, <1>2, CounterProcesses DEF FamilyApart, NotYet, Counter!Free
<1>6. ServiceFirst'
  BY <1>1, <1>2, CounterProcesses DEF ServiceFirst, NotYet, Counter!Free, Preparing
<1>7. Permits'
  BY <1>1, <1>2, PermitsSame
<1>8. CleanCounts'
  BY <1>1, <1>2, CountsSame, CounterProcesses
<1>. QED
  BY <1>3, <1>4, <1>5, <1>6, <1>7, <1>8 DEF CounterInv

\* The service creates the segment (mman_test.cpp:419-422).
LEMMA ServiceCreatesStep == ASSUME CounterInv, Counter!ServiceCreates PROVE CounterInv'
<1>. USE CounterParts
<1>1. /\ at["service"] = "create" /\ Counter!Goto("service", "map") /\ segName' = "made"
      /\ UNCHANGED <<semName, semValue, count, added, segment, mutex, early, read, turn>>
  BY DEF Counter!ServiceCreates, Counter!handles
<1>2. \A p \in Counter!Processes : at'[p] = IF p = "service" THEN "map" ELSE at[p]
  BY <1>1, GotoLabel, CounterProcesses
<1>3. Counter!TypeOK'
  BY <1>1 DEF Counter!TypeOK, Counter!Goto
<1>4. HandlesFit'
  BY <1>1, <1>2 DEF HandlesFit, HasMutex, Looping, Preparing
<1>5. FamilyApart'
  BY <1>1, <1>2, CounterProcesses DEF FamilyApart, NotYet
<1>6. ServiceFirst'
  BY <1>1, <1>2, CounterProcesses DEF ServiceFirst, NotYet, Preparing
<1>7. Permits'
  BY <1>1, <1>2, PermitsSame
<1>8. CleanCounts'
  BY <1>1, <1>2, CountsSame, CounterProcesses
<1>. QED
  BY <1>3, <1>4, <1>5, <1>6, <1>7, <1>8 DEF CounterInv

\* The service gives it its size and maps it.
LEMMA ServiceMapsStep == ASSUME CounterInv, Counter!ServiceMaps PROVE CounterInv'
<1>. USE CounterParts
<1>1. /\ at["service"] = "map" /\ Counter!Goto("service", "zero")
      /\ UNCHANGED <<segName, semName, semValue, count, added, mutex, early, read, turn>>
  BY DEF Counter!ServiceMaps, Counter!names
<1>10. segment' = [segment EXCEPT !["service"] = "made"]
  BY DEF Counter!ServiceMaps
<1>2. \A p \in Counter!Processes : at'[p] = IF p = "service" THEN "zero" ELSE at[p]
  BY <1>1, GotoLabel, CounterProcesses
<1>3. \A p \in Counter!Processes : segment'[p] = IF p = "service" THEN "made" ELSE segment[p]
  BY <1>10 DEF Counter!TypeOK
<1>4. Counter!TypeOK'
  BY <1>1, <1>10 DEF Counter!TypeOK, Counter!Segments, Counter!Goto
<1>5. HandlesFit'
  BY <1>1, <1>2, <1>3 DEF HandlesFit, HasMutex, Looping, Preparing
<1>6. FamilyApart'
  BY <1>1, <1>2, <1>3, CounterProcesses DEF FamilyApart, NotYet
<1>7. ServiceFirst'
  BY <1>1, <1>2, <1>3, CounterProcesses DEF ServiceFirst, NotYet, Preparing
<1>8. Permits'
  BY <1>1, <1>2, PermitsSame
<1>9. CleanCounts'
  BY <1>1, <1>2, <1>3, CountsSame, CounterProcesses
<1>. QED
  BY <1>4, <1>5, <1>6, <1>7, <1>8, <1>9 DEF CounterInv

\* The service sets the count to 0.
LEMMA ServiceZeroesStep == ASSUME CounterInv, Counter!ServiceZeroes PROVE CounterInv'
<1>. USE CounterParts
<1>1. /\ at["service"] = "zero" /\ Counter!Goto("service", "unlink semaphore")
      /\ UNCHANGED <<segName, semName, semValue, added, segment, mutex, early, read, turn>>
  BY DEF Counter!ServiceZeroes, Counter!names, Counter!handles
<1>2. \A p \in Counter!Processes : at'[p] = IF p = "service" THEN "unlink semaphore" ELSE at[p]
  BY <1>1, GotoLabel, CounterProcesses
<1>3. \A s \in Counter!Segments : count'[s] = IF s = "made" THEN 0 ELSE count[s]
  BY DEF Counter!TypeOK, Counter!ServiceZeroes
<1>4. Counter!TypeOK'
  <2>1. count' \in [Counter!Segments -> Nat]
    BY DEF Counter!TypeOK, Counter!ServiceZeroes
  <2>. QED
    BY <1>1, <2>1 DEF Counter!TypeOK, Counter!Goto
<1>5. HandlesFit'
  BY <1>1, <1>2 DEF HandlesFit, HasMutex, Looping, Preparing
<1>6. FamilyApart'
  BY <1>1, <1>2, CounterProcesses DEF FamilyApart, NotYet
<1>7. ServiceFirst'
  BY <1>1, <1>2, CounterProcesses DEF ServiceFirst, NotYet, Preparing
<1>8. Permits'
  BY <1>1, <1>2, PermitsSame
<1>9. CleanCounts'
  <2>1. /\ \A p, s : CountsIn(p, s)' <=> CountsIn(p, s)
        /\ \A s : Clean(s)' <=> Clean(s)
    BY <1>1 DEF CountsIn, Clean
  <2>2. Clean("made") => \A p \in Counter!Counting : ~CountsIn(p, "made")
    BY <1>1 DEF ServiceFirst, Clean, CountsIn
  <2>3. \A p \in Counter!Counting : at'[p] = at[p]
    BY <1>2, CounterProcesses
  <2>. QED
    BY ZenonT(30), <1>1, <1>3, <2>1, <2>2, <2>3 DEF CleanCounts
<1>. QED
  BY <1>4, <1>5, <1>6, <1>7, <1>8, <1>9 DEF CounterInv

\* A process fails, or is killed: only its label changes.
LEMMA LabelOnlyStep ==
    ASSUME CounterInv, NEW p \in Counter!Processes, NEW new, Counter!Goto(p, new),
           \/ new = "failed" /\ at[p] \in {"open", "unlink", "open semaphore"}
           \/ new = "killed" /\ at[p] = "wait"
           \/ new = "killed holding" /\ at[p] \in {"read", "write", "post"},
           UNCHANGED <<segName, semName, semValue, count, added, segment, mutex, early, read, turn>>
    PROVE  CounterInv'
<1>. USE CounterParts
<1>1. \A q \in Counter!Processes : at'[q] = IF q = p THEN new ELSE at[q]
  BY GotoLabel
<1>2. Counter!TypeOK'
  BY DEF Counter!TypeOK, Counter!Goto
<1>3. HandlesFit'
  BY <1>1 DEF HandlesFit, HasMutex, Looping, Preparing
<1>4. FamilyApart'
  BY <1>1, CounterProcesses DEF FamilyApart, NotYet
<1>5. ServiceFirst'
  BY <1>1, CounterProcesses DEF ServiceFirst, NotYet, Preparing
<1>6. Permits'
  BY <1>1, PermitsSame
<1>7. CleanCounts'
  BY <1>1, CountsSame, CounterProcesses
<1>. QED
  BY <1>2, <1>3, <1>4, <1>5, <1>6, <1>7 DEF CounterInv

\* What Sem_open does when the semaphore could be created.
LEMMA SemCreated ==
    ASSUME CounterInv, NEW p \in Counter!Processes, NEW m \in Counter!Semaphores, NEW exclusive, NEW next,
           Counter!SemCreate(p, m, exclusive, next), ~(exclusive /\ semName # Counter!Free)
    PROVE  /\ semName' = IF semName = Counter!Free THEN m ELSE semName
           /\ semValue' = IF semName = Counter!Free THEN [semValue EXCEPT ![m] = 1] ELSE semValue
           /\ mutex' = [mutex EXCEPT ![p] = semName'] /\ Counter!Goto(p, next)
           /\ semName' \in Counter!Semaphores
           /\ \A q \in Counter!Processes : mutex'[q] = IF q = p THEN semName' ELSE mutex[q]
<1>1. /\ semName' = IF semName = Counter!Free THEN m ELSE semName
      /\ semValue' = IF semName = Counter!Free THEN [semValue EXCEPT ![m] = 1] ELSE semValue
      /\ mutex' = [mutex EXCEPT ![p] = semName'] /\ Counter!Goto(p, next)
  BY DEF Counter!SemCreate
<1>2. mutex \in [Counter!Processes -> Counter!Semaphores \cup {Counter!Free}]
        /\ semName \in Counter!Semaphores \cup {Counter!Free}
  BY CounterParts DEF Counter!TypeOK
<1>3. semName' \in Counter!Semaphores
  BY <1>1, <1>2
<1>4. \A q \in Counter!Processes : mutex'[q] = IF q = p THEN semName' ELSE mutex[q]
  BY <1>1, <1>2
<1>. QED
  BY <1>1, <1>3, <1>4

\* The service opens its semaphore, a new one or the one it finds.
LEMMA ServiceOpensStep == ASSUME CounterInv, Counter!ServiceOpens PROVE CounterInv'
<1>. USE CounterParts
<1>1. /\ at["service"] = "open" /\ "service" \in Counter!Processes
      /\ Counter!SemCreate("service", "service's", TRUE, "wait")
      /\ UNCHANGED <<segName, count, added, segment, early, read, turn>>
  BY CounterProcesses DEF Counter!ServiceOpens
<1>2. CASE semName # Counter!Free
  BY <1>1, <1>2, LabelOnlyStep DEF Counter!SemCreate
<1>3. CASE semName = Counter!Free
  <2>1. /\ semName' = "service's" /\ semValue' = [semValue EXCEPT !["service's"] = 1]
        /\ mutex' = [mutex EXCEPT !["service"] = "service's"] /\ Counter!Goto("service", "wait")
        /\ \A q \in Counter!Processes : mutex'[q] = IF q = "service" THEN "service's" ELSE mutex[q]
    BY <1>1, <1>3, SemCreated DEF Counter!Semaphores
  <2>2. \A q \in Counter!Processes : at'[q] = IF q = "service" THEN "wait" ELSE at[q]
    BY <1>1, <2>1, GotoLabel
  <2>3. Counter!TypeOK'
    BY <1>1, <2>1 DEF Counter!TypeOK, Counter!Goto, Counter!Semaphores
  <2>4. HandlesFit'
    BY ZenonT(30), <1>1, <2>1, <2>2 DEF HandlesFit, HasMutex, Looping, Preparing, Counter!Semaphores
  <2>5. FamilyApart'
    BY <1>1, <2>1, <2>2, CounterProcesses DEF FamilyApart, NotYet
  <2>6. ServiceFirst'
    BY <1>1, <2>1, <2>2, CounterProcesses DEF ServiceFirst, NotYet, Preparing
  <2>7. Permits'
    <3>1. NotYet("service's") /\ mutex["service"] = Counter!Free
      BY <1>1 DEF ServiceFirst, HandlesFit
    <3>2. PICK P : P = {"service"}
      OBVIOUS
    <3>3. /\ \A p \in P : p \in Counter!Processes /\ mutex[p] = Counter!Free /\ at[p] \notin Holding
          /\ \A p \in Counter!Processes : /\ mutex'[p] = IF p \in P THEN "service's" ELSE mutex[p]
                                          /\ at'[p] \in Holding <=> at[p] \in Holding
      BY <1>1, <2>1, <2>2, <3>1, <3>2 DEF Holding
    <3>. QED
      BY <2>1, <3>1, <3>3, PermitsOpened DEF Counter!Semaphores
  <2>8. CleanCounts'
    BY <1>1, <2>1, <2>2, CountsSame, CounterProcesses
  <2>. QED
    BY <2>3, <2>4, <2>5, <2>6, <2>7, <2>8 DEF CounterInv
<1>. QED
  BY <1>2, <1>3

\* The parent opens or creates the semaphore (mman_test.cpp:393-418).
LEMMA FamilyOpensStep == ASSUME CounterInv, Counter!FamilyOpens PROVE CounterInv'
<1>. USE CounterParts
<1>1. /\ at["parent"] = "open" /\ "parent" \in Counter!Processes /\ "family's" \in Counter!Semaphores
      /\ Counter!SemCreate("parent", "family's", FALSE, "unlink")
      /\ UNCHANGED <<segName, count, added, early, read, turn>>
  BY CounterProcesses DEF Counter!FamilyOpens, Counter!Semaphores
<1>2. segment' = [segment EXCEPT !["parent"] = "inherited"]
  BY DEF Counter!FamilyOpens
<1>3. PICK k : k = semName'
  OBVIOUS
<1>4. /\ k = IF semName = Counter!Free THEN "family's" ELSE semName
      /\ semValue' = IF semName = Counter!Free THEN [semValue EXCEPT !["family's"] = 1] ELSE semValue
      /\ mutex' = [mutex EXCEPT !["parent"] = k]
  BY <1>1, <1>3, SemCreated
<1>14. /\ k \in Counter!Semaphores /\ Counter!Goto("parent", "unlink")
       /\ \A q \in Counter!Processes : mutex'[q] = IF q = "parent" THEN k ELSE mutex[q]
  BY <1>1, <1>3, SemCreated
<1>15. k = semName \/ k = "family's"
  BY <1>4
<1>5. \A q \in Counter!Processes : at'[q] = IF q = "parent" THEN "unlink" ELSE at[q]
  BY <1>1, <1>14, GotoLabel
<1>6. \A q \in Counter!Processes : segment'[q] = IF q = "parent" THEN "inherited" ELSE segment[q]
  BY <1>2 DEF Counter!TypeOK
<1>7. Counter!TypeOK'
  <2>1. mutex' \in [Counter!Processes -> Counter!Semaphores \cup {Counter!Free}]
          /\ segment' \in [Counter!Processes -> Counter!Segments \cup {Counter!Free}]
    BY <1>2, <1>4, <1>14 DEF Counter!TypeOK, Counter!Segments
  <2>2. semValue' \in [Counter!Semaphores -> {0, 1}] /\ semName' \in Counter!Semaphores
    BY <1>3, <1>4, <1>14 DEF Counter!TypeOK
  <2>. QED
    BY <1>1, <1>14, <2>1, <2>2 DEF Counter!TypeOK, Counter!Goto
<1>8. HandlesFit'
  BY ZenonT(30), <1>1, <1>14, <1>5, <1>6 DEF HandlesFit, HasMutex, Looping, Preparing, Counter!Segments
<1>9. NotYet("family's")
  BY <1>1 DEF FamilyApart
<1>10. FamilyApart'
  BY <1>1, <1>3, <1>14, <1>15, <1>5, <1>6, <1>9, CounterProcesses DEF FamilyApart, NotYet
<1>11. ServiceFirst'
  <2>1. NotYet("service's") => NotYet("service's")'
    BY <1>3, <1>14, <1>15 DEF NotYet
  <2>2. \A p \in Counter!Processes : segment'[p] = "made" => segment[p] = "made"
    BY <1>6
  <2>3. "parent" # "service" /\ at'["service"] = at["service"] /\ mutex'["service"] = mutex["service"]
    BY <1>14, <1>5, CounterProcesses
  <2>4. semName' = "service's" => semName = "service's"
    BY <1>3, <1>15
  <2>. QED
    BY <1>1, <2>1, <2>2, <2>3, <2>4, CounterProcesses DEF ServiceFirst
<1>12. Permits'
  <2>1. mutex["parent"] = Counter!Free
    BY <1>1 DEF HandlesFit
  <2>2. PICK P : P = {"parent"}
    OBVIOUS
  <2>3. /\ \A p \in P : p \in Counter!Processes /\ mutex[p] = Counter!Free /\ at[p] \notin Holding
        /\ \A p \in Counter!Processes : /\ mutex'[p] = IF p \in P THEN k ELSE mutex[p]
                                        /\ at'[p] \in Holding <=> at[p] \in Holding
    BY <1>1, <1>14, <1>5, <2>1, <2>2 DEF Holding
  <2>4. \/ NotYet(k) /\ semValue' = [semValue EXCEPT ![k] = 1]
        \/ semValue' = semValue /\ (k = "left" \/ \E q \in Counter!Processes : mutex[q] = k)
    <3>1. CASE semName = Counter!Free
      BY <1>4, <1>9, <3>1
    <3>2. CASE semName # Counter!Free
      <4>1. k = semName /\ semValue' = semValue
        BY <1>4, <3>2
      <4>2. k = "left" \/ mutex["parent"] = k \/ mutex["service"] = k
        BY <1>14, <4>1 DEF FamilyApart, ServiceFirst, Counter!Semaphores
      <4>. QED
        BY <1>1, <4>1, <4>2, CounterProcesses
    <3>. QED
      BY <3>1, <3>2
  <2>. QED
    BY <1>14, <2>3, <2>4, PermitsOpened
<1>13. CleanCounts'
  <2>1. mutex["parent"] = Counter!Free
    BY <1>1 DEF HandlesFit
  <2>. QED
    BY <1>1, <1>14, <1>5, <1>6, <2>1, CountsSame, CounterProcesses
<1>. QED
  BY <1>7, <1>8, <1>10, <1>11, <1>12, <1>13 DEF CounterInv

\* The parent unlinks the name of the semaphore.
LEMMA FamilyUnlinksStep == ASSUME CounterInv, Counter!FamilyUnlinks PROVE CounterInv'
<1>. USE CounterParts
<1>1. /\ at["parent"] = "unlink" /\ "parent" \in Counter!Processes /\ "child" \in Counter!Processes
      /\ UNCHANGED <<segName, semValue, count, added, early, read, turn>>
  BY CounterProcesses DEF Counter!FamilyUnlinks, Counter!handles
<1>2. CASE semName = Counter!Free
  BY <1>1, <1>2, LabelOnlyStep DEF Counter!FamilyUnlinks, Counter!handles
<1>3. CASE semName # Counter!Free
  <2>13. semName' = Counter!Free
    BY <1>3 DEF Counter!FamilyUnlinks
  <2>1. /\ at' = [p \in Counter!Processes |-> IF p \in Counter!Family THEN "wait" ELSE at[p]]
        /\ segment' = [segment EXCEPT !["child"] = "inherited"]
        /\ mutex' = [mutex EXCEPT !["child"] = mutex["parent"]]
    BY <1>3 DEF Counter!FamilyUnlinks
  <2>2. /\ mutex["parent"] \in Counter!Semaphores /\ segment["parent"] = "inherited"
        /\ at["child"] = "absent" /\ mutex["child"] = Counter!Free
    BY <1>1 DEF HandlesFit, HasMutex, FamilyApart, Counter!Segments, Counter!Free, Counter!Family
  <2>3. \A p \in Counter!Processes : at'[p] = IF p \in Counter!Family THEN "wait" ELSE at[p]
    BY <2>1
  <2>4. \A p \in Counter!Processes : mutex'[p] = IF p = "child" THEN mutex["parent"] ELSE mutex[p]
    BY <2>1 DEF Counter!TypeOK
  <2>5. \A p \in Counter!Processes : segment'[p] = IF p = "child" THEN "inherited" ELSE segment[p]
    BY <2>1 DEF Counter!TypeOK
  <2>6. Counter!TypeOK'
    <3>1. mutex' \in [Counter!Processes -> Counter!Semaphores \cup {Counter!Free}]
            /\ segment' \in [Counter!Processes -> Counter!Segments \cup {Counter!Free}]
      BY <2>1, <2>2 DEF Counter!TypeOK, Counter!Segments
    <3>. QED
      BY <1>1, <2>1, <2>13, <3>1 DEF Counter!TypeOK
  <2>7. \A p \in Counter!Family : p = "parent" \/ p = "child"
    BY DEF Counter!Family
  <2>8. HandlesFit'
    <3>. SUFFICES ASSUME NEW p \in Counter!Processes
                  PROVE  /\ at'[p] \in {"absent", "open", "init", "open semaphore"} \cup Preparing =>
                              mutex'[p] = Counter!Free
                         /\ at'[p] \in Looping \cup {"unlink"} => mutex'[p] \in Counter!Semaphores
                         /\ p # "service" /\ at'[p] \in {"absent", "open", "init"} =>
                              segment'[p] = Counter!Free
                         /\ p # "service" /\ at'[p] \in Looping \cup {"unlink", "open semaphore"} =>
                              segment'[p] \in Counter!Segments
                         /\ at'[p] \in {"read", "write"} => p # "service"
                         /\ at'[p] # "done" => turn'[p] < Turns
      BY DEF HandlesFit, HasMutex
    <3>1. CASE p \in Counter!Family
      <4>1. at'[p] = "wait" /\ mutex'[p] \in Counter!Semaphores /\ segment'[p] \in Counter!Segments
        BY <2>2, <2>3, <2>4, <2>5, <2>7, <3>1 DEF Counter!Segments
      <4>2. turn'[p] < Turns
        BY <1>1, <2>2, <2>7, <3>1 DEF HandlesFit
      <4>. QED
        BY <4>1, <4>2 DEF Preparing
    <3>2. CASE p \notin Counter!Family
      <4>1. p # "child"
        BY <3>2 DEF Counter!Family
      <4>. QED
        BY <1>1, <2>3, <2>4, <2>5, <3>2, <4>1 DEF HandlesFit, HasMutex
    <3>. QED
      BY <3>1, <3>2
  <2>9. FamilyApart'
    BY <1>1, <2>13, <2>3, <2>4, <2>5, CounterProcesses DEF FamilyApart, NotYet, Counter!Free
  <2>10. ServiceFirst'
    BY <1>1, <2>13, <2>3, <2>4, <2>5, CounterProcesses DEF ServiceFirst, NotYet, Counter!Free, Preparing
  <2>11. Permits'
    <3>1. PICK P, k : P = {"child"} /\ k = mutex["parent"]
      OBVIOUS
    <3>2. /\ \A p \in P : p \in Counter!Processes /\ mutex[p] = Counter!Free /\ at[p] \notin Holding
          /\ \A p \in Counter!Processes : /\ mutex'[p] = IF p \in P THEN k ELSE mutex[p]
                                          /\ at'[p] \in Holding <=> at[p] \in Holding
      BY <1>1, <2>2, <2>3, <2>4, <2>7, <3>1 DEF Holding
    <3>. QED
      BY <1>1, <2>2, <3>1, <3>2, PermitsOpened
  <2>12. CleanCounts'
    BY <1>1, <2>2, <2>3, <2>4, <2>5, CountsSame, CounterProcesses
  <2>. QED
    BY <2>6, <2>8, <2>9, <2>10, <2>11, <2>12 DEF CounterInv
<1>. QED
  BY <1>2, <1>3

\* The parent sets the count to 0 and forks: the child shares what its parent has.
LEMMA FamilyInitsStep == ASSUME CounterInv, Counter!FamilyInits PROVE CounterInv'
<1>. USE CounterParts
<1>1. /\ at["parent"] = "init" /\ "parent" \in Counter!Processes /\ "child" \in Counter!Processes
      /\ UNCHANGED <<segName, semName, count, added, early, read, turn>>
  BY CounterProcesses DEF Counter!FamilyInits, Counter!names
<1>2. /\ semValue' = [semValue EXCEPT !["family's"] = 1]
      /\ at' = [p \in Counter!Processes |-> IF p \in Counter!Family THEN "wait" ELSE at[p]]
      /\ segment' = [p \in Counter!Processes |-> IF p \in Counter!Family THEN "inherited" ELSE segment[p]]
      /\ mutex' = [p \in Counter!Processes |-> IF p \in Counter!Family THEN "family's" ELSE mutex[p]]
  BY DEF Counter!FamilyInits
<1>3. \A p \in Counter!Processes : /\ at'[p] = IF p \in Counter!Family THEN "wait" ELSE at[p]
                                   /\ segment'[p] = IF p \in Counter!Family THEN "inherited" ELSE segment[p]
                                   /\ mutex'[p] = IF p \in Counter!Family THEN "family's" ELSE mutex[p]
  BY <1>2
<1>4. /\ at["child"] = "absent" /\ NotYet("family's")
      /\ \A p \in Counter!Family : p \in Counter!Processes /\ at[p] \in {"init", "absent"}
                                     /\ mutex[p] = Counter!Free
  <2>1. at["child"] = "absent" /\ NotYet("family's")
    BY <1>1 DEF FamilyApart
  <2>. QED
    BY <1>1, <2>1 DEF Counter!Family, HandlesFit
<1>5. Counter!TypeOK'
  <2>1. semValue' \in [Counter!Semaphores -> {0, 1}]
    BY <1>2 DEF Counter!TypeOK
  <2>2. at' \in [Counter!Processes -> {"absent", "unlink segment", "create", "map", "zero", "unlink semaphore",
                   "open", "init", "unlink", "open semaphore", "wait", "read", "write",
                   "post", "done", "failed", "killed", "killed holding"}]
    BY <1>2 DEF Counter!TypeOK
  <2>3. segment' \in [Counter!Processes -> Counter!Segments \cup {Counter!Free}]
          /\ mutex' \in [Counter!Processes -> Counter!Semaphores \cup {Counter!Free}]
    BY <1>2 DEF Counter!TypeOK, Counter!Segments, Counter!Semaphores
  <2>. QED
    BY <1>1, <2>1, <2>2, <2>3 DEF Counter!TypeOK
<1>6. HandlesFit'
  <2>1. \A p \in Counter!Family : turn[p] < Turns /\ p # "service"
    BY <1>4, CounterProcesses DEF HandlesFit
  <2>. QED
    BY ZenonT(30), <1>1, <1>3, <2>1
       DEF HandlesFit, HasMutex, Looping, Preparing, Counter!Segments, Counter!Semaphores
<1>7. FamilyApart'
  BY <1>1, <1>3, CounterProcesses DEF FamilyApart
<1>8. ServiceFirst'
  BY <1>1, <1>3, CounterProcesses DEF ServiceFirst, NotYet
<1>9. Permits'
  <2>1. \A p \in Counter!Processes : /\ mutex'[p] = IF p \in Counter!Family THEN "family's" ELSE mutex[p]
                                     /\ at'[p] \in Holding <=> at[p] \in Holding
    BY <1>3, <1>4 DEF Holding
  <2>2. \A p \in Counter!Family : p \in Counter!Processes /\ mutex[p] = Counter!Free /\ at[p] \notin Holding
    BY <1>4 DEF Holding
  <2>3. "family's" \in Counter!Semaphores
    BY DEF Counter!Semaphores
  <2>. QED
    BY <1>2, <1>4, <2>1, <2>2, <2>3, PermitsOpened
<1>10. CleanCounts'
  BY <1>1, <1>3, <1>4, CountsSame, CounterProcesses
<1>. QED
  BY <1>5, <1>6, <1>7, <1>8, <1>9, <1>10 DEF CounterInv

\* A client maps the segment that has the name then.
LEMMA ClientMapsStep == ASSUME CounterInv, NEW c \in Clients, Counter!ClientMaps(c) PROVE CounterInv'
<1>. USE CounterParts
<1>1. /\ at[c] = "open" /\ c \in Counter!Processes /\ c \in Counter!Counting
      /\ c \notin Counter!Family /\ c # "service"
      /\ UNCHANGED <<segName, semName, semValue, count, added, mutex, read, turn>>
  BY CounterProcesses DEF Counter!ClientMaps, Counter!names
<1>2. CASE segName = Counter!Free
  BY <1>1, <1>2, LabelOnlyStep DEF Counter!ClientMaps
<1>3. CASE segName # Counter!Free
  <2>1. /\ segment' = [segment EXCEPT ![c] = segName] /\ Counter!Goto(c, "open semaphore")
        /\ early' = IF at["service"] \in {"map", "zero"} THEN early \cup {c} ELSE early
    BY <1>3 DEF Counter!ClientMaps
  <2>2. segName \in {"left", "made"}
    BY <1>3 DEF Counter!TypeOK
  <2>3. \A q \in Counter!Processes : at'[q] = IF q = c THEN "open semaphore" ELSE at[q]
    BY <1>1, <2>1, GotoLabel
  <2>4. \A q \in Counter!Processes : segment'[q] = IF q = c THEN segName ELSE segment[q]
    BY <2>1 DEF Counter!TypeOK
  <2>5. (\A p \in early : p \in early') /\ (at["service"] \in {"map", "zero"} => c \in early')
    BY <2>1
  <2>6. Counter!TypeOK'
    <3>1. early' \subseteq Clients /\ segment' \in [Counter!Processes -> Counter!Segments \cup {Counter!Free}]
      BY <2>1, <2>2 DEF Counter!TypeOK, Counter!Segments
    <3>. QED
      BY <1>1, <2>1, <3>1 DEF Counter!TypeOK, Counter!Goto
  <2>7. HandlesFit'
    BY <1>1, <2>2, <2>3, <2>4 DEF HandlesFit, HasMutex, Looping, Preparing, Counter!Segments
  <2>8. FamilyApart'
    BY <1>1, <2>3, <2>4, CounterProcesses DEF FamilyApart, NotYet
  <2>9. ServiceFirst'
    <3>1. at'["service"] = at["service"]
      BY <1>1, <2>3, CounterProcesses
    <3>2. at["service"] \in {"absent", "unlink segment", "create"} =>
            segName # "made" /\ \A p \in Counter!Processes : segment'[p] # "made"
      BY <2>4 DEF ServiceFirst
    <3>3. at["service"] \in {"map", "zero"} => \A p \in Counter!Counting : segment'[p] = "made" => p \in early'
      BY <2>4, <2>5, CounterProcesses DEF ServiceFirst
    <3>. QED
      BY <1>1, <3>1, <3>2, <3>3 DEF ServiceFirst, NotYet
  <2>10. Permits'
    BY <1>1, <2>3, PermitsSame
  <2>11. CleanCounts'
    <3>1. mutex[c] = Counter!Free
      BY <1>1 DEF HandlesFit
    <3>. QED
      BY <1>1, <2>3, <2>4, <2>5, <3>1, CountsSame, CounterProcesses
  <2>. QED
    BY <2>6, <2>7, <2>8, <2>9, <2>10, <2>11 DEF CounterInv
<1>. QED
  BY <1>2, <1>3

\* A client opens or creates the semaphore that has the name then.
LEMMA ClientOpensStep == ASSUME CounterInv, NEW c \in Clients, Counter!ClientOpens(c) PROVE CounterInv'
<1>. USE CounterParts
<1>1. /\ at[c] = "open semaphore" /\ c \in Counter!Processes /\ c \in Counter!Counting
      /\ c \notin Counter!Family /\ c # "service"
      /\ UNCHANGED <<segName, semName, semValue, count, added, segment, early, read, turn>>
  BY CounterProcesses DEF Counter!ClientOpens, Counter!names
<1>2. CASE semName = Counter!Free
  BY <1>1, <1>2, LabelOnlyStep DEF Counter!ClientOpens
<1>3. CASE semName # Counter!Free
  <2>1. mutex' = [mutex EXCEPT ![c] = semName] /\ Counter!Goto(c, "wait")
    BY <1>3 DEF Counter!ClientOpens
  <2>2. semName \in Counter!Semaphores /\ mutex[c] = Counter!Free
    BY <1>1, <1>3 DEF Counter!TypeOK, HandlesFit
  <2>3. \A q \in Counter!Processes : at'[q] = IF q = c THEN "wait" ELSE at[q]
    BY <1>1, <2>1, GotoLabel
  <2>4. \A q \in Counter!Processes : mutex'[q] = IF q = c THEN semName ELSE mutex[q]
    BY <2>1 DEF Counter!TypeOK
  <2>5. \A m : NotYet(m) => NotYet(m)'
    BY <1>1, <2>4 DEF NotYet
  <2>6. Counter!TypeOK'
    <3>1. mutex' \in [Counter!Processes -> Counter!Semaphores \cup {Counter!Free}]
      BY <2>1, <2>2 DEF Counter!TypeOK
    <3>. QED
      BY <1>1, <2>1, <3>1 DEF Counter!TypeOK, Counter!Goto
  <2>7. HandlesFit'
    BY <1>1, <2>2, <2>3, <2>4 DEF HandlesFit, HasMutex, Looping, Preparing
  <2>8. FamilyApart'
    BY <1>1, <2>3, <2>4, <2>5, CounterProcesses DEF FamilyApart
  <2>9. ServiceFirst'
    BY <1>1, <2>3, <2>4, <2>5, CounterProcesses DEF ServiceFirst
  <2>10. Permits'
    <3>1. PICK P : P = {c}
      OBVIOUS
    <3>2. /\ \A p \in P : p \in Counter!Processes /\ mutex[p] = Counter!Free /\ at[p] \notin Holding
          /\ \A p \in Counter!Processes : /\ mutex'[p] = IF p \in P THEN semName ELSE mutex[p]
                                          /\ at'[p] \in Holding <=> at[p] \in Holding
      BY <1>1, <2>2, <2>3, <2>4, <3>1 DEF Holding
    <3>3. semName = "left" \/ mutex["parent"] = semName \/ mutex["service"] = semName
      BY <2>2 DEF FamilyApart, ServiceFirst, Counter!Semaphores
    <3>4. semName = "left" \/ \E q \in Counter!Processes : mutex[q] = semName
      BY <3>3, CounterProcesses
    <3>. QED
      BY <1>1, <2>2, <3>2, <3>4, PermitsOpened
  <2>11. CleanCounts'
    BY <1>1, <2>2, <2>3, <2>4, CountsSame, CounterProcesses
  <2>. QED
    BY <2>6, <2>7, <2>8, <2>9, <2>10, <2>11 DEF CounterInv
<1>. QED
  BY <1>2, <1>3

\* What a step of the loop leaves alone.
LEMMA LoopStep ==
    ASSUME CounterInv, NEW p \in Counter!Processes, NEW new, Counter!Goto(p, new), at[p] \in Looping,
           new \in Looping \cup {"done"}, new \in {"read", "write"} => p # "service",
           UNCHANGED <<segName, semName, segment, mutex, early>>
    PROVE  /\ FamilyApart' /\ ServiceFirst'
           /\ (\A q \in Counter!Processes : at'[q] # "done" => turn'[q] < Turns) => HandlesFit'
           /\ at' \in [Counter!Processes -> {"absent", "unlink segment", "create", "map", "zero", "unlink semaphore",
                   "open", "init", "unlink", "open semaphore", "wait", "read", "write",
                   "post", "done", "failed", "killed", "killed holding"}]
           /\ mutex[p] \in Counter!Semaphores
           /\ p # "service" => segment[p] \in Counter!Segments
           /\ \A q \in Counter!Processes : at'[q] = IF q = p THEN new ELSE at[q]
<1>. USE CounterParts
<1>1. \A q \in Counter!Processes : at'[q] = IF q = p THEN new ELSE at[q]
  BY GotoLabel
<1>2. FamilyApart'
  BY <1>1, CounterProcesses DEF FamilyApart, NotYet, Looping
<1>3. ServiceFirst'
  BY <1>1, CounterProcesses DEF ServiceFirst, NotYet, Preparing, Looping
<1>4. (\A q \in Counter!Processes : at'[q] # "done" => turn'[q] < Turns) => HandlesFit'
  BY <1>1 DEF HandlesFit, HasMutex, Looping, Preparing
<1>5. mutex[p] \in Counter!Semaphores /\ (p # "service" => segment[p] \in Counter!Segments)
  BY DEF HandlesFit, HasMutex
<1>6. at' \in [Counter!Processes -> {"absent", "unlink segment", "create", "map", "zero", "unlink semaphore",
                   "open", "init", "unlink", "open semaphore", "wait", "read", "write",
                   "post", "done", "failed", "killed", "killed holding"}]
  BY DEF Counter!TypeOK, Counter!Goto, Looping
<1>. QED
  BY <1>1, <1>2, <1>3, <1>4, <1>5, <1>6

\* A process that counts takes a permit of its semaphore.
LEMMA WaitStep == ASSUME CounterInv, NEW p \in Counter!Processes, Counter!Wait(p) PROVE CounterInv'
<1>. USE CounterParts
<1>1. PICK new, m : new = (IF p = "service" THEN "post" ELSE "read") /\ m = mutex[p]
  OBVIOUS
<1>2. /\ at[p] = "wait" /\ semValue[m] > 0 /\ Counter!Goto(p, new)
      /\ UNCHANGED <<segName, semName, count, added, segment, mutex, early, read, turn>>
  BY <1>1 DEF Counter!Wait, Counter!names, Counter!handles
<1>3. /\ FamilyApart' /\ ServiceFirst'
      /\ (\A q \in Counter!Processes : at'[q] # "done" => turn'[q] < Turns) => HandlesFit'
      /\ at' \in [Counter!Processes -> {"absent", "unlink segment", "create", "map", "zero", "unlink semaphore",
                   "open", "init", "unlink", "open semaphore", "wait", "read", "write",
                   "post", "done", "failed", "killed", "killed holding"}]
      /\ m \in Counter!Semaphores
      /\ \A q \in Counter!Processes : at'[q] = IF q = p THEN new ELSE at[q]
  BY <1>1, <1>2, LoopStep DEF Looping
<1>10. m \in Counter!Semaphores
  BY <1>3
<1>4. semValue \in [Counter!Semaphores -> {0, 1}] /\ semValue[m] = 1
  <2>1. semValue \in [Counter!Semaphores -> {0, 1}]
    BY DEF Counter!TypeOK
  <2>. QED
    BY <1>2, <1>10, <2>1
<1>5. semValue' = [semValue EXCEPT ![m] = 0]
  BY <1>1, <1>4 DEF Counter!Wait
<1>6. Counter!TypeOK'
  <2>1. semValue' \in [Counter!Semaphores -> {0, 1}]
    BY <1>4, <1>5
  <2>. QED
    BY <1>2, <1>3, <2>1 DEF Counter!TypeOK
<1>7. HandlesFit'
  BY <1>1, <1>2, <1>3 DEF HandlesFit
<1>8. Permits'
  <2>1. \A q \in Counter!Processes : ~Holds(q, m)
    BY <1>3, <1>4 DEF Permits
  <2>2. \A k \in Counter!Semaphores : semValue'[k] = IF k = m THEN 0 ELSE semValue[k]
    BY <1>4, <1>5
  <2>3. \A q \in Counter!Processes : Holds(q, m)' <=> q = p
    BY <1>1, <1>2, <1>3, <2>1 DEF Holds
  <2>4. \A q \in Counter!Processes, k \in Counter!Semaphores : k # m => (Holds(q, k)' <=> Holds(q, k))
    BY <1>1, <1>2, <1>3 DEF Holds
  <2>5. ASSUME NEW k \in Counter!Semaphores
        PROVE  /\ semValue'[k] = 1 => \A q \in Counter!Processes : ~Holds(q, k)'
               /\ \A q, o \in Counter!Processes : Holds(q, k)' /\ Holds(o, k)' => q = o
               /\ k # "left" /\ semValue'[k] = 0 /\ (\E q \in Counter!Processes : mutex'[q] = k) =>
                    \E q \in Counter!Processes : Holds(q, k)'
    <3>1. CASE k = m
      BY <2>2, <2>3, <3>1
    <3>2. CASE k # m
      BY <1>2, <2>2, <2>4, <3>2 DEF Permits
    <3>. QED
      BY <3>1, <3>2
  <2>. QED
    BY <2>5 DEF Permits
<1>9. CleanCounts'
  BY <1>1, <1>2, <1>3, CountsSame, CounterProcesses
<1>. QED
  BY <1>3, <1>6, <1>7, <1>8, <1>9 DEF CounterInv

\* It reads the count under that permit.
LEMMA CountRead ==
    ASSUME CounterInv, NEW p \in Counter!Processes, Counter!Read(p), ~Counter!Empty(segment[p])
    PROVE  CounterInv'
<1>. USE CounterParts
<1>1. /\ at[p] = "read" /\ p # "service" /\ p \in Counter!Counting /\ Counter!Goto(p, "write")
      /\ UNCHANGED <<segName, semName, semValue, count, added, segment, mutex, early, turn>>
  BY CounterProcesses DEF Counter!Read, Counter!names, Counter!handles, HandlesFit
<1>2. /\ FamilyApart' /\ ServiceFirst'
      /\ (\A q \in Counter!Processes : at'[q] # "done" => turn'[q] < Turns) => HandlesFit'
      /\ at' \in [Counter!Processes -> {"absent", "unlink segment", "create", "map", "zero", "unlink semaphore",
                   "open", "init", "unlink", "open semaphore", "wait", "read", "write",
                   "post", "done", "failed", "killed", "killed holding"}]
      /\ segment[p] \in Counter!Segments
      /\ \A q \in Counter!Processes : at'[q] = IF q = p THEN "write" ELSE at[q]
  BY <1>1, LoopStep DEF Looping
<1>3. \A q \in Counter!Processes : read'[q] = IF q = p THEN count[segment[p]] ELSE read[q]
  BY DEF Counter!Read, Counter!TypeOK
<1>4. Counter!TypeOK'
  <2>1. count[segment[p]] \in Nat
    BY <1>2 DEF Counter!TypeOK
  <2>2. read' \in [Counter!Processes -> Nat]
    BY <2>1 DEF Counter!Read, Counter!TypeOK
  <2>. QED
    BY <1>1, <1>2, <2>2 DEF Counter!TypeOK
<1>5. HandlesFit'
  BY <1>1, <1>2 DEF HandlesFit
<1>6. Permits'
  BY <1>1, <1>2, PermitsSame
<1>7. CleanCounts'
  <2>1. /\ \A q, s : CountsIn(q, s)' <=> CountsIn(q, s)
        /\ \A s : Clean(s)' <=> Clean(s)
    BY <1>1 DEF CountsIn, Clean
  <2>2. ASSUME NEW q \in Counter!Counting, NEW s \in Counter!Segments,
               Clean(s), CountsIn(q, s), at'[q] = "write"
        PROVE  read'[q] = count[s]
    <3>1. CASE q = p
      BY <1>3, <2>2, <3>1, CounterProcesses DEF CountsIn
    <3>2. CASE q # p
      <4>1. at[q] = "write" /\ read'[q] = read[q]
        BY <1>2, <1>3, <2>2, <3>2, CounterProcesses
      <4>. QED
        BY <2>2, <4>1 DEF CleanCounts
    <3>. QED
      BY <3>1, <3>2
  <2>. QED
    BY <1>1, <2>1, <2>2 DEF CleanCounts
<1>. QED
  BY <1>2, <1>4, <1>5, <1>6, <1>7 DEF CounterInv

\* Or it is killed, because the service has not given the segment its size.
LEMMA ReadStep == ASSUME CounterInv, NEW p \in Counter!Processes, Counter!Read(p) PROVE CounterInv'
<1>1. CASE Counter!Empty(segment[p])
  BY <1>1, LabelOnlyStep DEF Counter!Read, Counter!names, Counter!handles
<1>2. CASE ~Counter!Empty(segment[p])
  BY <1>2, CountRead
<1>. QED
  BY <1>1, <1>2

\* It writes back what it read, and one: an increment that another process wrote
\* in between is lost, which needs a permit of another semaphore.
LEMMA WriteStepOf == ASSUME CounterInv, NEW p \in Counter!Processes, Counter!Write(p) PROVE CounterInv'
<1>. USE CounterParts
<1>1. /\ at[p] = "write" /\ p # "service" /\ p \in Counter!Counting /\ Counter!Goto(p, "post")
      /\ UNCHANGED <<segName, semName, semValue, segment, mutex, early, turn>>
  BY CounterProcesses DEF Counter!Write, Counter!names, Counter!handles, HandlesFit
<1>2. /\ FamilyApart' /\ ServiceFirst'
      /\ (\A q \in Counter!Processes : at'[q] # "done" => turn'[q] < Turns) => HandlesFit'
      /\ at' \in [Counter!Processes -> {"absent", "unlink segment", "create", "map", "zero", "unlink semaphore",
                   "open", "init", "unlink", "open semaphore", "wait", "read", "write",
                   "post", "done", "failed", "killed", "killed holding"}]
      /\ mutex[p] \in Counter!Semaphores /\ segment[p] \in Counter!Segments
      /\ \A q \in Counter!Processes : at'[q] = IF q = p THEN "post" ELSE at[q]
  BY <1>1, LoopStep DEF Looping
<1>3. PICK t : t = segment[p]
  OBVIOUS
<1>4. /\ read[p] \in Nat
      /\ \A s \in Counter!Segments : /\ count'[s] = IF s = t THEN read[p] + 1 ELSE count[s]
                                     /\ added'[s] = IF s = t THEN added[s] + 1 ELSE added[s]
  <2>1. \A s \in Counter!Segments : count'[s] = IF s = t THEN read[p] + 1 ELSE count[s]
    BY <1>3 DEF Counter!Write, Counter!TypeOK
  <2>2. \A s \in Counter!Segments : added'[s] = IF s = t THEN added[s] + 1 ELSE added[s]
    BY <1>3 DEF Counter!Write, Counter!TypeOK
  <2>. QED
    BY <2>1, <2>2 DEF Counter!TypeOK
<1>5. \A q \in Counter!Processes : read'[q] = IF q = p THEN 0 ELSE read[q]
  BY DEF Counter!Write, Counter!TypeOK
<1>6. Counter!TypeOK'
  <2>4. count \in [Counter!Segments -> Nat] /\ added \in [Counter!Segments -> Nat] /\ t \in Counter!Segments
    BY <1>2, <1>3 DEF Counter!TypeOK
  <2>5. count' = [count EXCEPT ![t] = read[p] + 1] /\ added' = [added EXCEPT ![t] = added[t] + 1]
    BY <1>3 DEF Counter!Write
  <2>6. read[p] + 1 \in Nat /\ added[t] + 1 \in Nat
    BY <1>4, <2>4
  <2>1. count' \in [Counter!Segments -> Nat]
    BY <2>4, <2>5, <2>6
  <2>2. added' \in [Counter!Segments -> Nat]
    BY <2>4, <2>5, <2>6
  <2>3. read' \in [Counter!Processes -> Nat]
    BY DEF Counter!Write, Counter!TypeOK
  <2>. QED
    BY <1>1, <1>2, <2>1, <2>2, <2>3 DEF Counter!TypeOK
<1>7. HandlesFit'
  BY <1>1, <1>2 DEF HandlesFit
<1>8. Permits'
  BY <1>1, <1>2, PermitsSame
<1>9. CleanCounts'
  <2>1. /\ \A q, s : CountsIn(q, s)' <=> CountsIn(q, s)
        /\ \A s : Clean(s)' <=> Clean(s)
    BY <1>1 DEF CountsIn, Clean
  <2>2. CountsIn(p, t) /\ t \in Counter!Segments
    BY <1>2, <1>3 DEF CountsIn, Counter!Semaphores, Counter!Free
  <2>3. ASSUME Clean(t)
        PROVE  /\ count'[t] = added'[t]
               /\ \A q \in Counter!Counting : CountsIn(q, t) => at'[q] # "write"
    <3>1. count[t] = added[t] /\ read[p] = count[t]
      BY <1>1, <2>2, <2>3 DEF CleanCounts
    <3>2. count'[t] = added'[t]
      BY <1>4, <2>2, <3>1
    <3>3. ASSUME NEW q \in Counter!Counting, CountsIn(q, t), at[q] = "write"
          PROVE  q = p
      <4>1. mutex[q] = mutex[p]
        BY <1>1, <2>2, <2>3, <3>3 DEF Clean
      <4>2. Holds(q, mutex[p]) /\ Holds(p, mutex[p])
        BY <1>1, <3>3, <4>1 DEF Holds
      <4>. QED
        BY <1>2, <4>2, CounterProcesses DEF Permits
    <3>. QED
      BY <1>2, <3>2, <3>3, CounterProcesses
  <2>4. CASE TRUE
    <3>. SUFFICES ASSUME NEW s \in Counter!Segments
                  PROVE  /\ Clean(s) =>
                              /\ count'[s] = added'[s]
                              /\ \A q \in Counter!Counting : CountsIn(q, s) /\ at'[q] = "write" =>
                                   read'[q] = count'[s]
                         /\ (\A q \in Counter!Counting : ~CountsIn(q, s)) => added'[s] = 0
      BY <2>1 DEF CleanCounts
    <3>1. CASE s = t
      BY <1>1, <2>2, <2>3, <3>1
    <3>2. CASE s # t
      <4>1. count'[s] = count[s] /\ added'[s] = added[s]
        BY <1>4, <3>2
      <4>2. \A q \in Counter!Counting : CountsIn(q, s) => at'[q] = at[q] /\ read'[q] = read[q]
        BY <1>2, <1>3, <1>5, <3>2, CounterProcesses DEF CountsIn
      <4>. QED
        BY <4>1, <4>2 DEF CleanCounts
    <3>. QED
      BY <3>1, <3>2
  <2>. QED
    BY <2>4
<1>. QED
  BY <1>2, <1>6, <1>7, <1>8, <1>9 DEF CounterInv

\* It gives its permit back.
LEMMA PostStep == ASSUME CounterInv, NEW p \in Counter!Processes, Counter!Post(p) PROVE CounterInv'
<1>. USE CounterParts
<1>1. PICK new, m : /\ new = (IF p # "service" /\ turn[p] + 1 = Turns THEN "done" ELSE "wait")
                    /\ m = mutex[p]
  OBVIOUS
<1>2. /\ at[p] = "post" /\ Counter!Goto(p, new) /\ new \in {"wait", "done"}
      /\ UNCHANGED <<segName, semName, count, added, segment, mutex, early, read>>
  BY <1>1 DEF Counter!Post, Counter!names, Counter!handles
<1>3. /\ FamilyApart' /\ ServiceFirst'
      /\ (\A q \in Counter!Processes : at'[q] # "done" => turn'[q] < Turns) => HandlesFit'
      /\ at' \in [Counter!Processes -> {"absent", "unlink segment", "create", "map", "zero", "unlink semaphore",
                   "open", "init", "unlink", "open semaphore", "wait", "read", "write",
                   "post", "done", "failed", "killed", "killed holding"}]
      /\ m \in Counter!Semaphores
      /\ \A q \in Counter!Processes : at'[q] = IF q = p THEN new ELSE at[q]
  BY <1>1, <1>2, LoopStep DEF Looping
<1>10. m \in Counter!Semaphores
  BY <1>3
<1>11. \A q \in Counter!Processes : at'[q] = IF q = p THEN new ELSE at[q]
  BY <1>3
<1>4. semValue \in [Counter!Semaphores -> {0, 1}] /\ semValue[m] = 0
  <2>1. semValue \in [Counter!Semaphores -> {0, 1}]
    BY DEF Counter!TypeOK
  <2>2. Holds(p, m)
    BY <1>1, <1>2 DEF Holds
  <2>. QED
    BY <1>10, <2>1, <2>2 DEF Permits
<1>5. semValue' = [semValue EXCEPT ![m] = 1]
  BY <1>1, <1>4 DEF Counter!Post
<1>6. \A k \in Counter!Semaphores : semValue'[k] = IF k = m THEN 1 ELSE semValue[k]
  BY <1>4, <1>5
<1>7. /\ turn' \in [Counter!Processes -> 0 .. Turns]
      /\ \A q \in Counter!Processes : at'[q] # "done" => turn'[q] < Turns
  <2>1. /\ turn \in [Counter!Processes -> 0 .. Turns] /\ turn[p] < Turns
        /\ \A q \in Counter!Processes : at[q] # "done" => turn[q] < Turns
    BY <1>2 DEF Counter!TypeOK, HandlesFit
  <2>2. turn' = IF p = "service" THEN turn ELSE [turn EXCEPT ![p] = @ + 1]
    BY DEF Counter!Post
  <2>3. CASE p = "service"
    BY <1>2, <1>11, <2>1, <2>2, <2>3
  <2>4. CASE p # "service"
    <3>1. turn[p] + 1 \in 0 .. Turns
      BY <2>1, TurnsAssumption
    <3>2. turn' = [turn EXCEPT ![p] = turn[p] + 1]
      BY <2>2, <2>4
    <3>3. turn' \in [Counter!Processes -> 0 .. Turns]
            /\ \A q \in Counter!Processes : turn'[q] = IF q = p THEN turn[p] + 1 ELSE turn[q]
      BY <2>1, <3>1, <3>2
    <3>4. new # "done" => turn[p] + 1 < Turns
      BY <1>1, <2>1, <2>4, TurnsAssumption
    <3>5. ASSUME NEW q \in Counter!Processes, at'[q] # "done" PROVE turn'[q] < Turns
      <4>1. CASE q = p
        BY <1>11, <3>3, <3>4, <3>5, <4>1
      <4>2. CASE q # p
        BY <1>11, <2>1, <3>3, <3>5, <4>2
      <4>. QED
        BY <4>1, <4>2
    <3>. QED
      BY <3>3, <3>5
  <2>. QED
    BY <2>3, <2>4
<1>8. Counter!TypeOK'
  <2>1. semValue' \in [Counter!Semaphores -> {0, 1}]
    BY <1>4, <1>5
  <2>. QED
    BY <1>2, <1>3, <1>7, <2>1 DEF Counter!TypeOK
<1>9. HandlesFit'
  BY <1>3, <1>7
<1>12. Permits'
  <2>1. \A q \in Counter!Processes : Holds(q, m) => q = p
    BY <1>1, <1>2, <1>10 DEF Permits, Holds
  <2>2. \A q \in Counter!Processes : ~Holds(q, m)'
    BY <1>1, <1>2, <1>11, <2>1 DEF Holds
  <2>3. \A q \in Counter!Processes, k \in Counter!Semaphores : k # m => (Holds(q, k)' <=> Holds(q, k))
    BY <1>1, <1>2, <1>11 DEF Holds
  <2>4. ASSUME NEW k \in Counter!Semaphores
        PROVE  /\ semValue'[k] = 1 => \A q \in Counter!Processes : ~Holds(q, k)'
               /\ \A q, o \in Counter!Processes : Holds(q, k)' /\ Holds(o, k)' => q = o
               /\ k # "left" /\ semValue'[k] = 0 /\ (\E q \in Counter!Processes : mutex'[q] = k) =>
                    \E q \in Counter!Processes : Holds(q, k)'
    <3>1. CASE k = m
      BY <1>6, <2>2, <3>1
    <3>2. CASE k # m
      BY <1>2, <1>6, <2>3, <3>2 DEF Permits
    <3>. QED
      BY <3>1, <3>2
  <2>. QED
    BY <2>4 DEF Permits
<1>13. CleanCounts'
  BY <1>2, <1>11, CountsSame, CounterProcesses
<1>. QED
  BY <1>3, <1>8, <1>9, <1>12, <1>13 DEF CounterInv

\* Every step of the counting programs preserves CounterInv.
LEMMA CounterNext == ASSUME CounterInv, Counter!Next PROVE CounterInv'
<1>1. CASE Counter!FamilyOpens \/ Counter!FamilyUnlinks \/ Counter!FamilyInits
  BY <1>1, FamilyOpensStep, FamilyUnlinksStep, FamilyInitsStep
<1>2. CASE \/ Counter!ServiceUnlinksSegment \/ Counter!ServiceCreates \/ Counter!ServiceMaps
           \/ Counter!ServiceZeroes
           \/ Counter!ServiceUnlinksSemaphore \/ Counter!ServiceOpens
  BY <1>2, ServiceUnlinksStep, ServiceCreatesStep, ServiceMapsStep, ServiceZeroesStep, ServiceOpensStep
<1>3. CASE \E c \in Clients : Counter!ClientMaps(c) \/ Counter!ClientOpens(c)
  BY <1>3, ClientMapsStep, ClientOpensStep
<1>4. CASE \E p \in Counter!Processes : Counter!Loop(p)
  BY <1>4, WaitStep, ReadStep, WriteStepOf, PostStep DEF Counter!Loop
<1>5. CASE \E p \in Counter!Processes : Counter!Killed(p)
  <2>1. PICK p \in Counter!Processes : Counter!Killed(p)
    BY <1>5
  <2>. QED
    BY <2>1, LabelOnlyStep DEF Counter!Killed, Counter!names, Counter!handles
<1>. QED
  BY <1>1, <1>2, <1>3, <1>4, <1>5 DEF Counter!Next

\* So does a step of another program.
LEMMA CounterUnchanged == ASSUME CounterInv, UNCHANGED counterVars PROVE CounterInv'
<1>1. UNCHANGED <<segName, semName, semValue, count, added, at, segment, mutex, read, turn, early>>
  BY DEF counterVars
<1>2. Counter!TypeOK' /\ HandlesFit' /\ FamilyApart' /\ ServiceFirst'
  BY <1>1, CounterParts DEF Counter!TypeOK, HandlesFit, HasMutex, FamilyApart, ServiceFirst, NotYet
<1>3. Permits' /\ CleanCounts'
  BY <1>1, PermitsSame, CountsSame
<1>. QED
  BY <1>2, <1>3 DEF CounterInv

\* CounterInv holds when the counting programs start, and when they are not run.
LEMMA CounterInit == ASSUME Counter!Init \/ Counter!NotRun PROVE CounterInv
<1>1. /\ count = [s \in Counter!Segments |-> 0] /\ added = count /\ early = {}
      /\ segment = [p \in Counter!Processes |-> Counter!Free]
      /\ mutex = [p \in Counter!Processes |-> Counter!Free]
      /\ read = [p \in Counter!Processes |-> 0] /\ turn = [p \in Counter!Processes |-> 0]
  BY DEF Counter!Init, Counter!NotRun, Counter!Quiet
<1>2. /\ segName \in {"left", Counter!Free} /\ semName \in {"left", Counter!Free}
      /\ semValue \in [Counter!Semaphores -> {0, 1}]
      /\ semValue["service's"] = 0 /\ semValue["family's"] = 0
  BY DEF Counter!Init, Counter!NotRun, Counter!Semaphores
<1>3. /\ at \in [Counter!Processes -> {"absent", "unlink segment", "open", "init"}]
      /\ at["service"] \in {"absent", "unlink segment"}
      /\ at["child"] = "absent"
  <2>1. CASE Counter!NotRun
    BY <2>1, CounterProcesses DEF Counter!NotRun
  <2>2. CASE Counter!Init
    <3>1. PICK first \in Clients, family \in {"open", "init", "absent"} :
            at = [p \in Counter!Processes |->
                    CASE p = "service" -> "unlink segment"
                      [] p = first \/ (p \in Clients /\ family = "absent") -> "open"
                      [] p = "parent" -> family
                      [] OTHER -> "absent"]
      BY <2>2 DEF Counter!Init
    <3>2. /\ "service" \in Counter!Processes /\ "child" \in Counter!Processes
          /\ "child" \notin Clients /\ "child" # "service" /\ "child" # "parent" /\ "child" # first
          /\ "service" \notin Clients /\ "service" # first
      BY CounterProcesses
    <3>3. at["service"] = "unlink segment"
      BY <3>1, <3>2
    <3>4. at["child"] = "absent"
      BY <3>1, <3>2
    <3>. QED
      BY <3>1, <3>3, <3>4
  <2>. QED
    BY <2>1, <2>2
<1>4. Counter!TypeOK
  <2>1. at \in [Counter!Processes -> {"absent", "unlink segment", "create", "map", "zero", "unlink semaphore",
                   "open", "init", "unlink", "open semaphore", "wait", "read", "write",
                   "post", "done", "failed", "killed", "killed holding"}]
    BY <1>3
  <2>2. count \in [Counter!Segments -> Nat] /\ added \in [Counter!Segments -> Nat]
    BY <1>1
  <2>3. read \in [Counter!Processes -> Nat] /\ turn \in [Counter!Processes -> 0 .. Turns]
    BY <1>1, TurnsAssumption
  <2>4. segment \in [Counter!Processes -> Counter!Segments \cup {Counter!Free}]
          /\ mutex \in [Counter!Processes -> Counter!Semaphores \cup {Counter!Free}] /\ early \subseteq Clients
    BY <1>1
  <2>5. segName \in {"left", "made", Counter!Free} /\ semName \in Counter!Semaphores \cup {Counter!Free}
    BY <1>2 DEF Counter!Semaphores
  <2>. QED
    BY <1>2, <2>1, <2>2, <2>3, <2>4, <2>5 DEF Counter!TypeOK
<1>5. \A p \in Counter!Processes : /\ mutex[p] = Counter!Free /\ segment[p] = Counter!Free
                                   /\ turn[p] < Turns /\ at[p] \in {"absent", "unlink segment", "open", "init"}
  <2>1. \A p \in Counter!Processes : mutex[p] = Counter!Free
    BY <1>1
  <2>2. \A p \in Counter!Processes : segment[p] = Counter!Free
    BY <1>1
  <2>3. \A p \in Counter!Processes : turn[p] < Turns
    BY <1>1, TurnsAssumption
  <2>. QED
    BY <1>3, <2>1, <2>2, <2>3
<1>6. HandlesFit
  BY <1>5 DEF HandlesFit, Looping
<1>7. FamilyApart
  BY <1>2, <1>3, <1>5, CounterProcesses DEF FamilyApart, NotYet, Counter!Free
<1>8. ServiceFirst
  BY <1>2, <1>3, <1>5, CounterProcesses DEF ServiceFirst, NotYet, Counter!Free
<1>9. Permits
  BY <1>5 DEF Permits, Holds, Counter!Semaphores, Counter!Free
<1>10. CleanCounts
  BY <1>1, <1>5, CounterProcesses DEF CleanCounts, CountsIn
<1>. QED
  BY <1>4, <1>6, <1>7, <1>8, <1>9, <1>10 DEF CounterInv

\* What the inductive invariant says about losses and permits.
LEMMA CounterKeepsCount == ASSUME CounterInv PROVE Counter!LostOnlyToOldSemaphore
<1>. SUFFICES ASSUME NEW s \in Counter!Segments, count[s] # added[s],
                     ~(\E p, q \in Counter!CountingIn(s) : mutex[p] # mutex[q]),
                     Counter!CountingIn(s) \cap early = {}
              PROVE  FALSE
  BY DEF Counter!LostOnlyToOldSemaphore
<1>1. Counter!CountingIn(s) = {p \in Counter!Counting : CountsIn(p, s)}
  BY DEF Counter!CountingIn, CountsIn
<1>2. Clean(s)
  BY <1>1 DEF Clean
<1>. QED
  BY <1>2, CounterParts DEF CleanCounts

\* Nor is a permit of a semaphore held by two processes.
LEMMA PermitsAreHeldOnce == ASSUME CounterInv PROVE Counter!PermitHeldOnce
<1>1. \A m \in Counter!Semaphores : Counter!Holders(m) = {p \in Counter!Processes : Holds(p, m)}
  BY DEF Counter!Holders, Holds
<1>. QED
  BY <1>1, CounterParts DEF Permits, Counter!PermitHeldOnce

\* Every permit of a semaphore is held once and every segment counts what its
\* processes wrote under one (mman_test.cpp:393-649), in every state of Storage.
THEOREM CounterInvariant == Spec => []CounterInv
<1>1. Init => CounterInv
  BY CounterInit DEF Init
<1>2. CounterInv /\ [Next]_vars => CounterInv'
  BY CounterNext, CounterUnchanged DEF Next, vars
<1>. QED
  BY <1>1, <1>2, PTL DEF Spec

\* In every state, an increment of the counter is lost only in a segment one of
\* whose processes opened a semaphore that was unlinked (mman_test.cpp:419-430, 452-468).
THEOREM CounterKeepsIncrements == Spec => []LostOnlyToOldSemaphore
<1>1. CounterInv => LostOnlyToOldSemaphore
  BY CounterKeepsCount, PermitsAreHeldOnce DEF LostOnlyToOldSemaphore
<1>. QED
  BY <1>1, CounterInvariant, PTL

-----------------------------------------------------------------------------
(* Semaphore programs (SemPrograms).                                       *)

\* How many threads of S are at one of the places, by f.
CountAt(S, f, places) == Cardinality({t \in S : f[t] \in places})
One(b) == IF b THEN 1 ELSE 0

\* The main thread: while it opens or unlinks no thread runs, and what it opens
\* is fresh, unless a run was killed; "stored" is the last name to go.
SemMain ==
  /\ buff \in [Sem!Slots -> 0 .. Sem!EndMark]
  /\ dirty # {} => test = "named" /\ "stored" \in dirty
  /\ stage = "open" =>
       /\ producer = [p \in Producers |-> "absent"] /\ consumer = "absent"
       /\ total_produced = 0 /\ total_consumed = 0 /\ index = 0
       /\ test = "named" => \A k \in 1 .. 3 : k < step => Sem!Order[k] \in left
  /\ stage # "open" \/ step > 1 => test # "none"
  /\ stage = "run" => step = 1 /\ (test = "named" => left = Sem!Names)
  /\ stage = "unlink" => test = "named" /\ step < 4 /\ left = {Sem!Order[k] : k \in step .. 3}
  /\ stage \in {"unlink", "done"} => Sem!ThreadsEnded
  /\ stage \in {"open", "unlink"} /\ dirty = {} => value = Sem!Fresh

\* Where the producers of each program are while they run, and what they know
\* there of the items made.
MakerLabels ==
  CASE test = "many" -> {"wait_empty", "wait_mutex", "put", "post_mutex", "post_stored",
                         "give_back", "leave", "done"}
    [] test = "double" -> {"wait_empty", "put", "post_stored", "post_mark", "done"}
    [] OTHER -> {"wait_empty", "wait_mutex", "put", "post_mutex", "post_stored", "done"}
MakersKnow ==
  /\ \A p \in Producers : producer[p] \in IF Sem!Creates(p) THEN MakerLabels ELSE {"absent"}
  /\ \A p \in Producers :
       producer[p] \in {"give_back", "leave", "post_mark", "done"} => total_produced = ItemsNum
  /\ test \in {"named", "unnamed"} /\ producer[First] \in {"wait_empty", "wait_mutex", "put"} =>
       total_produced < ItemsNum

\* The same of the consumer and its index.
TakerKnows ==
  /\ consumer # "absent"
  /\ test = "double" => consumer \notin {"wait_mutex", "post_mutex"}
  /\ test # "double" => IF consumer = "done" THEN index = ItemsNum ELSE index < ItemsNum
  /\ test = "many" => total_consumed = index + One(consumer \in {"post_mutex", "post_empty"})
  /\ test = "double" /\ consumer = "post_empty" => index < total_produced
  /\ test = "double" /\ consumer = "done" => producer[First] = "done" /\ index = ItemsNum

\* Every permit of the three semaphores is in its value or with a thread.  The
\* mark of "double" takes a slot and is an item of its own.
AtMutex == {"put", "post_mutex", "give_back", "leave"}
AtEmpty == {"wait_mutex", "put", "give_back"}
AtStored == {"post_mutex", "post_stored"}
Inside == {"take", "post_mutex"}
Serving == {"wait_mutex", "take", "post_mutex", "post_empty"}
Marking == test = "double" /\ producer[First] \in {"post_mark", "done"}
MutexBalance ==
  test # "double" =>
    value["mutex"] + CountAt(Producers, producer, AtMutex) + One(consumer \in Inside) = 1
EmptyBalance ==
  value["empty"] + total_produced + CountAt(Producers, producer, AtEmpty) + One(Marking) =
    BuffLen + index
StoredBalance ==
  value["stored"] + CountAt(Producers, producer, AtStored) + index
    + One(consumer \in Serving) + One(test = "double" /\ consumer = "done") =
      total_produced + One(test = "double" /\ producer[First] = "done")

\* The items not yet taken are in their slots, and so is the mark.
Window ==
  \A i \in Nat : index <= i /\ i < total_produced =>
    (i = index /\ consumer \in {"post_mutex", "post_empty"}) \/ buff[i % BuffLen] = i
Marked == Marking => buff[ItemsNum % BuffLen] = Sem!EndMark

SemBooks == MutexBalance /\ EmptyBalance /\ StoredBalance /\ Window /\ Marked

SemInv ==
  /\ Sem!TypeOK
  /\ SemMain
  /\ stage = "run" => MakersKnow /\ TakerKnows
  /\ stage = "run" /\ dirty = {} => SemBooks

\* A slot number is in range, and a number is its quotient and remainder.
LEMMA DivMod ==
    ASSUME NEW a \in Nat, NEW L \in Nat \ {0}
    PROVE  /\ a % L \in 0 .. L - 1
           /\ a \div L \in Int
           /\ a = (L * (a \div L)) + (a % L)
BY SMTT(30)

\* Two items of one window never share a slot.
LEMMA DistinctSlots ==
    ASSUME NEW a \in Nat, NEW b \in Nat, NEW L \in Nat \ {0}, a < b, b < a + L
    PROVE  a % L # b % L
<1>. DEFINE p == a \div L
            q == b \div L
<1>1. /\ a = (L * p) + (a % L)
      /\ b = (L * q) + (b % L)
      /\ p \in Int /\ q \in Int
      /\ a % L \in Int /\ b % L \in Int
  BY DivMod
<1>2. SUFFICES ASSUME a % L = b % L PROVE FALSE
  OBVIOUS
<1>. HIDE DEF p, q
<1>3. b - a = L * (q - p)
  BY <1>1, <1>2
<1>4. CASE q - p <= 0
  <2>1. L * (q - p) <= 0
    BY <1>1, <1>4, SMTT(30)
  <2>. QED
    BY <1>3, <2>1
<1>5. CASE q - p >= 1
  <2>1. L * (q - p) >= L
    BY <1>1, <1>5, SMTT(30)
  <2>. QED
    BY <1>3, <2>1
<1>. QED
  BY <1>1, <1>4, <1>5

\* A count is a number, and positive when somebody is there.
LEMMA CountAtType ==
    ASSUME NEW S, IsFiniteSet(S), NEW f, NEW places
    PROVE  /\ CountAt(S, f, places) \in Nat
           /\ \A t \in S : f[t] \in places => CountAt(S, f, places) > 0
<1>. DEFINE A == {t \in S : f[t] \in places}
<1>1. IsFiniteSet(A)
  BY FS_Subset
<1>2. Cardinality(A) \in Nat
  BY <1>1, FS_CardinalityType
<1>3. ASSUME NEW t \in S, f[t] \in places PROVE Cardinality(A) # 0
  BY <1>1, <1>3, FS_EmptySet
<1>. QED
  BY <1>2, <1>3 DEF CountAt

\* What the move of one thread does to a count.
LEMMA CountAtMove ==
    ASSUME NEW S, IsFiniteSet(S), NEW f, NEW g, NEW places, NEW t,
           \A s \in S \ {t} : g[s] = f[s]
    PROVE  CountAt(S, g, places) =
             CountAt(S, f, places)
               + (IF t \in S /\ g[t] \in places THEN 1 ELSE 0)
               - (IF t \in S /\ f[t] \in places THEN 1 ELSE 0)
<1>. DEFINE A == {s \in S : f[s] \in places}
            B == {s \in S : g[s] \in places}
            C == A \ {t}
            D == C \cup {t}
<1>1. IsFiniteSet(A) /\ Cardinality(A) \in Nat
  BY FS_Subset, FS_CardinalityType
<1>2. /\ IsFiniteSet(C)
      /\ Cardinality(C) = IF t \in A THEN Cardinality(A) - 1 ELSE Cardinality(A)
  BY <1>1, FS_RemoveElement
<1>3. Cardinality(C) \in Nat
  BY <1>2, FS_CardinalityType
<1>4. /\ CountAt(S, f, places) = Cardinality(A)
      /\ CountAt(S, g, places) = Cardinality(B)
      /\ t \in A <=> t \in S /\ f[t] \in places
  BY DEF CountAt
<1>5. B = IF t \in S /\ g[t] \in places THEN D ELSE C
  OBVIOUS
<1>6. Cardinality(D) = Cardinality(C) + 1
  <2>1. t \notin C
    OBVIOUS
  <2>. HIDE DEF C
  <2>. QED
    BY <1>2, <2>1, FS_AddElement
<1>. HIDE DEF A, B, C, D
<1>. QED
  BY <1>1, <1>2, <1>3, <1>4, <1>5, <1>6


\* A thread that can still go on runs, and a producer is at a label of its program.
LEMMA SemRunning ==
    ASSUME SemInv
    PROVE  /\ consumer \notin {"absent", "done"} => stage = "run"
           /\ \A p \in Producers : producer[p] \notin {"absent", "done"} =>
                stage = "run" /\ Sem!Creates(p) /\ producer[p] \in MakerLabels
<1>1. stage \in {"open", "run", "unlink", "done"}
  BY DEF SemInv, Sem!TypeOK
<1>2. stage = "open" => consumer = "absent" /\ \A p \in Producers : producer[p] = "absent"
  BY DEF SemInv, SemMain
<1>3. stage \in {"unlink", "done"} =>
        consumer = "done" /\ \A p \in Producers : producer[p] \in {"absent", "done"}
  BY DEF SemInv, SemMain, Sem!ThreadsEnded
<1>4. ASSUME NEW p \in Producers, producer[p] \notin {"absent", "done"}
      PROVE  stage = "run" /\ Sem!Creates(p) /\ producer[p] \in MakerLabels
  <2>1. stage = "run"
    BY <1>1, <1>2, <1>3, <1>4
  <2>2. producer[p] \in IF Sem!Creates(p) THEN MakerLabels ELSE {"absent"}
    BY <2>1 DEF SemInv, MakersKnow
  <2>. QED
    BY <1>4, <2>1, <2>2
<1>. QED
  BY <1>1, <1>2, <1>3, <1>4

\* The counts and the mark, when one producer goes from one label to another.
LEMMA ProducerMoved ==
    ASSUME SemInv, NEW p \in Producers, NEW a, NEW b, Sem!ProducerGoto(p, a, b),
           a \notin {"absent", "done"}, UNCHANGED test
    PROVE  /\ stage = "run" /\ Sem!Creates(p) /\ a \in MakerLabels
           /\ producer[p] = a /\ producer'[p] = b
           /\ \A q \in Producers : q # p => producer'[q] = producer[q]
           /\ test # "many" => p = First
           /\ \A places :
                /\ CountAt(Producers, producer, places) \in Nat
                /\ CountAt(Producers, producer', places) =
                     CountAt(Producers, producer, places) + One(b \in places) - One(a \in places)
<1>1. producer[p] = a /\ producer' = [producer EXCEPT ![p] = b]
  BY DEF Sem!ProducerGoto
<1>2. DOMAIN producer = Producers
  BY DEF SemInv, Sem!TypeOK
<1>3. producer'[p] = b /\ \A q \in Producers : q # p => producer'[q] = producer[q]
  BY <1>1, <1>2
<1>4. stage = "run" /\ Sem!Creates(p) /\ a \in MakerLabels
  BY <1>1, SemRunning
<1>5. test # "many" => p = First
  BY <1>4 DEF Sem!Creates
<1>6. IsFiniteSet(Producers)
  BY SemAssumption
<1>7. ASSUME NEW places
      PROVE  /\ CountAt(Producers, producer, places) \in Nat
             /\ CountAt(Producers, producer', places) =
                  CountAt(Producers, producer, places) + One(b \in places) - One(a \in places)
  <2>1. CountAt(Producers, producer, places) \in Nat
    BY <1>6, CountAtType
  <2>2. \A q \in Producers \ {p} : producer'[q] = producer[q]
    BY <1>3
  <2>3. CountAt(Producers, producer', places) =
          CountAt(Producers, producer, places)
            + (IF p \in Producers /\ producer'[p] \in places THEN 1 ELSE 0)
            - (IF p \in Producers /\ producer[p] \in places THEN 1 ELSE 0)
    BY <1>6, <2>2, CountAtMove
  <2>. QED
    BY <1>1, <1>3, <2>1, <2>3 DEF One
<1>. QED
  BY <1>1, <1>3, <1>4, <1>5, <1>7

\* A producer that goes from a to b neither makes nor loses a permit of its own,
\* and knows of the items what it must know there.
PermitsKept(a, b) ==
  /\ test # "double" =>
       value'["mutex"] + One(b \in AtMutex) = value["mutex"] + One(a \in AtMutex)
  /\ value'["empty"] + total_produced' + One(b \in AtEmpty)
       + One(test = "double" /\ b \in {"post_mark", "done"}) =
         value["empty"] + total_produced + One(a \in AtEmpty)
           + One(test = "double" /\ a = "post_mark")
  /\ value'["stored"] + One(b \in AtStored) + total_produced =
       value["stored"] + One(a \in AtStored) + total_produced'
         + One(test = "double" /\ b = "done")
KnowsAt(b) ==
  /\ b \in {"give_back", "leave", "post_mark", "done"} => total_produced' = ItemsNum
  /\ test \in {"named", "unnamed"} /\ b \in {"wait_empty", "wait_mutex", "put"} =>
       total_produced' < ItemsNum
Produces == total_produced' \in total_produced .. ItemsNum
SlotsTyped == buff' \in [Sem!Slots -> 0 .. Sem!EndMark]
PermitsTyped == value' \in [Sem!Names -> Nat]

\* Such a step preserves SemInv when it writes no slot that is in use.
LEMMA ProducerStep ==
    ASSUME SemInv, NEW p \in Producers, NEW a, NEW b, Sem!ProducerGoto(p, a, b),
           a \notin {"absent", "done"}, b \in MakerLabels,
           UNCHANGED <<test, left, dirty, stage, step, crashes, consumer, total_consumed, index>>,
           PermitsTyped, SlotsTyped, Produces,
           KnowsAt(b), PermitsKept(a, b), dirty = {} => Window' /\ Marked'
    PROVE  SemInv'
<1>1. /\ stage = "run" /\ Sem!Creates(p) /\ a \in MakerLabels
      /\ producer[p] = a /\ producer'[p] = b
      /\ \A q \in Producers : q # p => producer'[q] = producer[q]
      /\ test # "many" => p = First
  BY ProducerMoved
<1>2. /\ total_produced \in 0 .. ItemsNum /\ total_consumed \in 0 .. ItemsNum /\ index \in 0 .. ItemsNum
      /\ total_produced' \in 0 .. ItemsNum /\ ItemsNum \in Nat /\ BuffLen \in Nat
      /\ value["mutex"] \in Nat /\ value["empty"] \in Nat /\ value["stored"] \in Nat
      /\ value'["mutex"] \in Nat /\ value'["empty"] \in Nat /\ value'["stored"] \in Nat
  <2>1. {"mutex", "empty", "stored"} = Sem!Names
    BY DEF Sem!Names
  <2>2. value \in [Sem!Names -> Nat]
    BY DEF SemInv, Sem!TypeOK
  <2>6. value' \in [Sem!Names -> Nat]
    BY DEF PermitsTyped
  <2>3. total_produced \in 0 .. ItemsNum /\ total_consumed \in 0 .. ItemsNum /\ index \in 0 .. ItemsNum
    BY DEF SemInv, Sem!TypeOK
  <2>4. ItemsNum \in Nat /\ BuffLen \in Nat
    BY SemAssumption
  <2>5. total_produced' \in 0 .. ItemsNum
    BY <2>3, <2>4 DEF Produces
  <2>. QED
    BY <2>1, <2>2, <2>3, <2>4, <2>5, <2>6
<1>10. total_produced \in Nat /\ total_produced' \in Nat /\ index \in Nat /\ BuffLen + index \in Nat
  BY <1>2
<1>3. Sem!TypeOK'
  <2>1. producer' \in [Producers -> {"absent", "wait_empty", "wait_mutex", "put", "post_mutex",
                                     "post_stored", "post_mark", "give_back", "leave", "done"}]
    <3>1. producer \in [Producers -> {"absent", "wait_empty", "wait_mutex", "put", "post_mutex",
                                      "post_stored", "post_mark", "give_back", "leave", "done"}]
      BY DEF SemInv, Sem!TypeOK
    <3>2. b \in {"absent", "wait_empty", "wait_mutex", "put", "post_mutex",
                 "post_stored", "post_mark", "give_back", "leave", "done"}
      BY DEF MakerLabels
    <3>3. producer' = [producer EXCEPT ![p] = b]
      BY DEF Sem!ProducerGoto
    <3>. QED
      BY <3>1, <3>2, <3>3
  <2>2. (\A s \in Sem!Slots : buff'[s] \in 0 .. Sem!EndMark) /\ value' \in [Sem!Names -> Nat]
    BY DEF SlotsTyped, PermitsTyped
  <2>3. /\ test' \in Sem!Tests \cup {"none"} /\ left' \subseteq Sem!Names /\ dirty' \subseteq left'
        /\ stage' \in {"open", "run", "unlink", "done"} /\ step' \in 1 .. 4
        /\ consumer' \in {"absent", "wait_stored", "wait_mutex", "take", "post_mutex", "post_empty", "done"}
        /\ crashes' \in 0 .. MaxCrashes
    BY DEF SemInv, Sem!TypeOK
  <2>4. {total_produced', total_consumed', index'} \subseteq 0 .. ItemsNum
    BY <1>2
  <2>. QED
    BY <2>1, <2>2, <2>3, <2>4 DEF Sem!TypeOK
<1>4. SemMain'
  BY <1>1 DEF SemInv, SemMain, SlotsTyped
<1>5. MakersKnow /\ TakerKnows
  BY <1>1 DEF SemInv
<1>6. MakersKnow'
  <2>1. ASSUME NEW q \in Producers
        PROVE  producer'[q] \in IF Sem!Creates(q) THEN MakerLabels' ELSE {"absent"}
    <3>1. MakerLabels' = MakerLabels
      BY DEF MakerLabels
    <3>. QED
      BY <1>1, <1>5, <3>1 DEF MakersKnow
  <2>2. ASSUME NEW q \in Producers, producer'[q] \in {"give_back", "leave", "post_mark", "done"}
        PROVE  total_produced' = ItemsNum
    <3>1. CASE q = p
      BY <1>1, <2>2, <3>1 DEF KnowsAt
    <3>2. CASE q # p
      <4>1. total_produced = ItemsNum
        BY <1>1, <1>5, <2>2, <3>2 DEF MakersKnow
      <4>. QED
        BY <1>2, <4>1 DEF Produces
    <3>. QED
      BY <3>1, <3>2
  <2>3. ASSUME test \in {"named", "unnamed"}, producer'[First] \in {"wait_empty", "wait_mutex", "put"}
        PROVE  total_produced' < ItemsNum
    BY <1>1, <2>3 DEF KnowsAt
  <2>4. \A q \in Producers : Sem!Creates(q)' <=> Sem!Creates(q)
    BY DEF Sem!Creates
  <2>. QED
    BY <2>1, <2>2, <2>3, <2>4 DEF MakersKnow
<1>7. TakerKnows'
  <2>1. test = "double" /\ consumer = "done" => producer[First] = "done"
    BY <1>5 DEF TakerKnows
  <2>2. test = "double" /\ consumer = "done" => producer'[First] = "done"
    BY <1>1, <2>1
  <2>3. test = "double" /\ consumer = "post_empty" => index < total_produced'
    BY <1>2, <1>5 DEF TakerKnows, Produces
  <2>. QED
    BY <1>5, <2>2, <2>3 DEF TakerKnows
<1>8. ASSUME dirty = {} PROVE MutexBalance' /\ EmptyBalance' /\ StoredBalance'
  <2>1. MutexBalance /\ EmptyBalance /\ StoredBalance
    BY <1>1, <1>8 DEF SemInv, SemBooks
  <2>. DEFINE M == CountAt(Producers, producer, AtMutex)
              E == CountAt(Producers, producer, AtEmpty)
              S == CountAt(Producers, producer, AtStored)
              M2 == CountAt(Producers, producer', AtMutex)
              E2 == CountAt(Producers, producer', AtEmpty)
              S2 == CountAt(Producers, producer', AtStored)
  <2>2. /\ M \in Nat /\ M2 = M + One(b \in AtMutex) - One(a \in AtMutex)
        /\ E \in Nat /\ E2 = E + One(b \in AtEmpty) - One(a \in AtEmpty)
        /\ S \in Nat /\ S2 = S + One(b \in AtStored) - One(a \in AtStored)
    BY ProducerMoved
  <2>4. test = "double" => (Marking <=> a = "post_mark") /\ (Marking' <=> b \in {"post_mark", "done"})
    BY <1>1 DEF Marking
  <2>5. One(Marking) = One(test = "double" /\ a = "post_mark")
    BY <2>4 DEF One, Marking
  <2>6. One(Marking)' = One(test = "double" /\ b \in {"post_mark", "done"})
    BY <2>4 DEF One, Marking
  <2>7. One(test = "double" /\ producer[First] = "done") = 0
    BY <1>1 DEF One
  <2>8. One(test' = "double" /\ producer'[First] = "done") = One(test = "double" /\ b = "done")
    BY <1>1 DEF One
  <2>9. MutexBalance'
    <3>1. test # "double" => value["mutex"] + M + One(consumer \in Inside) = 1
      BY <2>1 DEF MutexBalance
    <3>2. test # "double" => value'["mutex"] + M2 + One(consumer \in Inside) = 1
      <4>. DEFINE oa == One(a \in AtMutex)
                  ob == One(b \in AtMutex)
                  c == One(consumer \in Inside)
                  v == value["mutex"]
                  w == value'["mutex"]
      <4>1. oa \in {0, 1} /\ ob \in {0, 1} /\ c \in {0, 1}
        BY DEF One
      <4>2. test # "double" => v + M + c = 1 /\ w + ob = v + oa
        BY <3>1 DEF PermitsKept
      <4>3. M \in Nat /\ M2 = M + ob - oa
        BY <2>2
      <4>4. v \in Nat /\ w \in Nat
        BY <1>2
      <4>. HIDE DEF M, M2, oa, ob, c, v, w
      <4>5. test # "double" => w + M2 + c = 1
        BY <4>1, <4>2, <4>3, <4>4
      <4>. QED
        BY <4>5 DEF c, w
    <3>. QED
      BY <3>2 DEF MutexBalance
  <2>10. EmptyBalance'
    <3>1. value["empty"] + total_produced + E + One(Marking) = BuffLen + index
      BY <2>1 DEF EmptyBalance
    <3>2. PICK t \in Nat, u \in Nat, z \in Nat, v \in Nat, w \in Nat, e \in Nat :
            /\ t = total_produced /\ u = total_produced' /\ z = BuffLen + index
            /\ v = value["empty"] /\ w = value'["empty"] /\ e = E
      BY <1>2, <1>10, <2>2
    <3>3. PICK oa \in Nat, ob \in Nat, ma \in Nat, mb \in Nat :
            /\ oa = One(a \in AtEmpty) /\ ob = One(b \in AtEmpty)
            /\ ma = One(test = "double" /\ a = "post_mark")
            /\ mb = One(test = "double" /\ b \in {"post_mark", "done"})
      BY DEF One
    <3>4. v + t + e + ma = z
      BY <2>5, <3>1, <3>2, <3>3
    <3>5. w + u + ob + mb = v + t + oa + ma
      BY <3>2, <3>3 DEF PermitsKept
    <3>6. w + u + (e + ob - oa) + mb = z
      BY <3>4, <3>5
    <3>7. E2 = e + ob - oa
      BY <2>2, <3>2, <3>3
    <3>8. value'["empty"] + total_produced' + E2 + One(Marking)' = BuffLen + index
      BY <2>6, <3>2, <3>3, <3>6, <3>7
    <3>. QED
      BY <3>8 DEF EmptyBalance
  <2>11. StoredBalance'
    <3>1. value["stored"] + S + index + One(consumer \in Serving)
            + One(test = "double" /\ consumer = "done") = total_produced + 0
      BY <2>1, <2>7 DEF StoredBalance
    <3>2. PICK t \in Nat, u \in Nat, i \in Nat, v \in Nat, w \in Nat, s \in Nat :
            /\ t = total_produced /\ u = total_produced' /\ i = index
            /\ v = value["stored"] /\ w = value'["stored"] /\ s = S
      BY <1>2, <1>10, <2>2
    <3>3. PICK oa \in Nat, ob \in Nat, c \in Nat, d \in Nat, f \in Nat :
            /\ oa = One(a \in AtStored) /\ ob = One(b \in AtStored)
            /\ c = One(consumer \in Serving) /\ d = One(test = "double" /\ consumer = "done")
            /\ f = One(test = "double" /\ b = "done")
      BY DEF One
    <3>4. v + s + i + c + d = t + 0
      BY <3>1, <3>2, <3>3
    <3>5. w + ob + t = v + oa + u + f
      BY <3>2, <3>3 DEF PermitsKept
    <3>6. w + (s + ob - oa) + i + c + d = u + f
      BY <3>4, <3>5
    <3>7. S2 = s + ob - oa
      BY <2>2, <3>2, <3>3
    <3>8. value'["stored"] + S2 + index + One(consumer \in Serving)
            + One(test = "double" /\ consumer = "done") =
              total_produced' + One(test = "double" /\ b = "done")
      BY <3>2, <3>3, <3>6, <3>7
    <3>. QED
      BY <2>8, <3>8 DEF StoredBalance
  <2>. QED
    BY <2>9, <2>10, <2>11
<1>9. stage' = "run" /\ dirty' = {} => SemBooks'
  BY <1>8 DEF SemBooks
<1>. QED
  BY <1>3, <1>4, <1>6, <1>7, <1>9 DEF SemInv

\* A step that changes no item and no slot keeps the items in their slots.
LEMMA WindowKept ==
    ASSUME Window, UNCHANGED <<total_produced, buff, index, consumer>>
    PROVE  Window'
BY DEF Window

\* The semaphore operations give permits and take them.
LEMMA PermitsMoved ==
    ASSUME SemInv, NEW n \in Sem!Names
    PROVE  /\ Sem!Wait(n) => /\ PermitsTyped /\ value[n] \in Nat /\ value[n] > 0
                             /\ value'[n] = value[n] - 1
                             /\ \A m \in Sem!Names : m # n => value'[m] = value[m]
           /\ Sem!Post(n) => /\ PermitsTyped /\ value[n] \in Nat
                             /\ value'[n] = value[n] + 1
                             /\ \A m \in Sem!Names : m # n => value'[m] = value[m]
<1>1. value \in [Sem!Names -> Nat]
  BY DEF SemInv, Sem!TypeOK
<1>2. value[n] \in Nat
  BY <1>1
<1>3. ASSUME Sem!Wait(n)
      PROVE  /\ value[n] > 0 /\ value' = [value EXCEPT ![n] = value[n] - 1] /\ value[n] - 1 \in Nat
  BY <1>2, <1>3 DEF Sem!Wait
<1>4. ASSUME Sem!Post(n)
      PROVE  value' = [value EXCEPT ![n] = value[n] + 1] /\ value[n] + 1 \in Nat
  BY <1>2, <1>4 DEF Sem!Post
<1>. QED
  BY <1>1, <1>2, <1>3, <1>4 DEF PermitsTyped

\* The names of the three semaphores.
LEMMA SemNames == {"mutex", "empty", "stored"} = Sem!Names
BY DEF Sem!Names

\* The facts about the items that the steps of a producer use.
LEMMA ItemsTyped ==
    ASSUME SemInv
    PROVE  /\ total_produced \in Nat /\ total_produced \in 0 .. ItemsNum /\ index \in 0 .. ItemsNum
           /\ ItemsNum \in Nat /\ ItemsNum > 0 /\ BuffLen \in Nat \ {0}
           /\ \A n \in Sem!Names : value[n] \in Nat
           /\ UNCHANGED buff => SlotsTyped
           /\ UNCHANGED value => PermitsTyped
           /\ UNCHANGED total_produced => Produces
           /\ test \in Sem!Tests \cup {"none"}
BY SemAssumption DEF SemInv, Sem!TypeOK, SemMain, SlotsTyped, PermitsTyped, Produces

\* A producer that takes a slot or the mutex.
LEMMA ProducerWaitsStep ==
    ASSUME SemInv, NEW p \in Producers, Sem!ProducerWaits(p)
    PROVE  SemInv'
<1>1. /\ UNCHANGED <<test, left, dirty, stage, step, crashes, consumer, buff,
                     total_produced, total_consumed, index>>
      /\ SlotsTyped /\ Produces
      /\ total_produced \in Nat /\ \A n \in Sem!Names : value[n] \in Nat
  BY ItemsTyped DEF Sem!ProducerWaits, Sem!mainVars
<1>2. ASSUME NEW a \in {"wait_empty", "wait_mutex"}, NEW b \in {"wait_mutex", "put"},
             Sem!ProducerGoto(p, a, b), PermitsTyped, b \in MakerLabels, PermitsKept(a, b)
      PROVE  SemInv'
  <2>1. /\ stage = "run" /\ producer[p] = a /\ producer'[p] = b
        /\ \A q \in Producers : q # p => producer'[q] = producer[q]
        /\ test # "many" => p = First
    BY <1>1, <1>2, ProducerMoved
  <2>2. KnowsAt(b)
    <3>1. MakersKnow
      BY <2>1 DEF SemInv
    <3>2. test \in {"named", "unnamed"} => producer[First] = a
      BY <2>1
    <3>. QED
      BY <1>1, <3>1, <3>2 DEF MakersKnow, KnowsAt
  <2>3. dirty = {} => Window' /\ Marked'
    <3>1. ASSUME dirty = {} PROVE Window /\ Marked
      BY <2>1, <3>1 DEF SemInv, SemBooks
    <3>2. ~Marking'
      BY <1>1, <2>1 DEF Marking
    <3>. QED
      BY <1>1, <3>1, <3>2, WindowKept DEF Marked
  <2>. QED
    BY <1>1, <1>2, <2>2, <2>3, ProducerStep
<1>3. CASE /\ Sem!Wait("empty")
           /\ Sem!ProducerGoto(p, "wait_empty", IF test = "double" THEN "put" ELSE "wait_mutex")
  <2>1. /\ PermitsTyped /\ value'["empty"] = value["empty"] - 1 /\ value["empty"] \in Nat
        /\ value'["mutex"] = value["mutex"] /\ value'["stored"] = value["stored"]
    BY <1>3, PermitsMoved, SemNames
  <2>2. CASE test = "double"
    <3>1. PermitsKept("wait_empty", "put")
      BY <1>1, <2>1, <2>2, SemNames DEF PermitsKept, One, AtMutex, AtEmpty, AtStored
    <3>2. "put" \in MakerLabels
      BY <2>2 DEF MakerLabels
    <3>. QED
      BY <1>2, <1>3, <2>1, <2>2, <3>1, <3>2
  <2>3. CASE test # "double"
    <3>1. PermitsKept("wait_empty", "wait_mutex")
      BY <1>1, <2>1, <2>3, SemNames DEF PermitsKept, One, AtMutex, AtEmpty, AtStored
    <3>2. "wait_mutex" \in MakerLabels
      BY <2>3 DEF MakerLabels
    <3>. QED
      BY <1>2, <1>3, <2>1, <2>3, <3>1, <3>2
  <2>. QED
    BY <2>2, <2>3
<1>4. CASE Sem!Wait("mutex") /\ Sem!ProducerGoto(p, "wait_mutex", "put")
  <2>1. /\ PermitsTyped /\ value'["mutex"] = value["mutex"] - 1 /\ value["mutex"] \in Nat
        /\ value'["empty"] = value["empty"] /\ value'["stored"] = value["stored"]
    BY <1>4, PermitsMoved, SemNames
  <2>2. PermitsKept("wait_mutex", "put")
    BY <1>1, <2>1, SemNames DEF PermitsKept, One, AtMutex, AtEmpty, AtStored
  <2>3. "wait_mutex" \in MakerLabels
    BY <1>1, <1>4, ProducerMoved
  <2>4. "put" \in MakerLabels
    BY DEF MakerLabels
  <2>. QED
    BY <1>2, <1>4, <2>1, <2>2, <2>4
<1>. QED
  BY <1>3, <1>4 DEF Sem!ProducerWaits

\* A producer that gives them back.
LEMMA ProducerPostsStep ==
    ASSUME SemInv, NEW p \in Producers, Sem!ProducerPosts(p)
    PROVE  SemInv'
<1>1. /\ UNCHANGED <<test, left, dirty, stage, step, crashes, consumer, buff,
                     total_produced, total_consumed, index>>
      /\ SlotsTyped /\ Produces
      /\ total_produced \in 0 .. ItemsNum /\ ItemsNum \in Nat
      /\ total_produced \in Nat /\ \A n \in Sem!Names : value[n] \in Nat
      /\ test \in Sem!Tests \cup {"none"}
  BY ItemsTyped DEF Sem!ProducerPosts, Sem!mainVars
<1>2. ASSUME NEW a \in {"post_mutex", "post_stored", "give_back", "leave", "post_mark"},
             NEW b \in {"post_stored", "wait_empty", "leave", "done"},
             Sem!ProducerGoto(p, a, b), PermitsTyped, b \in MakerLabels, PermitsKept(a, b),
             b \in {"leave", "done"} => total_produced = ItemsNum,
             test \in {"named", "unnamed"} /\ b = "wait_empty" => total_produced # ItemsNum,
             test = "double" /\ b = "done" => a = "post_mark"
      PROVE  SemInv'
  <2>1. /\ stage = "run" /\ producer[p] = a /\ producer'[p] = b
        /\ \A q \in Producers : q # p => producer'[q] = producer[q]
        /\ test # "many" => p = First
    BY <1>1, <1>2, ProducerMoved
  <2>2. KnowsAt(b)
    BY <1>1, <1>2 DEF KnowsAt
  <2>3. dirty = {} => Window' /\ Marked'
    <3>1. ASSUME dirty = {} PROVE Window /\ Marked
      BY <2>1, <3>1 DEF SemInv, SemBooks
    <3>2. Marking' => Marking
      BY <1>1, <1>2, <2>1 DEF Marking
    <3>. QED
      BY <1>1, <3>1, <3>2, WindowKept DEF Marked
  <2>. QED
    BY <1>1, <1>2, <2>2, <2>3, ProducerStep
<1>3. MakersKnow /\ producer[p] \in MakerLabels /\ (test # "many" => p = First)
  <2>1. producer[p] \notin {"absent", "done"}
    BY DEF Sem!ProducerPosts, Sem!ProducerGoto
  <2>2. stage = "run" /\ Sem!Creates(p) /\ producer[p] \in MakerLabels
    BY <2>1, SemRunning
  <2>. QED
    BY <2>2 DEF SemInv, Sem!Creates
<1>4. CASE Sem!ProducerGoto(p, "post_mutex", "post_stored") /\ Sem!Post("mutex")
  <2>1. /\ PermitsTyped /\ value'["mutex"] = value["mutex"] + 1 /\ value["mutex"] \in Nat
        /\ value'["empty"] = value["empty"] /\ value'["stored"] = value["stored"]
    BY <1>4, PermitsMoved, SemNames
  <2>2. PermitsKept("post_mutex", "post_stored")
    BY <1>1, <2>1, SemNames DEF PermitsKept, One, AtMutex, AtEmpty, AtStored
  <2>3. "post_stored" \in MakerLabels
    BY DEF MakerLabels
  <2>. QED
    BY <1>2, <1>4, <2>1, <2>2, <2>3
<1>5. CASE Sem!ProducerGoto(p, "post_stored", Sem!Again) /\ Sem!Post("stored")
  <2>1. /\ PermitsTyped /\ value'["stored"] = value["stored"] + 1 /\ value["stored"] \in Nat
        /\ value'["mutex"] = value["mutex"] /\ value'["empty"] = value["empty"]
    BY <1>5, PermitsMoved, SemNames
  <2>2. CASE test \in {"named", "unnamed"} /\ total_produced = ItemsNum
    <3>1. PermitsKept("post_stored", "done")
      BY <1>1, <2>1, <2>2, SemNames DEF PermitsKept, One, AtMutex, AtEmpty, AtStored
    <3>2. "done" \in MakerLabels /\ Sem!Again = "done"
      BY <2>2 DEF MakerLabels, Sem!Again
    <3>. QED
      BY <1>2, <1>5, <2>1, <2>2, <3>1, <3>2
  <2>3. CASE ~(test \in {"named", "unnamed"} /\ total_produced = ItemsNum)
    <3>1. PermitsKept("post_stored", "wait_empty")
      BY <1>1, <2>1, SemNames DEF PermitsKept, One, AtMutex, AtEmpty, AtStored
    <3>2. "wait_empty" \in MakerLabels /\ Sem!Again = "wait_empty"
      BY <2>3 DEF MakerLabels, Sem!Again
    <3>. QED
      BY <1>2, <1>5, <2>1, <2>3, <3>1, <3>2
  <2>. QED
    BY <2>2, <2>3
<1>6. CASE Sem!ProducerGoto(p, "give_back", "leave") /\ Sem!Post("empty")
  <2>1. /\ PermitsTyped /\ value'["empty"] = value["empty"] + 1 /\ value["empty"] \in Nat
        /\ value'["mutex"] = value["mutex"] /\ value'["stored"] = value["stored"]
    BY <1>6, PermitsMoved, SemNames
  <2>2. PermitsKept("give_back", "leave")
    BY <1>1, <2>1, SemNames DEF PermitsKept, One, AtMutex, AtEmpty, AtStored
  <2>3. producer[p] = "give_back"
    BY <1>6 DEF Sem!ProducerGoto
  <2>4. "leave" \in MakerLabels /\ total_produced = ItemsNum
    BY <1>3, <2>3 DEF MakerLabels, MakersKnow
  <2>. QED
    BY <1>2, <1>6, <2>1, <2>2, <2>4
<1>7. CASE Sem!ProducerGoto(p, "leave", "done") /\ Sem!Post("mutex")
  <2>1. /\ PermitsTyped /\ value'["mutex"] = value["mutex"] + 1 /\ value["mutex"] \in Nat
        /\ value'["empty"] = value["empty"] /\ value'["stored"] = value["stored"]
    BY <1>7, PermitsMoved, SemNames
  <2>3. producer[p] = "leave"
    BY <1>7 DEF Sem!ProducerGoto
  <2>4. "done" \in MakerLabels /\ total_produced = ItemsNum /\ test = "many"
    BY <1>3, <2>3 DEF MakerLabels, MakersKnow
  <2>2. PermitsKept("leave", "done")
    BY <1>1, <2>1, <2>4, SemNames DEF PermitsKept, One, AtMutex, AtEmpty, AtStored
  <2>. QED
    BY <1>2, <1>7, <2>1, <2>2, <2>4
<1>8. CASE Sem!ProducerGoto(p, "post_mark", "done") /\ Sem!Post("stored")
  <2>1. /\ PermitsTyped /\ value'["stored"] = value["stored"] + 1 /\ value["stored"] \in Nat
        /\ value'["mutex"] = value["mutex"] /\ value'["empty"] = value["empty"]
    BY <1>8, PermitsMoved, SemNames
  <2>3. producer[p] = "post_mark"
    BY <1>8 DEF Sem!ProducerGoto
  <2>4. "done" \in MakerLabels /\ total_produced = ItemsNum /\ test = "double"
    BY <1>3, <2>3 DEF MakerLabels, MakersKnow
  <2>2. PermitsKept("post_mark", "done")
    BY <1>1, <2>1, <2>4, SemNames DEF PermitsKept, One, AtMutex, AtEmpty, AtStored
  <2>. QED
    BY <1>2, <1>8, <2>1, <2>2, <2>4
<1>. QED
  BY <1>4, <1>5, <1>6, <1>7, <1>8 DEF Sem!ProducerPosts

\* A producer that is about to fill a slot has reserved it.
LEMMA RoomToPut ==
    ASSUME SemInv, NEW p \in Producers, producer[p] = "put", dirty = {}
    PROVE  total_produced < index + BuffLen
<1>1. stage = "run"
  BY SemRunning
<1>2. value["empty"] + total_produced + CountAt(Producers, producer, AtEmpty) + One(Marking) =
        BuffLen + index
  BY <1>1 DEF SemInv, SemBooks, EmptyBalance
<1>3. PICK e \in Nat : e = CountAt(Producers, producer, AtEmpty) /\ e > 0
  BY SemAssumption, CountAtType DEF AtEmpty
<1>4. PICK t \in Nat, i \in Nat, l \in Nat, v \in Nat, m \in Nat :
        t = total_produced /\ i = index /\ l = BuffLen /\ v = value["empty"] /\ m = One(Marking)
  <2>1. total_produced \in Nat /\ index \in Nat /\ BuffLen \in Nat /\ value["empty"] \in Nat
    BY ItemsTyped, SemNames
  <2>. QED
    BY <2>1 DEF One
<1>5. v + t + e + m = l + i
  BY <1>2, <1>3, <1>4
<1>6. t < i + l
  BY <1>3, <1>5
<1>. QED
  BY <1>4, <1>6

\* What it writes there keeps the items that were not taken yet.
LEMMA WindowPut ==
    ASSUME SemInv, Window, NEW x, buff' = [buff EXCEPT ![Sem!Position] = x],
           total_produced < index + BuffLen, UNCHANGED <<index, consumer>>,
           \/ UNCHANGED total_produced
           \/ total_produced' = total_produced + 1 /\ x = total_produced
    PROVE  Window' /\ buff'[Sem!Position] = x
<1>1. /\ total_produced \in Nat /\ index \in Nat /\ BuffLen \in Nat \ {0}
      /\ buff \in [Sem!Slots -> 0 .. Sem!EndMark]
  BY ItemsTyped DEF SemInv, SemMain
<1>2. Sem!Position \in Sem!Slots
  BY <1>1, DivMod DEF Sem!Position, Sem!Slots
<1>3. buff'[Sem!Position] = x
  BY <1>1, <1>2
<1>4. ASSUME NEW i \in Nat, index <= i, i < total_produced'
      PROVE  (i = index /\ consumer \in {"post_mutex", "post_empty"}) \/ buff'[i % BuffLen] = i
  <2>1. CASE i < total_produced
    <3>1. total_produced < i + BuffLen
      BY <1>1, <1>4
    <3>2. i % BuffLen # Sem!Position
      BY <1>1, <2>1, <3>1, DistinctSlots DEF Sem!Position
    <3>3. i % BuffLen \in Sem!Slots
      BY <1>1, DivMod DEF Sem!Slots
    <3>4. buff'[i % BuffLen] = buff[i % BuffLen]
      BY <1>1, <3>2, <3>3
    <3>. QED
      BY <1>4, <2>1, <3>4 DEF Window
  <2>2. CASE ~(i < total_produced)
    <3>1. i = total_produced /\ x = total_produced
      BY <1>1, <1>4, <2>2
    <3>. QED
      BY <1>3, <3>1 DEF Sem!Position
  <2>. QED
    BY <2>1, <2>2
<1>. QED
  BY <1>3, <1>4 DEF Window

\* A producer that fills a slot, or finds all items made.
LEMMA ProducerPutsStep ==
    ASSUME SemInv, NEW p \in Producers, Sem!ProducerPuts(p)
    PROVE  SemInv'
<1>1. /\ UNCHANGED <<test, left, dirty, stage, step, crashes, value, consumer,
                     total_consumed, index>>
      /\ PermitsTyped
      /\ total_produced \in 0 .. ItemsNum /\ ItemsNum \in Nat /\ total_produced \in Nat
      /\ \A n \in Sem!Names : value[n] \in Nat
      /\ test \in Sem!Tests \cup {"none"}
  BY ItemsTyped DEF Sem!ProducerPuts, Sem!mainVars
<1>2. producer[p] = "put"
  BY DEF Sem!ProducerPuts, Sem!ProducerGoto
<1>3. MakersKnow /\ Sem!Creates(p) /\ (test # "many" => p = First)
      /\ test \in Sem!Tests /\ stage = "run" /\ (dirty = {} => SemBooks)
  <2>1. stage = "run" /\ Sem!Creates(p)
    BY <1>2, SemRunning
  <2>2. test # "none"
    BY <2>1 DEF SemInv, SemMain
  <2>. QED
    BY <1>1, <2>1, <2>2 DEF SemInv, Sem!Creates
<1>4. buff \in [Sem!Slots -> 0 .. Sem!EndMark] /\ Sem!EndMark = ItemsNum + 2
  BY DEF SemInv, SemMain, Sem!EndMark
<1>5. CASE total_produced < ItemsNum
  <2>1. /\ Sem!ProducerGoto(p, "put", IF test = "double" THEN "post_stored" ELSE "post_mutex")
        /\ buff' = [buff EXCEPT ![Sem!Position] = total_produced]
        /\ total_produced' = total_produced + 1
    BY <1>5 DEF Sem!ProducerPuts
  <2>2. Produces
    BY <1>1, <1>5, <2>1 DEF Produces
  <2>3. SlotsTyped
    <3>1. total_produced \in 0 .. Sem!EndMark
      BY <1>1, <1>4
    <3>. QED
      BY <1>4, <2>1, <3>1 DEF SlotsTyped
  <2>4. dirty = {} => Window'
    BY <1>1, <1>2, <1>3, <2>1, RoomToPut, WindowPut DEF SemBooks
  <2>5. ASSUME NEW b \in {"post_stored", "post_mutex"}, Sem!ProducerGoto(p, "put", b),
               b \in MakerLabels, PermitsKept("put", b)
        PROVE  SemInv'
    <3>1. producer'[p] = b
      BY <1>1, <2>5, ProducerMoved
    <3>2. Marked'
      BY <1>1, <1>3, <3>1 DEF Marked, Marking
    <3>3. KnowsAt(b)
      BY DEF KnowsAt
    <3>. QED
      BY <1>1, <2>2, <2>3, <2>4, <2>5, <3>2, <3>3, ProducerStep
  <2>6. CASE test = "double"
    <3>1. PermitsKept("put", "post_stored")
      BY <1>1, <2>1, <2>6, SemNames DEF PermitsKept, One, AtMutex, AtEmpty, AtStored
    <3>2. "post_stored" \in MakerLabels
      BY DEF MakerLabels
    <3>. QED
      BY <2>1, <2>5, <2>6, <3>1, <3>2
  <2>7. CASE test # "double"
    <3>1. PermitsKept("put", "post_mutex")
      BY <1>1, <2>1, <2>7, SemNames DEF PermitsKept, One, AtMutex, AtEmpty, AtStored
    <3>2. "post_mutex" \in MakerLabels
      BY <2>7 DEF MakerLabels
    <3>. QED
      BY <2>1, <2>5, <2>7, <3>1, <3>2
  <2>. QED
    BY <2>6, <2>7
<1>6. CASE ~(total_produced < ItemsNum)
  <2>1. /\ Sem!ProducerGoto(p, "put", IF test = "double" THEN "post_mark" ELSE "give_back")
        /\ buff' = IF test = "double" THEN [buff EXCEPT ![Sem!Position] = Sem!EndMark] ELSE buff
        /\ total_produced' = total_produced
    BY <1>6 DEF Sem!ProducerPuts
  <2>2. total_produced = ItemsNum /\ Produces
    BY <1>1, <1>6, <2>1 DEF Produces
  <2>3. test \in {"many", "double"}
    BY <1>2, <1>3, <1>6 DEF MakersKnow, Sem!Tests
  <2>4. ASSUME NEW b \in {"post_mark", "give_back"}, Sem!ProducerGoto(p, "put", b),
               b \in MakerLabels, PermitsKept("put", b), SlotsTyped, dirty = {} => Window' /\ Marked'
        PROVE  SemInv'
    <3>1. KnowsAt(b)
      BY <2>1, <2>2 DEF KnowsAt
    <3>. QED
      BY <1>1, <2>2, <2>4, <3>1, ProducerStep
  <2>5. CASE test = "double"
    <3>1. PermitsKept("put", "post_mark")
      BY <1>1, <2>1, <2>5, SemNames DEF PermitsKept, One, AtMutex, AtEmpty, AtStored
    <3>2. "post_mark" \in MakerLabels
      BY <2>5 DEF MakerLabels
    <3>3. buff' = [buff EXCEPT ![Sem!Position] = Sem!EndMark] /\ Sem!EndMark \in 0 .. Sem!EndMark
      BY <1>1, <1>4, <2>1, <2>5
    <3>4. SlotsTyped
      BY <1>4, <3>3 DEF SlotsTyped
    <3>5. dirty = {} => Window' /\ buff'[Sem!Position] = Sem!EndMark
      BY <1>1, <1>2, <1>3, <2>1, <3>3, RoomToPut, WindowPut DEF SemBooks
    <3>6. dirty = {} => Marked'
      BY <2>2, <3>5 DEF Marked, Sem!Position, Sem!EndMark
    <3>. QED
      BY <2>1, <2>4, <2>5, <3>1, <3>2, <3>4, <3>5, <3>6
  <2>6. CASE test = "many"
    <3>1. PermitsKept("put", "give_back")
      BY <1>1, <2>1, <2>6, SemNames DEF PermitsKept, One, AtMutex, AtEmpty, AtStored
    <3>2. "give_back" \in MakerLabels
      BY <2>6 DEF MakerLabels
    <3>3. buff' = buff
      BY <2>1, <2>6
    <3>4. SlotsTyped /\ ~Marking'
      BY <1>1, <1>4, <2>6, <3>3 DEF SlotsTyped, Marking
    <3>5. dirty = {} => Window' /\ Marked'
      BY <1>1, <1>3, <2>1, <3>3, <3>4, WindowKept DEF SemBooks, Marked
    <3>. QED
      BY <2>1, <2>4, <2>6, <3>1, <3>2, <3>4, <3>5
  <2>. QED
    BY <2>3, <2>5, <2>6
<1>. QED
  BY <1>5, <1>6

\* A consumer that goes from a to b neither makes nor loses a permit of its own.
TakerKeeps(a, b) ==
  /\ test # "double" =>
       value'["mutex"] + One(b \in Inside) = value["mutex"] + One(a \in Inside)
  /\ value'["empty"] + index = value["empty"] + index'
  /\ value'["stored"] + index' + One(b \in Serving) + One(test = "double" /\ b = "done") =
       value["stored"] + index + One(a \in Serving)
Consumes == index' \in index .. ItemsNum /\ total_consumed' \in 0 .. ItemsNum
TakerLabels == {"wait_stored", "wait_mutex", "take", "post_mutex", "post_empty", "done"}

\* Such a step of the consumer preserves SemInv when no item is lost.
LEMMA ConsumerStep ==
    ASSUME SemInv, NEW a, NEW b \in TakerLabels, Sem!ConsumerGoto(a, b), a \notin {"absent", "done"},
           UNCHANGED <<test, left, dirty, stage, step, crashes, producer, total_produced>>,
           PermitsTyped, SlotsTyped, Consumes, TakerKnows', TakerKeeps(a, b),
           dirty = {} => Window' /\ Marked'
    PROVE  SemInv'
<1>1. stage = "run" /\ consumer = a /\ consumer' = b
  BY SemRunning DEF Sem!ConsumerGoto
<1>2. /\ total_produced \in Nat /\ index \in Nat /\ index' \in Nat /\ BuffLen \in Nat
      /\ value["mutex"] \in Nat /\ value["empty"] \in Nat /\ value["stored"] \in Nat
      /\ value'["mutex"] \in Nat /\ value'["empty"] \in Nat /\ value'["stored"] \in Nat
  BY ItemsTyped, SemNames DEF PermitsTyped, Consumes
<1>3. Sem!TypeOK'
  <2>1. /\ (\A s \in Sem!Slots : buff'[s] \in 0 .. Sem!EndMark) /\ value' \in [Sem!Names -> Nat]
    BY DEF SlotsTyped, PermitsTyped
  <2>2. consumer' \in {"absent", "wait_stored", "wait_mutex", "take", "post_mutex", "post_empty", "done"}
    BY <1>1 DEF TakerLabels
  <2>3. /\ test' \in Sem!Tests \cup {"none"} /\ left' \subseteq Sem!Names /\ dirty' \subseteq left'
        /\ stage' \in {"open", "run", "unlink", "done"} /\ step' \in 1 .. 4
        /\ producer' \in [Producers -> {"absent", "wait_empty", "wait_mutex", "put", "post_mutex",
                                        "post_stored", "post_mark", "give_back", "leave", "done"}]
        /\ crashes' \in 0 .. MaxCrashes
    BY DEF SemInv, Sem!TypeOK
  <2>4. {total_produced', total_consumed', index'} \subseteq 0 .. ItemsNum
    <3>1. total_produced' \in 0 .. ItemsNum /\ total_consumed' \in 0 .. ItemsNum
      BY ItemsTyped DEF Consumes
    <3>2. index' \in 0 .. ItemsNum
      BY ItemsTyped DEF Consumes
    <3>. QED
      BY <3>1, <3>2
  <2>. QED
    BY <2>1, <2>2, <2>3, <2>4 DEF Sem!TypeOK
<1>4. SemMain'
  BY <1>1 DEF SemInv, SemMain, SlotsTyped
<1>5. MakersKnow'
  <2>1. MakersKnow
    BY <1>1 DEF SemInv
  <2>. QED
    BY <2>1 DEF MakersKnow, MakerLabels, Sem!Creates
<1>6. ASSUME dirty = {} PROVE MutexBalance' /\ EmptyBalance' /\ StoredBalance'
  <2>1. MutexBalance /\ EmptyBalance /\ StoredBalance
    BY <1>1, <1>6 DEF SemInv, SemBooks
  <2>2. \A places : CountAt(Producers, producer, places) \in Nat
    BY SemAssumption, CountAtType
  <2>3. PICK m \in Nat, e \in Nat, s \in Nat, t \in Nat, i \in Nat, j \in Nat, l \in Nat :
          /\ m = CountAt(Producers, producer, AtMutex) /\ e = CountAt(Producers, producer, AtEmpty)
          /\ s = CountAt(Producers, producer, AtStored)
          /\ t = total_produced /\ i = index /\ j = index' /\ l = BuffLen
    BY <1>2, <2>2
  <2>4. /\ CountAt(Producers, producer', AtMutex) = m /\ CountAt(Producers, producer', AtEmpty) = e
        /\ CountAt(Producers, producer', AtStored) = s
    BY <2>3
  <2>5. PICK vm \in Nat, ve \in Nat, vs \in Nat, wm \in Nat, we \in Nat, ws \in Nat :
          /\ vm = value["mutex"] /\ ve = value["empty"] /\ vs = value["stored"]
          /\ wm = value'["mutex"] /\ we = value'["empty"] /\ ws = value'["stored"]
    BY <1>2
  <2>6. PICK ia \in Nat, ib \in Nat, sa \in Nat, sb \in Nat, d \in Nat, k \in Nat, r \in Nat :
          /\ ia = One(a \in Inside) /\ ib = One(b \in Inside)
          /\ sa = One(a \in Serving) /\ sb = One(b \in Serving)
          /\ d = One(test = "double" /\ b = "done")
          /\ k = One(Marking) /\ r = One(test = "double" /\ producer[First] = "done")
    BY DEF One
  <2>7. One(test = "double" /\ consumer = "done") = 0
    BY <1>1 DEF One
  <2>8. /\ One(consumer \in Inside) = ia /\ One(consumer' \in Inside) = ib
        /\ One(consumer \in Serving) = sa /\ One(consumer' \in Serving) = sb
        /\ One(test' = "double" /\ consumer' = "done") = d
        /\ One(Marking)' = k /\ One(test' = "double" /\ producer'[First] = "done") = r
    BY <1>1, <2>6 DEF Marking
  <2>9. /\ test # "double" => vm + m + ia = 1 /\ wm + ib = vm + ia
        /\ ve + t + e + k = l + i /\ we + i = ve + j
        /\ vs + s + i + sa + 0 = t + r /\ ws + j + sb + d = vs + i + sa
    BY <2>1, <2>3, <2>5, <2>6, <2>7, <2>8
       DEF MutexBalance, EmptyBalance, StoredBalance, TakerKeeps
  <2>10. /\ test # "double" => wm + m + ib = 1
         /\ we + t + e + k = l + j
         /\ ws + s + j + sb + d = t + r
    BY <2>9
  <2>. QED
    BY <2>3, <2>4, <2>5, <2>8, <2>10 DEF MutexBalance, EmptyBalance, StoredBalance
<1>7. stage' = "run" /\ dirty' = {} => SemBooks'
  BY <1>6 DEF SemBooks
<1>. QED
  BY <1>3, <1>4, <1>5, <1>7 DEF SemInv

\* What the consumer sees when it takes: the next item, or the mark after the
\* last one; it is never more than the whole buffer behind.
LEMMA TakerSees ==
    ASSUME SemInv, stage = "run", dirty = {}
    PROVE  /\ total_produced <= index + BuffLen
           /\ consumer = "take" =>
                \/ index < total_produced /\ buff[index % BuffLen] = index
                \/ /\ test = "double" /\ producer[First] = "done" /\ index = ItemsNum
                   /\ total_produced = ItemsNum /\ buff[index % BuffLen] = Sem!EndMark
<1>1. SemBooks /\ MakersKnow
  BY DEF SemInv
<1>2. PICK t \in Nat, i \in Nat, l \in Nat, e \in Nat, s \in Nat, ve \in Nat, vs \in Nat :
        /\ t = total_produced /\ i = index /\ l = BuffLen
        /\ e = CountAt(Producers, producer, AtEmpty) /\ s = CountAt(Producers, producer, AtStored)
        /\ ve = value["empty"] /\ vs = value["stored"]
  <2>1. /\ total_produced \in Nat /\ index \in Nat /\ BuffLen \in Nat
        /\ value["empty"] \in Nat /\ value["stored"] \in Nat
    BY ItemsTyped, SemNames
  <2>2. \A places : CountAt(Producers, producer, places) \in Nat
    BY SemAssumption, CountAtType
  <2>. QED
    BY <2>1, <2>2
<1>3. PICK k \in Nat, c \in Nat, d \in Nat, r \in Nat :
        /\ k = One(Marking) /\ c = One(consumer \in Serving)
        /\ d = One(test = "double" /\ consumer = "done")
        /\ r = One(test = "double" /\ producer[First] = "done")
  BY DEF One
<1>4. ve + t + e + k = l + i /\ vs + s + i + c + d = t + r
  BY <1>1, <1>2, <1>3 DEF SemBooks, EmptyBalance, StoredBalance
<1>5. t <= i + l
  BY <1>4
<1>6. ASSUME consumer = "take"
      PROVE  \/ index < total_produced /\ buff[index % BuffLen] = index
             \/ /\ test = "double" /\ producer[First] = "done" /\ index = ItemsNum
                /\ total_produced = ItemsNum /\ buff[index % BuffLen] = Sem!EndMark
  <2>1. c = 1
    BY <1>3, <1>6 DEF One, Serving
  <2>2. i + 1 <= t + r
    BY <1>4, <2>1
  <2>3. CASE i < t
    <3>1. index \in Nat /\ index <= index /\ index < total_produced
      BY <1>2, <2>3
    <3>. QED
      BY <1>1, <1>6, <3>1 DEF SemBooks, Window
  <2>4. CASE ~(i < t)
    <3>1. r # 0
      BY <2>2, <2>4
    <3>2. test = "double" /\ producer[First] = "done" /\ r = 1
      BY <1>3, <3>1 DEF One
    <3>3. i = t
      BY <2>2, <2>4, <3>2
    <3>4. total_produced = ItemsNum
      BY <1>1, <3>2, SemAssumption DEF MakersKnow
    <3>5. buff[ItemsNum % BuffLen] = Sem!EndMark
      BY <1>1, <3>2 DEF SemBooks, Marked, Marking
    <3>. QED
      BY <1>2, <3>2, <3>3, <3>4, <3>5
  <2>. QED
    BY <2>3, <2>4
<1>. QED
  BY <1>2, <1>5, <1>6

\* The consumer takes a permit.
LEMMA ConsumerWaitsStep == ASSUME SemInv, Sem!ConsumerWaits PROVE SemInv'
<1>1. /\ UNCHANGED <<test, left, dirty, stage, step, crashes, producer, buff,
                     total_produced, total_consumed, index>>
      /\ SlotsTyped /\ \A n \in Sem!Names : value[n] \in Nat
  BY ItemsTyped DEF Sem!ConsumerWaits, Sem!mainVars
<1>2. index \in Nat /\ Consumes
  BY <1>1, ItemsTyped DEF Consumes, SemInv, Sem!TypeOK
<1>3. ASSUME NEW a \in {"wait_stored", "wait_mutex"}, NEW b \in {"wait_mutex", "take"},
             Sem!ConsumerGoto(a, b), PermitsTyped, TakerKeeps(a, b),
             test = "double" => b = "take"
      PROVE  SemInv'
  <2>1. stage = "run" /\ consumer = a /\ consumer' = b
    BY <1>3, SemRunning DEF Sem!ConsumerGoto
  <2>2. TakerKnows'
    <3>1. TakerKnows
      BY <2>1 DEF SemInv
    <3>2. One(consumer \in {"post_mutex", "post_empty"}) = One(consumer' \in {"post_mutex", "post_empty"})
      BY <2>1 DEF One
    <3>. QED
      BY <1>1, <1>3, <2>1, <3>1, <3>2 DEF TakerKnows
  <2>3. dirty = {} => Window' /\ Marked'
    <3>1. ASSUME dirty = {} PROVE Window /\ Marked
      BY <2>1, <3>1 DEF SemInv, SemBooks
    <3>. QED
      BY <1>1, <2>1, <3>1 DEF Window, Marked, Marking
  <2>4. b \in TakerLabels
    BY DEF TakerLabels
  <2>. QED
    BY <1>1, <1>2, <1>3, <2>2, <2>3, <2>4, ConsumerStep
<1>4. CASE /\ Sem!ConsumerGoto("wait_stored", IF test = "double" THEN "take" ELSE "wait_mutex")
           /\ Sem!Wait("stored")
  <2>1. /\ PermitsTyped /\ value'["stored"] = value["stored"] - 1 /\ value["stored"] \in Nat
        /\ value'["mutex"] = value["mutex"] /\ value'["empty"] = value["empty"]
    BY <1>4, PermitsMoved, SemNames
  <2>2. CASE test = "double"
    <3>1. TakerKeeps("wait_stored", "take")
      BY <1>1, <1>2, <2>1, <2>2, SemNames DEF TakerKeeps, One, Inside, Serving
    <3>. QED
      BY <1>3, <1>4, <2>1, <2>2, <3>1
  <2>3. CASE test # "double"
    <3>1. TakerKeeps("wait_stored", "wait_mutex")
      BY <1>1, <1>2, <2>1, <2>3, SemNames DEF TakerKeeps, One, Inside, Serving
    <3>. QED
      BY <1>3, <1>4, <2>1, <2>3, <3>1
  <2>. QED
    BY <2>2, <2>3
<1>5. CASE Sem!ConsumerGoto("wait_mutex", "take") /\ Sem!Wait("mutex")
  <2>1. /\ PermitsTyped /\ value'["mutex"] = value["mutex"] - 1 /\ value["mutex"] \in Nat
        /\ value'["empty"] = value["empty"] /\ value'["stored"] = value["stored"]
    BY <1>5, PermitsMoved, SemNames
  <2>2. TakerKeeps("wait_mutex", "take")
    BY <1>1, <1>2, <2>1, SemNames DEF TakerKeeps, One, Inside, Serving
  <2>. QED
    BY <1>3, <1>5, <2>1, <2>2
<1>. QED
  BY <1>4, <1>5 DEF Sem!ConsumerWaits

\* It gives them back.
LEMMA ConsumerPostsStep == ASSUME SemInv, Sem!ConsumerPosts PROVE SemInv'
<1>1. /\ UNCHANGED <<test, left, dirty, stage, step, crashes, producer, buff,
                     total_produced, total_consumed>>
      /\ SlotsTyped /\ \A n \in Sem!Names : value[n] \in Nat
  BY ItemsTyped DEF Sem!ConsumerPosts, Sem!mainVars
<1>2. /\ index \in Nat /\ index \in 0 .. ItemsNum /\ ItemsNum \in Nat
      /\ total_consumed \in 0 .. ItemsNum /\ total_produced \in 0 .. ItemsNum
  BY ItemsTyped DEF SemInv, Sem!TypeOK
<1>3. consumer \in {"post_mutex", "post_empty"}
  BY DEF Sem!ConsumerPosts, Sem!ConsumerGoto
<1>4. stage = "run" /\ TakerKnows
  BY <1>3, SemRunning DEF SemInv
<1>5. dirty = {} => Window /\ Marked
  BY <1>4 DEF SemInv, SemBooks
<1>6. CASE Sem!ConsumerGoto("post_mutex", "post_empty") /\ Sem!Post("mutex") /\ UNCHANGED index
  <2>1. /\ PermitsTyped /\ value'["mutex"] = value["mutex"] + 1 /\ value["mutex"] \in Nat
        /\ value'["empty"] = value["empty"] /\ value'["stored"] = value["stored"]
    BY <1>6, PermitsMoved, SemNames
  <2>2. TakerKeeps("post_mutex", "post_empty")
    BY <1>1, <1>2, <1>6, <2>1, SemNames DEF TakerKeeps, One, Inside, Serving
  <2>3. consumer = "post_mutex" /\ consumer' = "post_empty"
    BY <1>6 DEF Sem!ConsumerGoto
  <2>4. TakerKnows'
    <3>1. One(consumer \in {"post_mutex", "post_empty"}) = One(consumer' \in {"post_mutex", "post_empty"})
      BY <2>3 DEF One
    <3>. QED
      BY <1>1, <1>4, <1>6, <2>3, <3>1 DEF TakerKnows
  <2>5. Consumes
    BY <1>1, <1>2, <1>6 DEF Consumes
  <2>6. dirty = {} => Window' /\ Marked'
    BY <1>1, <1>5, <1>6, <2>3 DEF Window, Marked, Marking
  <2>7. "post_empty" \in TakerLabels
    BY DEF TakerLabels
  <2>. QED
    BY <1>1, <1>6, <2>1, <2>2, <2>4, <2>5, <2>6, <2>7, ConsumerStep
<1>7. CASE /\ Sem!ConsumerGoto("post_empty", IF Sem!LastRound THEN "done" ELSE "wait_stored")
           /\ Sem!Post("empty") /\ index' = index + 1
  <2>1. /\ PermitsTyped /\ value'["empty"] = value["empty"] + 1 /\ value["empty"] \in Nat
        /\ value'["mutex"] = value["mutex"] /\ value'["stored"] = value["stored"]
    BY <1>7, PermitsMoved, SemNames
  <2>2. consumer = "post_empty" /\ index < ItemsNum
    <3>1. consumer = "post_empty"
      BY <1>7 DEF Sem!ConsumerGoto
    <3>2. test = "double" => index < ItemsNum
      BY <1>2, <1>4, <3>1 DEF TakerKnows
    <3>. QED
      BY <1>4, <3>1, <3>2 DEF TakerKnows
  <2>3. Consumes
    BY <1>1, <1>2, <1>7, <2>2 DEF Consumes
  <2>4. dirty = {} /\ consumer' \in {"done", "wait_stored"} => Window' /\ Marked'
    <3>1. ASSUME Window, consumer' \in {"done", "wait_stored"} PROVE Window'
      <4>1. ASSUME NEW i \in Nat, index' <= i, i < total_produced'
            PROVE  buff'[i % BuffLen] = i
        <5>1. i # index /\ index <= i /\ i < total_produced
          BY <1>1, <1>2, <1>7, <4>1
        <5>. QED
          BY <1>1, <3>1, <5>1 DEF Window
      <4>. QED
        BY <4>1 DEF Window
    <3>. QED
      BY <1>1, <1>5, <3>1 DEF Marked, Marking
  <2>5. CASE Sem!LastRound
    <3>1. Sem!ConsumerGoto("post_empty", "done") /\ test # "double" /\ index' = ItemsNum
      BY <1>7, <2>5 DEF Sem!LastRound
    <3>2. TakerKeeps("post_empty", "done")
      BY <1>1, <1>2, <1>7, <2>1, <3>1, SemNames DEF TakerKeeps, One, Inside, Serving
    <3>3. consumer' = "done"
      BY <3>1 DEF Sem!ConsumerGoto
    <3>4. TakerKnows'
      <4>1. One(consumer \in {"post_mutex", "post_empty"}) = 1
            /\ One(consumer' \in {"post_mutex", "post_empty"}) = 0
        BY <2>2, <3>3 DEF One
      <4>2. test = "many" => total_consumed' = index' + 0
        BY <1>1, <1>2, <1>4, <1>7, <4>1 DEF TakerKnows
      <4>. QED
        BY <1>1, <3>1, <3>3, <4>1, <4>2 DEF TakerKnows
    <3>5. "done" \in TakerLabels
      BY DEF TakerLabels
    <3>. QED
      BY <1>1, <2>1, <2>3, <2>4, <3>1, <3>2, <3>3, <3>4, <3>5, ConsumerStep
  <2>6. CASE ~Sem!LastRound
    <3>1. Sem!ConsumerGoto("post_empty", "wait_stored")
      BY <1>7, <2>6
    <3>2. TakerKeeps("post_empty", "wait_stored")
      BY <1>1, <1>2, <1>7, <2>1, <3>1, SemNames DEF TakerKeeps, One, Inside, Serving
    <3>3. consumer' = "wait_stored"
      BY <3>1 DEF Sem!ConsumerGoto
    <3>4. TakerKnows'
      <4>1. One(consumer \in {"post_mutex", "post_empty"}) = 1
            /\ One(consumer' \in {"post_mutex", "post_empty"}) = 0
        BY <2>2, <3>3 DEF One
      <4>2. test = "many" => total_consumed' = index' + 0
        BY <1>1, <1>2, <1>4, <1>7, <4>1 DEF TakerKnows
      <4>3. test # "double" => index' < ItemsNum
        BY <1>2, <1>7, <2>2, <2>6 DEF Sem!LastRound
      <4>. QED
        BY <1>1, <3>3, <4>1, <4>2, <4>3 DEF TakerKnows
    <3>5. "wait_stored" \in TakerLabels
      BY DEF TakerLabels
    <3>. QED
      BY <1>1, <2>1, <2>3, <2>4, <3>1, <3>2, <3>3, <3>4, <3>5, ConsumerStep
  <2>. QED
    BY <2>5, <2>6
<1>. QED
  BY <1>6, <1>7 DEF Sem!ConsumerPosts

\* The consumer takes an item, or finds the mark.
LEMMA ConsumerTakesStep == ASSUME SemInv, Sem!ConsumerTakes PROVE SemInv'
<1>1. /\ UNCHANGED <<test, left, dirty, stage, step, crashes, value, producer, total_produced, index>>
      /\ PermitsTyped /\ \A n \in Sem!Names : value[n] \in Nat
  BY ItemsTyped DEF Sem!ConsumerTakes, Sem!mainVars
<1>2. /\ index \in Nat /\ index \in 0 .. ItemsNum /\ ItemsNum \in Nat /\ BuffLen \in Nat \ {0}
      /\ total_consumed \in 0 .. ItemsNum /\ total_produced \in 0 .. ItemsNum
      /\ buff \in [Sem!Slots -> 0 .. Sem!EndMark] /\ Sem!EndMark = ItemsNum + 2
  BY ItemsTyped DEF SemInv, Sem!TypeOK, SemMain, Sem!EndMark
<1>3. consumer = "take"
  BY DEF Sem!ConsumerTakes, Sem!ConsumerGoto
<1>4. stage = "run" /\ TakerKnows /\ (dirty # {} => test = "named")
  BY <1>3, SemRunning DEF SemInv, SemMain
<1>5. dirty = {} => Window /\ Marked
  BY <1>4 DEF SemInv, SemBooks
<1>6. ASSUME dirty = {}
      PROVE  /\ total_produced <= index + BuffLen
             /\ \/ index < total_produced /\ buff[index % BuffLen] = index
                \/ /\ test = "double" /\ producer[First] = "done" /\ index = ItemsNum
                   /\ total_produced = ItemsNum /\ buff[index % BuffLen] = Sem!EndMark
  BY <1>3, <1>4, <1>6, TakerSees
<1>7. CASE test \notin {"many", "double"}
  <2>1. Sem!ConsumerGoto("take", "post_mutex") /\ UNCHANGED <<buff, total_consumed>>
    BY <1>7 DEF Sem!ConsumerTakes
  <2>2. SlotsTyped /\ Consumes
    BY <1>1, <1>2, <2>1 DEF SlotsTyped, Consumes
  <2>3. TakerKeeps("take", "post_mutex")
    BY <1>1, <1>2, <1>7, SemNames DEF TakerKeeps, One, Inside, Serving
  <2>4. consumer' = "post_mutex"
    BY <2>1 DEF Sem!ConsumerGoto
  <2>5. TakerKnows'
    BY <1>1, <1>3, <1>4, <1>7, <2>4 DEF TakerKnows
  <2>6. dirty = {} => Window' /\ Marked'
    BY <1>1, <1>3, <1>5, <2>1, <2>4 DEF Window, Marked, Marking
  <2>7. "post_mutex" \in TakerLabels
    BY DEF TakerLabels
  <2>. QED
    BY <1>1, <2>1, <2>2, <2>3, <2>5, <2>6, <2>7, ConsumerStep
<1>8. CASE test = "many"
  <2>1. dirty = {}
    BY <1>4, <1>8
  <2>2. index < total_produced /\ buff[index % BuffLen] = index /\ total_produced <= index + BuffLen
    BY <1>6, <1>8, <2>1
  <2>3. total_consumed = index + 0
    BY <1>3, <1>4, <1>8 DEF TakerKnows, One
  <2>4. Sem!Full
    <3>1. buff[index % BuffLen] # Sem!Taken /\ total_consumed < total_produced
      BY <1>2, <2>2, <2>3 DEF Sem!Taken
    <3>. QED
      BY <3>1 DEF Sem!Full
  <2>5. /\ Sem!ConsumerGoto("take", "post_mutex")
        /\ buff' = [buff EXCEPT ![index % BuffLen] = Sem!Taken]
        /\ total_consumed' = total_consumed + 1
    BY <1>8, <2>4 DEF Sem!ConsumerTakes
  <2>6. SlotsTyped
    <3>1. Sem!Taken \in 0 .. Sem!EndMark
      BY <1>2 DEF Sem!Taken
    <3>. QED
      BY <1>2, <2>5, <3>1 DEF SlotsTyped
  <2>7. Consumes
    BY <1>1, <1>2, <2>2, <2>3, <2>5 DEF Consumes
  <2>8. TakerKeeps("take", "post_mutex")
    BY <1>1, <1>2, <1>8, SemNames DEF TakerKeeps, One, Inside, Serving
  <2>9. consumer' = "post_mutex"
    BY <2>5 DEF Sem!ConsumerGoto
  <2>10. TakerKnows'
    <3>1. One(consumer' \in {"post_mutex", "post_empty"}) = 1
      BY <2>9 DEF One
    <3>2. total_consumed' = index' + 1
      BY <1>1, <1>2, <2>3, <2>5
    <3>. QED
      BY <1>1, <1>3, <1>4, <1>8, <2>9, <3>1, <3>2 DEF TakerKnows
  <2>11. Window' /\ Marked'
    <3>1. ASSUME NEW i \in Nat, index <= i, i < total_produced
          PROVE  i = index \/ buff'[i % BuffLen] = i
      <4>1. CASE i # index
        <5>1. index < i /\ i < index + BuffLen
          BY <1>2, <2>2, <3>1, <4>1
        <5>2. index % BuffLen # i % BuffLen
          BY <1>2, <5>1, DistinctSlots
        <5>3. i % BuffLen \in Sem!Slots
          BY <1>2, DivMod DEF Sem!Slots
        <5>4. buff'[i % BuffLen] = buff[i % BuffLen]
          BY <1>2, <2>5, <5>2, <5>3
        <5>5. buff[i % BuffLen] = i
          BY <1>5, <2>1, <3>1, <4>1 DEF Window
        <5>. QED
          BY <5>4, <5>5
      <4>. QED
        BY <4>1
    <3>2. ~Marking'
      BY <1>1, <1>8 DEF Marking
    <3>. QED
      BY <1>1, <2>9, <3>1, <3>2 DEF Window, Marked
  <2>12. "post_mutex" \in TakerLabels
    BY DEF TakerLabels
  <2>. QED
    BY <1>1, <2>5, <2>6, <2>7, <2>8, <2>10, <2>11, <2>12, ConsumerStep
<1>9. CASE test = "double"
  <2>1. dirty = {}
    BY <1>4, <1>9
  <2>2. UNCHANGED <<buff, total_consumed>>
    BY <1>9 DEF Sem!ConsumerTakes
  <2>3. SlotsTyped /\ Consumes
    BY <1>1, <1>2, <2>2 DEF SlotsTyped, Consumes
  <2>4. ASSUME NEW b \in {"done", "post_empty"}, consumer' = b PROVE Window' /\ Marked'
    BY <1>1, <1>3, <1>5, <2>1, <2>2, <2>4 DEF Window, Marked, Marking
  <2>5. CASE buff[index % BuffLen] = Sem!EndMark
    <3>1. Sem!ConsumerGoto("take", "done") /\ consumer' = "done"
      BY <1>9, <2>5 DEF Sem!ConsumerTakes, Sem!ConsumerGoto
    <3>2. index = ItemsNum /\ producer[First] = "done"
      BY <1>2, <1>6, <2>1, <2>5
    <3>3. TakerKeeps("take", "done")
      BY <1>1, <1>2, <1>9, SemNames DEF TakerKeeps, One, Inside, Serving
    <3>4. TakerKnows'
      BY <1>1, <1>9, <3>1, <3>2 DEF TakerKnows
    <3>5. "done" \in TakerLabels
      BY DEF TakerLabels
    <3>. QED
      BY <1>1, <2>3, <2>4, <3>1, <3>3, <3>4, <3>5, ConsumerStep
  <2>6. CASE buff[index % BuffLen] # Sem!EndMark
    <3>1. Sem!ConsumerGoto("take", "post_empty") /\ consumer' = "post_empty"
      BY <1>9, <2>6 DEF Sem!ConsumerTakes, Sem!ConsumerGoto
    <3>2. index < total_produced
      BY <1>6, <2>1, <2>6
    <3>3. TakerKeeps("take", "post_empty")
      BY <1>1, <1>2, <1>9, SemNames DEF TakerKeeps, One, Inside, Serving
    <3>4. TakerKnows'
      BY <1>1, <1>9, <3>1, <3>2 DEF TakerKnows
    <3>5. "post_empty" \in TakerLabels
      BY DEF TakerLabels
    <3>. QED
      BY <1>1, <2>3, <2>4, <3>1, <3>3, <3>4, <3>5, ConsumerStep
  <2>. QED
    BY <2>5, <2>6
<1>. QED
  BY <1>7, <1>8, <1>9

\* When nobody is at the places there is nothing to count.
LEMMA NobodyThere ==
    ASSUME NEW f, NEW places, \A p \in Producers : f[p] \notin places
    PROVE  CountAt(Producers, f, places) = 0
<1>1. {p \in Producers : f[p] \in places} = {}
  OBVIOUS
<1>. QED
  BY <1>1, FS_EmptySet DEF CountAt

\* Threads that have all ended leave the semaphores as they were created.
LEMMA EndsFresh ==
    ASSUME SemInv, stage = "run", dirty = {}, Sem!ThreadsEnded, test # "double"
    PROVE  value = Sem!Fresh /\ index = ItemsNum
<1>1. SemBooks /\ MakersKnow /\ TakerKnows
  BY DEF SemInv
<1>2. consumer = "done" /\ index = ItemsNum /\ ItemsNum \in Nat /\ BuffLen \in Nat
  BY <1>1, SemAssumption DEF TakerKnows, Sem!ThreadsEnded
<1>3. \A p \in Producers : producer[p] \in {"absent", "done"}
  BY DEF Sem!ThreadsEnded
<1>4. total_produced = ItemsNum
  <2>1. First \in Producers /\ Sem!Creates(First)
    BY SemAssumption DEF Sem!Creates
  <2>2. producer[First] \in MakerLabels
    BY <1>1, <2>1 DEF MakersKnow
  <2>3. producer[First] = "done"
    BY <1>3, <2>1, <2>2 DEF MakerLabels
  <2>. QED
    BY <1>1, <2>1, <2>3 DEF MakersKnow
<1>5. /\ CountAt(Producers, producer, AtMutex) = 0
      /\ CountAt(Producers, producer, AtEmpty) = 0
      /\ CountAt(Producers, producer, AtStored) = 0
  BY <1>3, NobodyThere DEF AtMutex, AtEmpty, AtStored
<1>6. /\ One(consumer \in Inside) = 0 /\ One(Marking) = 0 /\ One(consumer \in Serving) = 0
      /\ One(test = "double" /\ consumer = "done") = 0
      /\ One(test = "double" /\ producer[First] = "done") = 0
  BY <1>2 DEF One, Inside, Serving, Marking
<1>7. value \in [Sem!Names -> Nat] /\ value["mutex"] \in Nat /\ value["empty"] \in Nat /\ value["stored"] \in Nat
  BY SemNames DEF SemInv, Sem!TypeOK
<1>8. value["mutex"] = 1 /\ value["empty"] = BuffLen /\ value["stored"] = 0
  <2>1. value["mutex"] + 0 + 0 = 1 /\ value["empty"] + ItemsNum + 0 + 0 = BuffLen + ItemsNum
        /\ value["stored"] + 0 + ItemsNum + 0 + 0 = ItemsNum + 0
    BY <1>1, <1>2, <1>4, <1>5, <1>6 DEF SemBooks, MutexBalance, EmptyBalance, StoredBalance
  <2>. QED
    BY <1>2, <1>7, <2>1
<1>. QED
  BY <1>2, <1>7, <1>8, SemNames DEF Sem!Fresh

\* The names in the order in which they are opened and unlinked.
LEMMA SemOrder ==
    /\ Sem!Order[1] = "mutex" /\ Sem!Order[2] = "empty" /\ Sem!Order[3] = "stored"
    /\ \A k \in 1 .. 3 : Sem!Order[k] \in Sem!Names
    /\ Sem!Fresh \in [Sem!Names -> Nat]
<1>1. Sem!Order[1] = "mutex" /\ Sem!Order[2] = "empty" /\ Sem!Order[3] = "stored"
  BY DEF Sem!Order
<1>2. Sem!Fresh \in [Sem!Names -> Nat]
  BY SemAssumption DEF Sem!Fresh
<1>3. ASSUME NEW k \in 1 .. 3 PROVE Sem!Order[k] \in Sem!Names
  <2>1. k = 1 \/ k = 2 \/ k = 3
    OBVIOUS
  <2>. QED
    BY <1>1, <2>1 DEF Sem!Names
<1>. QED
  BY <1>1, <1>2, <1>3

\* The main thread opens a semaphore.
LEMMA MainOpensStep == ASSUME SemInv, Sem!MainOpens PROVE SemInv'
<1>. DEFINE n == Sem!Order[step]
<1>1. /\ stage = "open" /\ test # "none" /\ step \in 1 .. 3 /\ step' = step + 1
      /\ value' = IF n \in left THEN value ELSE [value EXCEPT ![n] = Sem!Fresh[n]]
      /\ left' = IF test = "named" THEN left \cup {n} ELSE left
      /\ UNCHANGED <<test, dirty, stage, crashes, producer, consumer, buff,
                     total_produced, total_consumed, index>>
  BY DEF Sem!MainOpens, SemInv, Sem!TypeOK
<1>2. n \in Sem!Names /\ Sem!Fresh[n] \in Nat
  BY <1>1, SemOrder
<1>3. value' \in [Sem!Names -> Nat] /\ (value = Sem!Fresh => value' = Sem!Fresh)
  <2>. HIDE DEF n
  <2>1. value \in [Sem!Names -> Nat]
    BY DEF SemInv, Sem!TypeOK
  <2>. QED
    BY <1>1, <1>2, <2>1
<1>4. Sem!TypeOK'
  <2>1. left' \subseteq Sem!Names /\ dirty' \subseteq left' /\ step' \in 1 .. 4
    BY <1>1, <1>2 DEF SemInv, Sem!TypeOK
  <2>. HIDE DEF n
  <2>. QED
    BY <1>1, <1>3, <2>1 DEF SemInv, Sem!TypeOK
<1>5. SemMain'
  <2>1. SemMain
    BY DEF SemInv
  <2>2. test = "named" => \A k \in 1 .. 3 : k < step' => Sem!Order[k] \in left'
    <3>1. ASSUME test = "named", NEW k \in 1 .. 3, k < step + 1 PROVE Sem!Order[k] \in left \cup {n}
      <4>1. k < step \/ k = step
        BY <1>1, <3>1
      <4>. QED
        BY <1>1, <2>1, <3>1, <4>1 DEF SemMain
    <3>. QED
      BY <1>1, <3>1
  <2>. HIDE DEF n
  <2>. QED
    BY <1>1, <1>3, <2>1, <2>2 DEF SemMain
<1>. QED
  BY <1>1, <1>4, <1>5 DEF SemInv

\* It starts the threads.
LEMMA MainCreatesStep == ASSUME SemInv, Sem!MainCreates PROVE SemInv'
<1>1. /\ stage = "open" /\ step = 4 /\ stage' = "run" /\ step' = 1
      /\ producer' = [p \in Producers |-> IF Sem!Creates(p) THEN "wait_empty" ELSE "absent"]
      /\ consumer' = "wait_stored"
      /\ UNCHANGED <<test, left, dirty, crashes, value, buff, total_produced, total_consumed, index>>
  BY DEF Sem!MainCreates
<1>2. /\ total_produced = 0 /\ total_consumed = 0 /\ index = 0
      /\ ItemsNum \in Nat /\ ItemsNum > 0 /\ BuffLen \in Nat
      /\ test # "none" /\ (dirty = {} => value = Sem!Fresh)
      /\ test = "named" => \A k \in 1 .. 3 : k < step => Sem!Order[k] \in left
      /\ dirty # {} => test = "named" /\ "stored" \in dirty
      /\ buff \in [Sem!Slots -> 0 .. Sem!EndMark]
  BY <1>1, SemAssumption DEF SemInv, SemMain
<1>3. Sem!TypeOK'
  <2>1. producer' \in [Producers -> {"absent", "wait_empty", "wait_mutex", "put", "post_mutex",
                                     "post_stored", "post_mark", "give_back", "leave", "done"}]
    BY <1>1
  <2>. QED
    BY <1>1, <2>1 DEF SemInv, Sem!TypeOK
<1>4. test = "named" => left = Sem!Names
  <2>1. left \subseteq Sem!Names
    BY DEF SemInv, Sem!TypeOK
  <2>2. test = "named" => \A k \in 1 .. 3 : Sem!Order[k] \in left
    BY <1>1, <1>2
  <2>3. test = "named" => "mutex" \in left /\ "empty" \in left /\ "stored" \in left
    BY <2>2, SemOrder
  <2>. QED
    BY <2>1, <2>3, SemNames
<1>5. SemMain'
  BY <1>1, <1>2, <1>4 DEF SemMain
<1>6. \A p \in Producers : producer'[p] = IF Sem!Creates(p) THEN "wait_empty" ELSE "absent"
  BY <1>1
<1>7. MakersKnow'
  <2>1. \A p \in Producers : producer'[p] \in IF Sem!Creates(p) THEN MakerLabels ELSE {"absent"}
    BY <1>6 DEF MakerLabels
  <2>2. MakerLabels' = MakerLabels /\ \A p \in Producers : Sem!Creates(p)' <=> Sem!Creates(p)
    BY <1>1 DEF MakerLabels, Sem!Creates
  <2>3. \A p \in Producers : producer'[p] \notin {"give_back", "leave", "post_mark", "done"}
    BY <1>6
  <2>. QED
    BY <1>1, <1>2, <2>1, <2>2, <2>3 DEF MakersKnow
<1>8. TakerKnows'
  <2>1. One(consumer' \in {"post_mutex", "post_empty"}) = 0
    BY <1>1 DEF One
  <2>. QED
    BY <1>1, <1>2, <2>1 DEF TakerKnows
<1>9. ASSUME dirty = {} PROVE SemBooks'
  <2>1. /\ CountAt(Producers, producer', AtMutex) = 0
        /\ CountAt(Producers, producer', AtEmpty) = 0
        /\ CountAt(Producers, producer', AtStored) = 0
    <3>1. \A p \in Producers : producer'[p] \in {"absent", "wait_empty"}
      BY <1>6
    <3>. QED
      BY <3>1, NobodyThere DEF AtMutex, AtEmpty, AtStored
  <2>2. producer'[First] # "done" /\ ~Marking'
    BY <1>6, SemAssumption DEF Marking
  <2>3. /\ One(consumer' \in Inside) = 0 /\ One(Marking)' = 0 /\ One(consumer' \in Serving) = 0
        /\ One(test' = "double" /\ consumer' = "done") = 0
        /\ One(test' = "double" /\ producer'[First] = "done") = 0
    BY <1>1, <2>2 DEF One, Inside, Serving
  <2>4. value'["mutex"] = 1 /\ value'["empty"] = BuffLen /\ value'["stored"] = 0
    BY <1>1, <1>2, <1>9, SemNames DEF Sem!Fresh
  <2>5. MutexBalance'
    BY <2>1, <2>3, <2>4 DEF MutexBalance
  <2>6. EmptyBalance'
    BY <1>1, <1>2, <2>1, <2>3, <2>4 DEF EmptyBalance
  <2>7. StoredBalance'
    BY <1>1, <1>2, <2>1, <2>3, <2>4 DEF StoredBalance
  <2>8. Window' /\ Marked'
    BY <1>1, <1>2, <2>2 DEF Window, Marked
  <2>. QED
    BY <2>5, <2>6, <2>7, <2>8 DEF SemBooks
<1>. QED
  BY <1>1, <1>3, <1>5, <1>7, <1>8, <1>9 DEF SemInv

\* It joins them.
LEMMA MainJoinsStep == ASSUME SemInv, Sem!MainJoins PROVE SemInv'
<1>1. /\ stage = "run" /\ Sem!ThreadsEnded
      /\ stage' = IF test = "named" THEN "unlink" ELSE "done"
      /\ UNCHANGED <<test, left, dirty, step, crashes, value, producer, consumer, buff,
                     total_produced, total_consumed, index>>
  BY DEF Sem!MainJoins
<1>2. Sem!TypeOK'
  BY <1>1 DEF SemInv, Sem!TypeOK
<1>3. step = 1 /\ test # "none" /\ (test = "named" => left = Sem!Names) /\ SemMain
  BY <1>1 DEF SemInv, SemMain
<1>4. test = "named" => left = {Sem!Order[k] : k \in 1 .. 3}
  <2>1. {Sem!Order[k] : k \in 1 .. 3} = {"mutex", "empty", "stored"}
    <3>1. \A k \in 1 .. 3 : k = 1 \/ k = 2 \/ k = 3
      OBVIOUS
    <3>2. 1 \in 1 .. 3 /\ 2 \in 1 .. 3 /\ 3 \in 1 .. 3
      OBVIOUS
    <3>. QED
      BY <3>1, <3>2, SemOrder
  <2>. QED
    BY <1>3, <2>1, SemNames
<1>5. test = "named" /\ dirty = {} => value = Sem!Fresh
  BY <1>1, EndsFresh
<1>6. Sem!ThreadsEnded'
  BY <1>1 DEF Sem!ThreadsEnded
<1>7. SemMain'
  BY <1>1, <1>3, <1>4, <1>5, <1>6 DEF SemMain
<1>. QED
  BY <1>1, <1>2, <1>7 DEF SemInv

\* It unlinks a name.
LEMMA MainUnlinksStep == ASSUME SemInv, Sem!MainUnlinks PROVE SemInv'
<1>1. /\ stage = "unlink"
      /\ left' = left \ {Sem!Order[step]} /\ dirty' = dirty \ {Sem!Order[step]}
      /\ IF step < 3 THEN step' = step + 1 /\ UNCHANGED stage ELSE step' = 1 /\ stage' = "done"
      /\ UNCHANGED <<test, crashes, value, producer, consumer, buff, total_produced,
                     total_consumed, index>>
  BY DEF Sem!MainUnlinks
<1>2. /\ test = "named" /\ step \in 1 .. 3 /\ left = {Sem!Order[k] : k \in step .. 3}
      /\ Sem!ThreadsEnded /\ dirty \subseteq left /\ SemMain
  BY <1>1 DEF SemInv, SemMain, Sem!TypeOK
<1>3. Sem!TypeOK'
  BY <1>1, <1>2 DEF SemInv, Sem!TypeOK
<1>4. step = 1 \/ step = 2 \/ step = 3
  BY <1>2
<1>5. step = 3 => left' = {} /\ dirty' = {}
  <2>1. ASSUME step = 3 PROVE left = {Sem!Order[3]}
    <3>1. \A k \in step .. 3 : k = 3
      BY <2>1
    <3>2. 3 \in step .. 3
      BY <2>1
    <3>. QED
      BY <1>2, <3>1, <3>2
  <2>. QED
    BY <1>1, <1>2, <2>1
<1>6. ASSUME step < 3 PROVE left' = {Sem!Order[k] : k \in step + 1 .. 3}
  <2>1. \A k \in step + 1 .. 3 : Sem!Order[k] # Sem!Order[step]
    <3>1. ASSUME NEW k \in step + 1 .. 3 PROVE Sem!Order[k] # Sem!Order[step]
      <4>1. (step = 1 /\ k = 2) \/ (step = 1 /\ k = 3) \/ (step = 2 /\ k = 3)
        BY <1>4, <1>6, <3>1
      <4>. QED
        BY <4>1, SemOrder
    <3>. QED
      BY <3>1
  <2>2. \A k \in step .. 3 : k = step \/ k \in step + 1 .. 3
    BY <1>2
  <2>3. \A k \in step + 1 .. 3 : k \in step .. 3
    BY <1>2
  <2>. QED
    BY <1>1, <1>2, <2>1, <2>2, <2>3
<1>7. ASSUME dirty' # {} PROVE "stored" \in dirty'
  <2>1. "stored" \in dirty /\ step # 3
    BY <1>1, <1>2, <1>5, <1>7 DEF SemMain
  <2>2. Sem!Order[step] # "stored"
    BY <1>4, <2>1, SemOrder
  <2>. QED
    BY <1>1, <2>1, <2>2
<1>8. Sem!ThreadsEnded'
  BY <1>1, <1>2 DEF Sem!ThreadsEnded
<1>9. stage' = "unlink" => dirty' # {} \/ value' = Sem!Fresh
  <2>1. ASSUME stage' = "unlink", dirty' = {} PROVE value' = Sem!Fresh
    <3>1. step # 3 /\ Sem!Order[step] # "stored"
      BY <1>1, <1>4, <2>1, SemOrder
    <3>2. dirty = {}
      BY <1>1, <1>2, <2>1, <3>1 DEF SemMain
    <3>. QED
      BY <1>1, <1>2, <3>2 DEF SemMain
  <2>. QED
    BY <2>1
<1>10. SemMain'
  <2>1. stage' \in {"unlink", "done"} /\ (stage' = "unlink" => step < 3 /\ step' = step + 1 /\ step' < 4)
    BY <1>1, <1>2
  <2>2. stage' = "unlink" => left' = {Sem!Order[k] : k \in step' .. 3}
    BY <1>6, <2>1
  <2>3. /\ buff' \in [Sem!Slots -> 0 .. Sem!EndMark]
        /\ test' = "named"
    BY <1>1, <1>2 DEF SemMain
  <2>. QED
    BY <1>7, <1>8, <1>9, <2>1, <2>2, <2>3 DEF SemMain
<1>. QED
  BY <1>3, <1>10, <1>1 DEF SemInv

\* The process is killed and run again.
LEMMA SemCrashStep == ASSUME SemInv, Sem!Crash PROVE SemInv'
<1>1. /\ test = "named" /\ stage # "done" /\ crashes < MaxCrashes
      /\ crashes' = crashes + 1 /\ dirty' = IF stage = "run" THEN left ELSE dirty
      /\ stage' = "open" /\ step' = 1 /\ producer' = [p \in Producers |-> "absent"]
      /\ consumer' = "absent" /\ buff' = [s \in Sem!Slots |-> Sem!Zero]
      /\ total_produced' = 0 /\ total_consumed' = 0 /\ index' = 0
      /\ UNCHANGED <<test, left, value>>
  BY DEF Sem!Crash
<1>2. Sem!Zero \in 0 .. Sem!EndMark /\ MaxCrashes \in Nat /\ ItemsNum \in Nat
  BY SemAssumption DEF Sem!Zero, Sem!EndMark
<1>3. buff' \in [Sem!Slots -> 0 .. Sem!EndMark]
  BY <1>1, <1>2
<1>4. Sem!TypeOK'
  <2>1. producer' \in [Producers -> {"absent", "wait_empty", "wait_mutex", "put", "post_mutex",
                                     "post_stored", "post_mark", "give_back", "leave", "done"}]
    BY <1>1
  <2>2. crashes' \in 0 .. MaxCrashes
    BY <1>1, <1>2 DEF SemInv, Sem!TypeOK
  <2>3. \A s \in Sem!Slots : buff'[s] \in 0 .. Sem!EndMark
    BY <1>3
  <2>4. /\ test' \in Sem!Tests \cup {"none"} /\ left' \subseteq Sem!Names /\ dirty' \subseteq left'
        /\ value' \in [Sem!Names -> Nat] /\ stage' \in {"open", "run", "unlink", "done"} /\ step' \in 1 .. 4
        /\ consumer' \in {"absent", "wait_stored", "wait_mutex", "take", "post_mutex", "post_empty", "done"}
    BY <1>1 DEF SemInv, Sem!TypeOK
  <2>5. {total_produced', total_consumed', index'} \subseteq 0 .. ItemsNum
    BY <1>1, <1>2
  <2>. QED
    BY <2>1, <2>2, <2>3, <2>4, <2>5 DEF Sem!TypeOK
<1>5. SemMain
  BY DEF SemInv
<1>6. stage = "run" => "stored" \in dirty'
  BY <1>1, <1>5, SemNames DEF SemMain
<1>7. dirty' = {} => value' = Sem!Fresh
  <2>1. ASSUME dirty' = {} PROVE stage \in {"open", "unlink"} /\ dirty = {}
    BY <1>1, <1>6, <2>1 DEF SemInv, Sem!TypeOK
  <2>. QED
    BY <1>1, <1>5, <2>1 DEF SemMain
<1>8. SemMain'
  <2>1. dirty' # {} => "stored" \in dirty'
    BY <1>1, <1>5, <1>6 DEF SemMain
  <2>. QED
    BY <1>1, <1>3, <1>7, <2>1 DEF SemMain
<1>. QED
  BY <1>1, <1>4, <1>8 DEF SemInv

\* Every step of the semaphore programs preserves SemInv.
LEMMA SemNext == ASSUME SemInv, Sem!Next PROVE SemInv'
<1>1. CASE Sem!Main
  BY <1>1, MainOpensStep, MainCreatesStep, MainJoinsStep, MainUnlinksStep DEF Sem!Main
<1>2. CASE Sem!Threads
  BY <1>2, ProducerWaitsStep, ProducerPutsStep, ProducerPostsStep, ConsumerWaitsStep,
     ConsumerTakesStep, ConsumerPostsStep DEF Sem!Threads
<1>3. CASE Sem!Crash
  BY <1>3, SemCrashStep
<1>. QED
  BY <1>1, <1>2, <1>3 DEF Sem!Next

\* So does a step of another program.
LEMMA SemUnchanged == ASSUME SemInv, UNCHANGED semVars PROVE SemInv'
<1>1. UNCHANGED <<test, left, dirty, value, stage, step, producer, consumer, buff,
                  total_produced, total_consumed, index, crashes>>
  BY DEF semVars
<1>2. Sem!TypeOK'
  BY <1>1 DEF SemInv, Sem!TypeOK
<1>3. SemMain'
  BY <1>1 DEF SemInv, SemMain, Sem!ThreadsEnded
<1>4. MakersKnow /\ TakerKnows => MakersKnow' /\ TakerKnows'
  BY <1>1 DEF MakersKnow, MakerLabels, TakerKnows, Sem!Creates
<1>5. SemBooks => SemBooks'
  BY <1>1 DEF SemBooks, MutexBalance, EmptyBalance, StoredBalance, Window, Marked, Marking
<1>. QED
  BY <1>1, <1>2, <1>3, <1>4, <1>5 DEF SemInv

\* SemInv holds when the semaphore programs start, and when they are not run.
LEMMA SemInit == ASSUME Sem!Init \/ Sem!NotRun PROVE SemInv
<1>1. /\ left = {} /\ dirty = {} /\ value = Sem!Fresh /\ crashes = 0
      /\ stage = "open" /\ step = 1 /\ producer = [p \in Producers |-> "absent"]
      /\ consumer = "absent" /\ buff = [s \in Sem!Slots |-> Sem!Zero]
      /\ total_produced = 0 /\ total_consumed = 0 /\ index = 0
      /\ test \in Sem!Tests \cup {"none"}
  BY DEF Sem!Init, Sem!NotRun, Sem!Quiet
<1>2. Sem!Zero \in 0 .. Sem!EndMark /\ MaxCrashes \in Nat /\ ItemsNum \in Nat
  BY SemAssumption DEF Sem!Zero, Sem!EndMark
<1>3. Sem!TypeOK
  <2>1. producer \in [Producers -> {"absent", "wait_empty", "wait_mutex", "put", "post_mutex",
                                    "post_stored", "post_mark", "give_back", "leave", "done"}]
    BY <1>1
  <2>2. \A s \in Sem!Slots : buff[s] \in 0 .. Sem!EndMark
    BY <1>1, <1>2
  <2>3. value \in [Sem!Names -> Nat]
    BY <1>1, SemOrder
  <2>4. {total_produced, total_consumed, index} \subseteq 0 .. ItemsNum /\ crashes \in 0 .. MaxCrashes
    BY <1>1, <1>2
  <2>. QED
    BY <1>1, <2>1, <2>2, <2>3, <2>4 DEF Sem!TypeOK
<1>4. SemMain
  <2>1. buff \in [Sem!Slots -> 0 .. Sem!EndMark]
    BY <1>1, <1>2
  <2>2. \A k \in 1 .. 3 : ~(k < step)
    BY <1>1
  <2>. QED
    BY <1>1, <2>1, <2>2 DEF SemMain
<1>. QED
  BY <1>1, <1>3, <1>4 DEF SemInv

\* Threads that can none of them go on have ended.
LEMMA ThreadsGoOn ==
    ASSUME SemInv, dirty = {}, stage = "run", Sem!Blocked(consumer),
           \A p \in Producers : Sem!Blocked(producer[p])
    PROVE  Sem!ThreadsEnded
<1>1. SemBooks /\ MakersKnow /\ TakerKnows
  BY DEF SemInv
<1>2. \A places : CountAt(Producers, producer, places) \in Nat
  BY SemAssumption, CountAtType
<1>3. PICK t \in Nat, i \in Nat, l \in Nat, n \in Nat, vm \in Nat, ve \in Nat, vs \in Nat :
        /\ t = total_produced /\ i = index /\ l = BuffLen /\ n = ItemsNum
        /\ vm = value["mutex"] /\ ve = value["empty"] /\ vs = value["stored"]
        /\ l > 0 /\ n > 0 /\ t <= n /\ i <= n
  <2>1. /\ total_produced \in Nat /\ index \in Nat /\ BuffLen \in Nat /\ ItemsNum \in Nat
        /\ value["mutex"] \in Nat /\ value["empty"] \in Nat /\ value["stored"] \in Nat
        /\ BuffLen > 0 /\ ItemsNum > 0 /\ total_produced <= ItemsNum /\ index <= ItemsNum
    BY ItemsTyped, SemNames
  <2>. QED
    BY <2>1
<1>4. PICK k \in Nat, d \in Nat, r \in Nat :
        /\ k = One(Marking) /\ d = One(test = "double" /\ consumer = "done")
        /\ r = One(test = "double" /\ producer[First] = "done")
  BY DEF One
<1>5. /\ consumer \in {"wait_stored", "wait_mutex", "done"}
      /\ consumer = "wait_stored" => vs = 0
      /\ consumer = "wait_mutex" => vm = 0
  <2>1. consumer # "wait_empty"
    BY DEF SemInv, Sem!TypeOK
  <2>. QED
    BY <1>1, <1>3, <2>1 DEF Sem!Blocked, TakerKnows
<1>6. \A p \in Producers :
        /\ producer[p] \in {"absent", "wait_empty", "wait_mutex", "done"}
        /\ producer[p] = "wait_empty" => ve = 0
        /\ producer[p] = "wait_mutex" => vm = 0
  <2>1. \A p \in Producers : producer[p] # "wait_stored"
    BY DEF SemInv, Sem!TypeOK
  <2>. QED
    BY <1>3, <2>1 DEF Sem!Blocked
<1>7. CountAt(Producers, producer, AtMutex) = 0 /\ CountAt(Producers, producer, AtStored) = 0
  BY <1>6, NobodyThere DEF AtMutex, AtStored
<1>8. test # "double" => vm = 1
  <2>1. One(consumer \in Inside) = 0
    BY <1>5 DEF One, Inside
  <2>. QED
    BY <1>1, <1>3, <1>7, <2>1 DEF SemBooks, MutexBalance
<1>9. consumer # "wait_mutex" /\ \A p \in Producers : producer[p] # "wait_mutex"
  <2>1. test = "double" => \A p \in Producers : producer[p] # "wait_mutex"
    BY <1>1 DEF MakersKnow, MakerLabels
  <2>. QED
    BY <1>1, <1>5, <1>6, <1>8, <2>1 DEF TakerKnows
<1>10. CountAt(Producers, producer, AtEmpty) = 0
  BY <1>6, <1>9, NobodyThere DEF AtEmpty
<1>11. One(consumer \in Serving) = 0
  BY <1>5, <1>9 DEF One, Serving
<1>12. ve + t + 0 + k = l + i /\ vs + 0 + i + 0 + d = t + r
  BY <1>1, <1>3, <1>4, <1>7, <1>10, <1>11 DEF SemBooks, EmptyBalance, StoredBalance
<1>13. First \in Producers /\ Sem!Creates(First) /\ producer[First] \in {"wait_empty", "done"}
  <2>1. First \in Producers /\ Sem!Creates(First)
    BY SemAssumption DEF Sem!Creates
  <2>2. producer[First] \in MakerLabels
    BY <1>1, <2>1 DEF MakersKnow
  <2>. QED
    BY <1>6, <1>9, <2>1, <2>2 DEF MakerLabels
<1>14. test = "double" /\ producer[First] = "wait_empty" => k = 0 /\ r = 0 /\ d = 0
  <2>1. test = "double" /\ producer[First] = "wait_empty" => consumer # "done"
    BY <1>1 DEF TakerKnows
  <2>. QED
    BY <1>4, <2>1 DEF One, Marking
<1>15. test # "double" => k = 0 /\ r = 0 /\ d = 0
  BY <1>4 DEF One, Marking
<1>16. ASSUME NEW p \in Producers, producer[p] = "wait_empty" PROVE FALSE
  <2>1. ve = 0
    BY <1>6, <1>16
  <2>2. k = 0 /\ r = 0 /\ d = 0
    <3>1. test = "double" => p = First
      BY <1>1, <1>16 DEF MakersKnow, Sem!Creates
    <3>. QED
      BY <1>14, <1>15, <1>16, <3>1
  <2>3. t = l + i
    BY <1>12, <2>1, <2>2
  <2>4. vs + i = t
    BY <1>12, <2>2
  <2>5. CASE consumer = "wait_stored"
    BY <1>3, <1>5, <2>3, <2>4, <2>5
  <2>6. CASE consumer = "done"
    <3>1. index = ItemsNum
      BY <1>1, <2>6 DEF TakerKnows
    <3>2. i = n
      BY <1>3, <3>1
    <3>. QED
      BY <1>3, <2>3, <3>2
  <2>. QED
    BY <1>5, <1>9, <2>5, <2>6
<1>17. \A p \in Producers : producer[p] \in {"absent", "done"}
  BY <1>6, <1>9, <1>16
<1>18. consumer # "wait_stored"
  <2>1. SUFFICES ASSUME consumer = "wait_stored" PROVE FALSE
    OBVIOUS
  <2>2. producer[First] = "done"
    BY <1>13, <1>17
  <2>3. t = n
    BY <1>1, <1>3, <1>13, <2>2 DEF MakersKnow
  <2>4. vs = 0 /\ d = 0
    BY <1>4, <1>5, <2>1 DEF One
  <2>5. i = t + r
    BY <1>12, <2>4
  <2>6. CASE test = "double"
    <3>1. r = 1
      BY <1>4, <2>2, <2>6 DEF One
    <3>. QED
      BY <1>3, <2>3, <2>5, <3>1
  <2>7. CASE test # "double"
    <3>1. index < ItemsNum
      BY <1>1, <2>1, <2>7 DEF TakerKnows
    <3>2. i < n
      BY <1>3, <3>1
    <3>. QED
      BY <1>15, <2>3, <2>5, <2>7, <3>2
  <2>. QED
    BY <2>6, <2>7
<1>. QED
  BY <1>5, <1>9, <1>17, <1>18 DEF Sem!ThreadsEnded

\* What SemInv says of the items, the semaphores and the threads.
LEMMA SemIntact == ASSUME SemInv PROVE Sem!IntactUnlessLeftDirty
<1>. SUFFICES ASSUME dirty = {}
              PROVE  /\ consumer = "take" =>
                          buff[index % BuffLen] = Sem!Expected /\ (test = "many" => Sem!Full)
                     /\ test = "double" => ~Sem!SameSlot
                     /\ stage = "run" /\ Sem!Blocked(consumer)
                          /\ (\A p \in Producers : Sem!Blocked(producer[p])) => Sem!ThreadsEnded
                     /\ stage = "run" /\ Sem!ThreadsEnded =>
                          CASE test = "many" -> value = Sem!Fresh /\ total_consumed = ItemsNum
                            [] test = "double" -> index = ItemsNum
                            [] OTHER -> value = Sem!Fresh
  BY DEF Sem!IntactUnlessLeftDirty
<1>1. /\ total_produced \in 0 .. ItemsNum /\ index \in 0 .. ItemsNum /\ ItemsNum \in Nat
      /\ BuffLen \in Nat \ {0}
  BY ItemsTyped
<1>2. ASSUME consumer = "take"
      PROVE  /\ stage = "run" /\ TakerKnows
             /\ \/ index < total_produced /\ buff[index % BuffLen] = index
                \/ /\ test = "double" /\ producer[First] = "done" /\ index = ItemsNum
                   /\ buff[index % BuffLen] = Sem!EndMark
  <2>1. stage = "run"
    BY <1>2, SemRunning
  <2>. QED
    BY <1>2, <2>1, TakerSees DEF SemInv
<1>3. ASSUME consumer = "take"
      PROVE  buff[index % BuffLen] = Sem!Expected /\ (test = "many" => Sem!Full)
  <2>1. CASE index < total_produced /\ buff[index % BuffLen] = index
    <3>1. index # ItemsNum
      BY <1>1, <2>1
    <3>2. test = "many" => total_consumed = index + 0
      BY <1>2, <1>3 DEF TakerKnows, One
    <3>3. test = "many" => total_consumed < total_produced
      BY <1>1, <2>1, <3>2
    <3>. QED
      BY <2>1, <3>1, <3>3 DEF Sem!Expected, Sem!Full, Sem!Taken
  <2>2. CASE test = "double" /\ index = ItemsNum /\ buff[index % BuffLen] = Sem!EndMark
    BY <2>2 DEF Sem!Expected
  <2>. QED
    BY <1>2, <1>3, <2>1, <2>2
<1>4. ASSUME test = "double", Sem!SameSlot PROVE FALSE
  <2>1. producer[First] = "put" /\ consumer = "take" /\ total_produced % BuffLen = index % BuffLen
    BY <1>4 DEF Sem!SameSlot, Sem!Position
  <2>2. index < total_produced
    BY <1>2, <2>1
  <2>3. total_produced < index + BuffLen
    BY <2>1, RoomToPut, SemAssumption
  <2>4. index \in Nat /\ total_produced \in Nat
    BY <1>1
  <2>5. index % BuffLen # total_produced % BuffLen
    BY <1>1, <2>2, <2>3, <2>4, DistinctSlots
  <2>. QED
    BY <2>1, <2>5
<1>5. ASSUME stage = "run", Sem!ThreadsEnded
      PROVE  CASE test = "many" -> value = Sem!Fresh /\ total_consumed = ItemsNum
               [] test = "double" -> index = ItemsNum
               [] OTHER -> value = Sem!Fresh
  <2>1. TakerKnows /\ consumer = "done"
    BY <1>5 DEF SemInv, Sem!ThreadsEnded
  <2>2. test # "double" => value = Sem!Fresh /\ index = ItemsNum
    BY <1>5, EndsFresh
  <2>3. test = "double" => index = ItemsNum
    BY <2>1 DEF TakerKnows
  <2>4. test = "many" => total_consumed = ItemsNum
    <3>1. test = "many" => total_consumed = index + 0
      BY <2>1 DEF TakerKnows, One
    <3>. QED
      BY <1>1, <2>2, <3>1
  <2>. QED
    BY <2>2, <2>3, <2>4
<1>. QED
  BY <1>3, <1>4, <1>5, ThreadsGoOn

\* The permits of the three semaphores balance and the items not yet taken are in
\* their slots (semaphore_test.cpp), in every state of Storage.
THEOREM SemaphoresInvariant == Spec => []SemInv
<1>1. Init => SemInv
  BY SemInit DEF Init
<1>2. SemInv /\ [Next]_vars => SemInv'
  BY SemNext, SemUnchanged DEF Next, vars
<1>. QED
  BY <1>1, <1>2, PTL DEF Spec

\* In every state, unless a run that was killed while its threads ran left its
\* semaphores (semaphore_test.cpp:156-158): the consumer looks at the item it
\* expects, the threads do not all wait, and they end with the semaphores as they began.
THEOREM ItemsIntact == Spec => []IntactUnlessLeftDirty
<1>1. SemInv => IntactUnlessLeftDirty
  BY SemIntact DEF IntactUnlessLeftDirty
<1>. QED
  BY <1>1, SemaphoresInvariant, PTL

-----------------------------------------------------------------------------
(* Files on disk (Files).                                                  *)

FileOps == {"open", "open_anyhow", "read", "write", "seek", "close", "fstat", "stat", "link",
            "unlink", "set_lock", "map"}
FileStepSet ==
  [op : FileOps, on : File!Names \cup {""},
   how : {"", "create_truncate", "create", "exists", "append", "write", "read", "none", File!File02}]

\* The calls that use the descriptor without a test, those that leave it open, the
\* tools that empty or remove files, and those that write records.
Uses == {"read", "write", "seek", "set_lock", "map"}
LeavesOpen == {"open", "read", "write", "seek", "set_lock"}
Removers == {"creat", "touch"}
Recorders == {"append", "location"}

\* What is so of each call a tool has before it, and of each two in a row.
CallFits(name, s) ==
  /\ s.op \in {"open", "open_anyhow", "unlink", "stat"} => s.on \in File!Names
  /\ s.op = "set_lock" => s.how \in {"write", "read", "none"}
  /\ s.op = "write" => name \in Recorders
  /\ name \notin Removers =>
       /\ s.op \notin {"unlink", "link"} /\ s.how # "create_truncate"
       /\ s.op \in {"open", "open_anyhow"} => s.on = File!File01
PairFits(name, s, t) ==
  /\ t.op \in Uses => s.op \in LeavesOpen
  /\ name = "append" /\ t.op = "write" => s = File!OpenOrQuit("append")
CallRules(name, S) ==
  /\ \A k \in 1 .. Len(S) : CallFits(name, S[k])
  /\ \A k \in 1 .. Len(S) - 1 : PairFits(name, S[k], S[k + 1])

FileTypes ==
  /\ tool \in [Users -> DOMAIN File!FilePrograms]
  /\ todo \in [Users -> Seq(FileStepSet)]
  /\ fate \in [Users -> {"runs", "quit", "SIGBUS", "ended"}]
  /\ directory \in [File!Names -> File!Inodes \cup {File!None}]
  /\ inode \in [File!Inodes -> [data : Seq(File!Cells), links : 0 .. 2, readonly : BOOLEAN]]
  /\ fd \in [Users -> [inode : File!Inodes \cup {File!None}, offset : Nat, append : BOOLEAN]]
  /\ recordLocks \subseteq [owner : Users, in : File!Inodes, kind : {"read", "write"}]
  /\ seen \in [Users -> Nat]
  /\ written \subseteq [by : Users, in : File!Inodes, at : Nat \ {0}]

FileScripts == \A u \in Users : CallRules(tool[u], todo[u])

\* Who reads, writes, seeks, locks or maps next has a file open, and who appends
\* has opened it for that.
Opened ==
  \A u \in Users : fate[u] = "runs" /\ todo[u] # <<>> =>
    /\ Head(todo[u]).op \in Uses => fd[u].inode \in File!Inodes
    /\ tool[u] = "append" /\ Head(todo[u]).op = "write" => fd[u].append

NameCount(d, i) == One(d[File!File01] = i) + One(d[File!File02] = i)
LinkCounts == \A i \in File!Inodes : inode[i].links = NameCount(directory, i)

NoWriteLockShared ==
  \A l, m \in recordLocks : l.owner # m.owner /\ l.in = m.in => l.kind = "read" /\ m.kind = "read"

\* Where no tool empties or removes files the name stays, files only grow, and a
\* record that is gone was overwritten by a write at an offset found before.
NobodyRemoves == \A u \in Users : tool[u] \notin Removers
Stands(w) ==
  \/ inode[w.in].data[w.at] = <<w.by, tool[w.by]>>
  \/ \E v \in written : v # w /\ v.in = w.in /\ v.at = w.at /\ tool[v.by] = "location"
FilesOnlyGrow ==
  NobodyRemoves =>
    /\ directory[File!File01] # File!None
    /\ \A w \in written : w.at <= Len(inode[w.in].data) /\ Stands(w)

FileInv ==
  FileTypes /\ FileScripts /\ Opened /\ LinkCounts /\ NoWriteLockShared /\ FilesOnlyGrow

LEMMA FileTools ==
    DOMAIN File!FilePrograms =
      {"creat", "read", "append", "location", "stat", "lock", "map", "touch", "none"}
  BY DEF File!FilePrograms

\* Every program of the two files is a sequence of such calls.
LEMMA FileSteps ==
    /\ {File!Truncates, File!OpenAnyhow, File!Creat02, File!ReadToEnd, File!Write,
        File!SeekPastEnd, File!Close, File!Fstat, File!Stat, File!Link, File!MapAndPrint}
         \subseteq FileStepSet
    /\ \A how \in {"exists", "append", "create"} : File!OpenOrQuit(how) \in FileStepSet
    /\ \A name \in File!Names : File!Unlink(name) \in FileStepSet
    /\ \A kind \in {"read", "write", "none"} : File!SetLock(kind) \in FileStepSet
  BY DEF FileStepSet, FileOps, File!Names, File!File01, File!File02, File!Step,
         File!Truncates, File!OpenAnyhow, File!Creat02, File!ReadToEnd, File!Write,
         File!SeekPastEnd, File!Close, File!Fstat, File!Stat, File!Link, File!MapAndPrint,
         File!OpenOrQuit, File!Unlink, File!SetLock

\* What the programs are like (IO_File_creat-open-read-close.cpp:75-578,
\* IO_File_stat.cpp:107-151): what uses a descriptor comes after what opened it.
LEMMA FileRules ==
    ASSUME NEW name \in DOMAIN File!FilePrograms
    PROVE  LET S == File!FilePrograms[name] IN
           /\ S \in Seq(FileStepSet) /\ CallRules(name, S)
           /\ S # <<>> => Head(S).op \notin Uses
<1>1. CASE name = "creat"
  <2>1. File!FilePrograms[name] = File!file_creat_close
    BY <1>1 DEF File!FilePrograms
  <2>2. File!file_creat_close \in Seq(FileStepSet)
    BY FileSteps DEF File!file_creat_close, File!Names
  <2>3. /\ CallFits(name, File!Truncates)
       /\ CallFits(name, File!Creat02)
       /\ CallFits(name, File!Close)
    BY <1>1 DEF CallFits, Removers, Recorders, File!Names, File!File01, File!File02, File!Step,
              File!Truncates, File!Creat02, File!Close
  <2>4. /\ PairFits(name, File!Truncates, File!Creat02)
       /\ PairFits(name, File!Creat02, File!Close)
    BY <1>1 DEF PairFits, Uses, LeavesOpen, File!Step,
              File!Truncates, File!Creat02, File!Close, File!OpenOrQuit
  <2>5. File!Truncates.op \notin Uses
    BY DEF Uses, File!Step, File!Truncates
  <2>6. CallRules(name, File!file_creat_close) /\ Head(File!file_creat_close) = File!Truncates
    BY <2>3, <2>4 DEF CallRules, File!file_creat_close
  <2>. QED
    BY <2>1, <2>2, <2>5, <2>6
<1>2. CASE name = "read"
  <2>1. File!FilePrograms[name] = File!file_open_read
    BY <1>2 DEF File!FilePrograms
  <2>2. File!file_open_read \in Seq(FileStepSet)
    BY FileSteps DEF File!file_open_read, File!Names
  <2>3. /\ CallFits(name, File!OpenOrQuit("exists"))
       /\ CallFits(name, File!ReadToEnd)
       /\ CallFits(name, File!Close)
    BY <1>2 DEF CallFits, Removers, Recorders, File!Names, File!File01, File!File02, File!Step,
              File!OpenOrQuit, File!ReadToEnd, File!Close
  <2>4. /\ PairFits(name, File!OpenOrQuit("exists"), File!ReadToEnd)
       /\ PairFits(name, File!ReadToEnd, File!Close)
    BY <1>2 DEF PairFits, Uses, LeavesOpen, File!Step,
              File!OpenOrQuit, File!ReadToEnd, File!Close
  <2>5. File!OpenOrQuit("exists").op \notin Uses
    BY DEF Uses, File!Step, File!OpenOrQuit
  <2>6. CallRules(name, File!file_open_read) /\ Head(File!file_open_read) = File!OpenOrQuit("exists")
    BY <2>3, <2>4 DEF CallRules, File!file_open_read
  <2>. QED
    BY <2>1, <2>2, <2>5, <2>6
<1>3. CASE name = "append"
  <2>1. File!FilePrograms[name] = File!file_open_write
    BY <1>3 DEF File!FilePrograms
  <2>2. File!file_open_write \in Seq(FileStepSet)
    BY FileSteps DEF File!file_open_write, File!Names
  <2>3. /\ CallFits(name, File!OpenOrQuit("append"))
       /\ CallFits(name, File!Write)
       /\ CallFits(name, File!Close)
    BY <1>3 DEF CallFits, Removers, Recorders, File!Names, File!File01, File!File02, File!Step,
              File!OpenOrQuit, File!Write, File!Close
  <2>4. /\ PairFits(name, File!OpenOrQuit("append"), File!Write)
       /\ PairFits(name, File!Write, File!Close)
    BY <1>3 DEF PairFits, Uses, LeavesOpen, File!Step,
              File!OpenOrQuit, File!Write, File!Close
  <2>5. File!OpenOrQuit("append").op \notin Uses
    BY DEF Uses, File!Step, File!OpenOrQuit
  <2>6. CallRules(name, File!file_open_write) /\ Head(File!file_open_write) = File!OpenOrQuit("append")
    BY <2>3, <2>4 DEF CallRules, File!file_open_write
  <2>. QED
    BY <2>1, <2>2, <2>5, <2>6
<1>4. CASE name = "location"
  <2>1. File!FilePrograms[name] = File!file_location_write
    BY <1>4 DEF File!FilePrograms
  <2>2. File!file_location_write \in Seq(FileStepSet)
    BY FileSteps DEF File!file_location_write, File!Names
  <2>3. /\ CallFits(name, File!OpenOrQuit("exists"))
       /\ CallFits(name, File!SeekPastEnd)
       /\ CallFits(name, File!Write)
       /\ CallFits(name, File!Close)
    BY <1>4 DEF CallFits, Removers, Recorders, File!Names, File!File01, File!File02, File!Step,
              File!OpenOrQuit, File!SeekPastEnd, File!Write, File!Close
  <2>4. /\ PairFits(name, File!OpenOrQuit("exists"), File!SeekPastEnd)
       /\ PairFits(name, File!SeekPastEnd, File!Write)
       /\ PairFits(name, File!Write, File!Close)
    BY <1>4 DEF PairFits, Uses, LeavesOpen, File!Step,
              File!OpenOrQuit, File!SeekPastEnd, File!Write, File!Close
  <2>5. File!OpenOrQuit("exists").op \notin Uses
    BY DEF Uses, File!Step, File!OpenOrQuit
  <2>6. CallRules(name, File!file_location_write) /\ Head(File!file_location_write) = File!OpenOrQuit("exists")
    BY <2>3, <2>4 DEF CallRules, File!file_location_write
  <2>. QED
    BY <2>1, <2>2, <2>5, <2>6
<1>5. CASE name = "stat"
  <2>1. File!FilePrograms[name] = File!file_stat
    BY <1>5 DEF File!FilePrograms
  <2>2. File!file_stat \in Seq(FileStepSet)
    BY FileSteps DEF File!file_stat, File!Names
  <2>3. /\ CallFits(name, File!Stat)
    BY <1>5 DEF CallFits, Removers, Recorders, File!Names, File!File01, File!File02, File!Step,
              File!Stat
  <2>4. File!Stat.op \notin Uses
    BY DEF Uses, File!Step, File!Stat
  <2>5. CallRules(name, File!file_stat) /\ Head(File!file_stat) = File!Stat
    BY <2>3 DEF CallRules, File!file_stat
  <2>. QED
    BY <2>1, <2>2, <2>4, <2>5
<1>6. CASE name = "lock"
  <2>1. File!FilePrograms[name] = File!file_lock
    BY <1>6 DEF File!FilePrograms
  <2>2. File!file_lock \in Seq(FileStepSet)
    BY FileSteps DEF File!file_lock, File!Names
  <2>3. /\ CallFits(name, File!OpenOrQuit("create"))
       /\ CallFits(name, File!SetLock("write"))
       /\ CallFits(name, File!SetLock("none"))
       /\ CallFits(name, File!SetLock("read"))
       /\ CallFits(name, File!Close)
    BY <1>6 DEF CallFits, Removers, Recorders, File!Names, File!File01, File!File02, File!Step,
              File!OpenOrQuit, File!SetLock, File!Close
  <2>4. /\ PairFits(name, File!OpenOrQuit("create"), File!SetLock("write"))
       /\ PairFits(name, File!SetLock("write"), File!SetLock("none"))
       /\ PairFits(name, File!SetLock("none"), File!SetLock("read"))
       /\ PairFits(name, File!SetLock("read"), File!SetLock("none"))
       /\ PairFits(name, File!SetLock("none"), File!Close)
    BY <1>6 DEF PairFits, Uses, LeavesOpen, File!Step,
              File!OpenOrQuit, File!SetLock, File!Close
  <2>5. File!OpenOrQuit("create").op \notin Uses
    BY DEF Uses, File!Step, File!OpenOrQuit
  <2>6. CallRules(name, File!file_lock) /\ Head(File!file_lock) = File!OpenOrQuit("create")
    BY <2>3, <2>4 DEF CallRules, File!file_lock
  <2>. QED
    BY <2>1, <2>2, <2>5, <2>6
<1>7. CASE name = "map"
  <2>1. File!FilePrograms[name] = File!file_map
    BY <1>7 DEF File!FilePrograms
  <2>2. File!file_map \in Seq(FileStepSet)
    BY FileSteps DEF File!file_map, File!Names
  <2>3. /\ CallFits(name, File!OpenOrQuit("create"))
       /\ CallFits(name, File!SeekPastEnd)
       /\ CallFits(name, File!MapAndPrint)
       /\ CallFits(name, File!Close)
    BY <1>7 DEF CallFits, Removers, Recorders, File!Names, File!File01, File!File02, File!Step,
              File!OpenOrQuit, File!SeekPastEnd, File!MapAndPrint, File!Close
  <2>4. /\ PairFits(name, File!OpenOrQuit("create"), File!SeekPastEnd)
       /\ PairFits(name, File!SeekPastEnd, File!MapAndPrint)
       /\ PairFits(name, File!MapAndPrint, File!Close)
    BY <1>7 DEF PairFits, Uses, LeavesOpen, File!Step,
              File!OpenOrQuit, File!SeekPastEnd, File!MapAndPrint, File!Close
  <2>5. File!OpenOrQuit("create").op \notin Uses
    BY DEF Uses, File!Step, File!OpenOrQuit
  <2>6. CallRules(name, File!file_map) /\ Head(File!file_map) = File!OpenOrQuit("create")
    BY <2>3, <2>4 DEF CallRules, File!file_map
  <2>. QED
    BY <2>1, <2>2, <2>5, <2>6
<1>8. CASE name = "touch"
  <2>1. File!FilePrograms[name] = File!file_touch_rm
    BY <1>8 DEF File!FilePrograms
  <2>2. File!file_touch_rm \in Seq(FileStepSet)
    BY FileSteps DEF File!file_touch_rm, File!Names
  <2>3. /\ CallFits(name, File!Truncates)
       /\ CallFits(name, File!Fstat)
       /\ CallFits(name, File!Close)
       /\ CallFits(name, File!Stat)
       /\ CallFits(name, File!Link)
       /\ CallFits(name, File!Unlink(File!File02))
       /\ CallFits(name, File!OpenAnyhow)
       /\ CallFits(name, File!Unlink(File!File01))
    BY <1>8 DEF CallFits, Removers, Recorders, File!Names, File!File01, File!File02, File!Step,
              File!Truncates, File!Fstat, File!Close, File!Stat, File!Link, File!Unlink,
              File!OpenAnyhow
  <2>4. /\ PairFits(name, File!Truncates, File!Fstat)
       /\ PairFits(name, File!Fstat, File!Close)
       /\ PairFits(name, File!Close, File!Stat)
       /\ PairFits(name, File!Stat, File!Link)
       /\ PairFits(name, File!Link, File!Stat)
       /\ PairFits(name, File!Stat, File!Unlink(File!File02))
       /\ PairFits(name, File!Unlink(File!File02), File!Stat)
       /\ PairFits(name, File!Stat, File!OpenAnyhow)
       /\ PairFits(name, File!OpenAnyhow, File!Fstat)
       /\ PairFits(name, File!Fstat, File!Unlink(File!File01))
       /\ PairFits(name, File!Unlink(File!File01), File!Fstat)
    BY <1>8 DEF PairFits, Uses, LeavesOpen, File!Step,
              File!Truncates, File!Fstat, File!Close, File!Stat, File!Link, File!Unlink,
              File!OpenAnyhow, File!OpenOrQuit
  <2>5. File!Truncates.op \notin Uses
    BY DEF Uses, File!Step, File!Truncates
  <2>6. CallRules(name, File!file_touch_rm) /\ Head(File!file_touch_rm) = File!Truncates
    BY <2>3, <2>4 DEF CallRules, File!file_touch_rm
  <2>. QED
    BY <2>1, <2>2, <2>5, <2>6
<1>9. CASE name = "none"
  <2>1. File!FilePrograms[name] = <<>>
    BY <1>9 DEF File!FilePrograms
  <2>. QED
    BY <2>1 DEF CallRules
<1>. QED
  BY <1>1, <1>2, <1>3, <1>4, <1>5, <1>6, <1>7, <1>8, <1>9, FileTools

\* They are so of what is left after one of its calls.
LEMMA RulesGoOn ==
    ASSUME NEW name, NEW S \in Seq(FileStepSet), S # <<>>, CallRules(name, S)
    PROVE  /\ Tail(S) \in Seq(FileStepSet) /\ CallRules(name, Tail(S))
           /\ Tail(S) # <<>> => PairFits(name, Head(S), Head(Tail(S)))
<1>1. /\ Tail(S) \in Seq(FileStepSet) /\ Len(Tail(S)) = Len(S) - 1 /\ Len(S) \in Nat \ {0}
      /\ \A k \in 1 .. Len(S) - 1 : Tail(S)[k] = S[k + 1]
  OBVIOUS
<1>2. \A k \in 1 .. Len(Tail(S)) : CallFits(name, Tail(S)[k])
  BY <1>1 DEF CallRules
<1>3. \A k \in 1 .. Len(Tail(S)) - 1 : PairFits(name, Tail(S)[k], Tail(S)[k + 1])
  BY <1>1 DEF CallRules
<1>4. ASSUME Tail(S) # <<>> PROVE PairFits(name, Head(S), Head(Tail(S)))
  <2>1. 1 \in 1 .. Len(S) - 1 /\ Head(Tail(S)) = S[1 + 1] /\ Head(S) = S[1]
    BY <1>1, <1>4
  <2>. QED
    BY <2>1 DEF CallRules
<1>. QED
  BY <1>1, <1>2, <1>3, <1>4 DEF CallRules

\* What the next call of a tool is like.
LEMMA NextCall ==
    ASSUME FileInv, NEW u \in Users, todo[u] # <<>>
    PROVE  Head(todo[u]) \in FileStepSet /\ CallFits(tool[u], Head(todo[u]))
<1>1. todo[u] \in Seq(FileStepSet) /\ CallRules(tool[u], todo[u])
  BY DEF FileInv, FileTypes, FileScripts
<1>2. 1 \in 1 .. Len(todo[u]) /\ Head(todo[u]) = todo[u][1] /\ todo[u][1] \in FileStepSet
  BY <1>1
<1>. QED
  BY <1>1, <1>2 DEF CallRules

\* A tool that goes on has open what its next call uses.
LEMMA FileAdvanced ==
    ASSUME FileInv, NEW u \in Users, fate[u] = "runs", todo[u] # <<>>, File!Advance(u),
           UNCHANGED <<tool, fate>>,
           fd' \in [Users -> [inode : File!Inodes \cup {File!None}, offset : Nat, append : BOOLEAN]],
           \A v \in Users : v # u => fd'[v] = fd[v],
           Head(todo[u]).op \in LeavesOpen => fd'[u].inode \in File!Inodes,
           Head(todo[u]) = File!OpenOrQuit("append") => fd'[u].append
    PROVE  todo' \in [Users -> Seq(FileStepSet)] /\ FileScripts' /\ Opened'
<1>1. /\ todo \in [Users -> Seq(FileStepSet)] /\ FileScripts /\ Opened
  BY DEF FileInv, FileTypes
<1>2. /\ Tail(todo[u]) \in Seq(FileStepSet) /\ CallRules(tool[u], Tail(todo[u]))
      /\ Tail(todo[u]) # <<>> => PairFits(tool[u], Head(todo[u]), Head(Tail(todo[u])))
  BY <1>1, RulesGoOn DEF FileScripts
<1>3. todo' = [todo EXCEPT ![u] = Tail(todo[u])]
  BY DEF File!Advance
<1>4. todo' \in [Users -> Seq(FileStepSet)]
  BY <1>1, <1>2, <1>3
<1>5. \A v \in Users : todo'[v] = IF v = u THEN Tail(todo[u]) ELSE todo[v]
  BY <1>1, <1>3
<1>6. FileScripts'
  BY <1>1, <1>2, <1>5 DEF FileScripts
<1>7. Opened'
  <2>1. SUFFICES ASSUME NEW v \in Users, fate[v] = "runs", todo'[v] # <<>>
                 PROVE  /\ Head(todo'[v]).op \in Uses => fd'[v].inode \in File!Inodes
                        /\ tool[v] = "append" /\ Head(todo'[v]).op = "write" => fd'[v].append
    BY DEF Opened, File!Inodes
  <2>2. CASE v = u
    BY <1>2, <1>5, <2>1, <2>2 DEF PairFits
  <2>3. CASE v # u
    BY <1>1, <1>5, <2>1, <2>3 DEF Opened
  <2>. QED
    BY <2>2, <2>3
<1>. QED
  BY <1>4, <1>6, <1>7

\* A tool that ends does nothing more.
LEMMA FileEnded ==
    ASSUME FileInv, NEW u \in Users, NEW how \in {"quit", "SIGBUS", "ended"}, File!Dies(u, how),
           UNCHANGED <<tool, todo, directory, inode, seen, written>>
    PROVE  FileInv'
<1>1. FileTypes
  BY DEF FileInv
<1>2. /\ fate' = [fate EXCEPT ![u] = how] /\ fd' = [fd EXCEPT ![u] = File!NoFd]
      /\ recordLocks' \subseteq recordLocks
  BY DEF File!Dies, File!Ends, File!Unlocked
<1>3. File!NoFd \in [inode : File!Inodes \cup {File!None}, offset : Nat, append : BOOLEAN]
  BY DEF File!NoFd
<1>4. FileTypes'
  BY <1>1, <1>2, <1>3 DEF FileTypes, File!Inodes, File!Cells
<1>5. FileScripts'
  BY DEF FileInv, FileScripts
<1>6. Opened'
  <2>1. \A v \in Users : v # u => fate'[v] = fate[v] /\ fd'[v] = fd[v]
    BY <1>1, <1>2 DEF FileTypes
  <2>2. fate'[u] # "runs"
    BY <1>1, <1>2 DEF FileTypes
  <2>3. Opened
    BY DEF FileInv
  <2>. QED
    BY <2>1, <2>2, <2>3 DEF Opened, File!Inodes
<1>7. LinkCounts'
  BY DEF FileInv, LinkCounts, NameCount, File!Inodes
<1>8. NoWriteLockShared'
  BY <1>2 DEF FileInv, NoWriteLockShared
<1>9. FilesOnlyGrow'
  BY DEF FileInv, FilesOnlyGrow, NobodyRemoves, Stands
<1>. QED
  BY <1>4, <1>5, <1>6, <1>7, <1>8, <1>9 DEF FileInv

\* A call that changes no file.
LEMMA FilesSame ==
    ASSUME FileInv, NEW u \in Users, fate[u] = "runs", todo[u] # <<>>, File!Advance(u),
           UNCHANGED <<tool, fate, directory, inode, written>>,
           fd' \in [Users -> [inode : File!Inodes \cup {File!None}, offset : Nat, append : BOOLEAN]],
           \A v \in Users : v # u => fd'[v] = fd[v],
           Head(todo[u]).op \in LeavesOpen => fd'[u].inode \in File!Inodes,
           Head(todo[u]) = File!OpenOrQuit("append") => fd'[u].append,
           recordLocks' \subseteq [owner : Users, in : File!Inodes, kind : {"read", "write"}],
           NoWriteLockShared',
           seen' \in [Users -> Nat]
    PROVE  FileInv'
<1>1. todo' \in [Users -> Seq(FileStepSet)] /\ FileScripts' /\ Opened'
  BY FileAdvanced
<1>2. FileTypes'
  BY <1>1 DEF FileInv, FileTypes, File!Inodes, File!Cells
<1>3. LinkCounts'
  BY DEF FileInv, LinkCounts, NameCount, File!Inodes
<1>4. FilesOnlyGrow'
  BY DEF FileInv, FilesOnlyGrow, NobodyRemoves, Stands
<1>. QED
  BY <1>1, <1>2, <1>3, <1>4 DEF FileInv

\* What a call that uses the descriptor finds.
LEMMA InUse ==
    ASSUME FileInv, NEW u \in Users, NEW op \in Uses, File!Does(u, {op})
    PROVE  /\ fate[u] = "runs" /\ todo[u] # <<>> /\ Head(todo[u]).op = op
           /\ fd[u].inode \in File!Inodes
           /\ inode[fd[u].inode].data \in Seq(File!Cells)
           /\ Head(todo[u]) # File!OpenOrQuit("append")
<1>1. fate[u] = "runs" /\ todo[u] # <<>> /\ Head(todo[u]).op = op
  BY DEF File!Does
<1>2. fd[u].inode \in File!Inodes
  BY <1>1 DEF FileInv, Opened
<1>3. inode[fd[u].inode].data \in Seq(File!Cells)
  BY <1>2 DEF FileInv, FileTypes
<1>4. File!OpenOrQuit("append").op = "open"
  BY DEF File!OpenOrQuit, File!Step
<1>. QED
  BY <1>1, <1>2, <1>3, <1>4 DEF Uses

LEMMA ReadFileStep == ASSUME FileInv, NEW u \in Users, File!ReadFile(u) PROVE FileInv'
<1>1. /\ fate[u] = "runs" /\ todo[u] # <<>> /\ Head(todo[u]).op = "read"
      /\ fd[u].inode \in File!Inodes /\ inode[fd[u].inode].data \in Seq(File!Cells)
      /\ Head(todo[u]) # File!OpenOrQuit("append")
  BY InUse DEF File!ReadFile, Uses
<1>2. /\ File!Advance(u) /\ UNCHANGED <<tool, fate, directory, inode, fd, recordLocks, written>>
      /\ seen' = [seen EXCEPT ![u] = Len(inode[fd[u].inode].data)]
  BY DEF File!ReadFile
<1>3. Len(inode[fd[u].inode].data) \in Nat
  BY <1>1
<1>4. seen' \in [Users -> Nat]
  BY <1>2, <1>3 DEF FileInv, FileTypes
<1>5. NoWriteLockShared'
  BY <1>2 DEF FileInv, NoWriteLockShared
<1>6. /\ fd' \in [Users -> [inode : File!Inodes \cup {File!None}, offset : Nat, append : BOOLEAN]]
      /\ recordLocks' \subseteq [owner : Users, in : File!Inodes, kind : {"read", "write"}]
  BY <1>2 DEF FileInv, FileTypes
<1>. QED
  BY <1>1, <1>2, <1>4, <1>5, <1>6, FilesSame

LEMMA SeekFileStep == ASSUME FileInv, NEW u \in Users, File!SeekFile(u) PROVE FileInv'
<1>1. /\ fate[u] = "runs" /\ todo[u] # <<>> /\ Head(todo[u]).op = "seek"
      /\ fd[u].inode \in File!Inodes /\ inode[fd[u].inode].data \in Seq(File!Cells)
      /\ Head(todo[u]) # File!OpenOrQuit("append")
  BY InUse DEF File!SeekFile, Uses
<1>2. /\ File!Advance(u) /\ UNCHANGED <<tool, fate, directory, inode, recordLocks, seen, written>>
      /\ fd' = [fd EXCEPT ![u].offset = Len(inode[fd[u].inode].data) + 1]
  BY DEF File!SeekFile
<1>3. Len(inode[fd[u].inode].data) + 1 \in Nat
  BY <1>1
<1>4. fd \in [Users -> [inode : File!Inodes \cup {File!None}, offset : Nat, append : BOOLEAN]]
  BY DEF FileInv, FileTypes
<1>5. /\ fd' \in [Users -> [inode : File!Inodes \cup {File!None}, offset : Nat, append : BOOLEAN]]
      /\ \A v \in Users : v # u => fd'[v] = fd[v]
      /\ fd'[u].inode = fd[u].inode
  BY <1>2, <1>3, <1>4
<1>6. NoWriteLockShared'
  BY <1>2 DEF FileInv, NoWriteLockShared
<1>7. /\ recordLocks' \subseteq [owner : Users, in : File!Inodes, kind : {"read", "write"}]
      /\ seen' \in [Users -> Nat]
  BY <1>2 DEF FileInv, FileTypes
<1>. QED
  BY <1>1, <1>2, <1>5, <1>6, <1>7, FilesSame

LEMMA CloseFileStep == ASSUME FileInv, NEW u \in Users, File!CloseFile(u) PROVE FileInv'
<1>1. /\ fate[u] = "runs" /\ todo[u] # <<>> /\ Head(todo[u]).op = "close"
      /\ File!Advance(u) /\ UNCHANGED <<tool, fate, directory, inode, seen, written>>
      /\ fd' = [fd EXCEPT ![u] = File!NoFd] /\ recordLocks' \subseteq recordLocks
  BY DEF File!CloseFile, File!Does, File!Unlocked
<1>2. Head(todo[u]).op \notin LeavesOpen /\ Head(todo[u]) # File!OpenOrQuit("append")
  <2>1. File!OpenOrQuit("append").op = "open"
    BY DEF File!OpenOrQuit, File!Step
  <2>. QED
    BY <1>1, <2>1 DEF LeavesOpen
<1>3. fd \in [Users -> [inode : File!Inodes \cup {File!None}, offset : Nat, append : BOOLEAN]]
  BY DEF FileInv, FileTypes
<1>4. File!NoFd \in [inode : File!Inodes \cup {File!None}, offset : Nat, append : BOOLEAN]
  BY DEF File!NoFd
<1>5. /\ fd' \in [Users -> [inode : File!Inodes \cup {File!None}, offset : Nat, append : BOOLEAN]]
      /\ \A v \in Users : v # u => fd'[v] = fd[v]
  BY <1>1, <1>3, <1>4
<1>6. NoWriteLockShared'
  BY <1>1 DEF FileInv, NoWriteLockShared
<1>7. /\ recordLocks' \subseteq [owner : Users, in : File!Inodes, kind : {"read", "write"}]
      /\ seen' \in [Users -> Nat]
  BY <1>1 DEF FileInv, FileTypes
<1>. QED
  BY <1>1, <1>2, <1>5, <1>6, <1>7, FilesSame

LEMMA StatFileStep == ASSUME FileInv, NEW u \in Users, File!StatFile(u) PROVE FileInv'
<1>1. /\ fate[u] = "runs" /\ todo[u] # <<>> /\ Head(todo[u]).op \in {"stat", "fstat"}
      /\ File!Advance(u) /\ UNCHANGED <<tool, fate, directory, inode, fd, recordLocks, written>>
  BY DEF File!StatFile, File!Does
<1>2. Head(todo[u]).op \notin LeavesOpen /\ Head(todo[u]) # File!OpenOrQuit("append")
  <2>1. File!OpenOrQuit("append").op = "open"
    BY DEF File!OpenOrQuit, File!Step
  <2>. QED
    BY <1>1, <2>1 DEF LeavesOpen
<1>3. /\ fd' \in [Users -> [inode : File!Inodes \cup {File!None}, offset : Nat, append : BOOLEAN]]
      /\ recordLocks' \subseteq [owner : Users, in : File!Inodes, kind : {"read", "write"}]
      /\ NoWriteLockShared'
  BY <1>1 DEF FileInv, FileTypes, NoWriteLockShared
<1>4. seen' \in [Users -> Nat]
  <2>. DEFINE i == IF File!Does(u, {"stat"}) THEN directory[File!On(u)] ELSE fd[u].inode
  <2>1. seen' = IF i = File!None THEN seen ELSE [seen EXCEPT ![u] = inode[i].links]
    BY DEF File!StatFile
  <2>2. i \in File!Inodes \cup {File!None}
    <3>1. CASE File!Does(u, {"stat"})
      <4>1. Head(todo[u]).op = "stat" /\ CallFits(tool[u], Head(todo[u]))
        BY <1>1, <3>1, NextCall DEF File!Does
      <4>2. File!On(u) \in File!Names
        BY <4>1 DEF CallFits, File!On
      <4>. QED
        BY <3>1, <4>2 DEF FileInv, FileTypes
    <3>2. CASE ~File!Does(u, {"stat"})
      BY <3>2 DEF FileInv, FileTypes
    <3>. QED
      BY <3>1, <3>2
  <2>. HIDE DEF i
  <2>3. \A j \in File!Inodes : inode[j].links \in 0 .. 2
    BY DEF FileInv, FileTypes
  <2>4. seen \in [Users -> Nat]
    BY DEF FileInv, FileTypes
  <2>. QED
    BY <2>1, <2>2, <2>3, <2>4
<1>. QED
  BY <1>1, <1>2, <1>3, <1>4, FilesSame

LEMMA FileLockStep == ASSUME FileInv, NEW u \in Users, File!file_lock_set(u) PROVE FileInv'
<1>1. /\ fate[u] = "runs" /\ todo[u] # <<>> /\ Head(todo[u]).op = "set_lock"
      /\ fd[u].inode \in File!Inodes /\ Head(todo[u]) # File!OpenOrQuit("append")
  BY InUse DEF File!file_lock_set, Uses
<1>2. File!Advance(u) /\ UNCHANGED <<tool, fate, directory, inode, fd, written>>
  BY DEF File!file_lock_set
<1>3. File!How(u) \in {"write", "read", "none"}
  BY <1>1, NextCall DEF CallFits, File!How
<1>. DEFINE i == fd[u].inode
            others == {l \in recordLocks : l.owner # u /\ l.in = i}
            Refused == \E l \in others :
                         (File!How(u) = "write" \/ l.kind = "write") /\ File!How(u) # "none"
            mine == [owner |-> u, in |-> i, kind |-> File!How(u)]
<1>4. IF Refused THEN seen' = [seen EXCEPT ![u] = 2] /\ UNCHANGED recordLocks
      ELSE /\ recordLocks' = File!Unlocked(u) \cup (IF File!How(u) = "none" THEN {} ELSE {mine})
           /\ seen' = [seen EXCEPT ![u] = 1]
  BY DEF File!file_lock_set
<1>5. seen' \in [Users -> Nat]
  <2>. HIDE DEF Refused
  <2>1. seen' = [seen EXCEPT ![u] = 2] \/ seen' = [seen EXCEPT ![u] = 1]
    BY <1>4
  <2>2. seen \in [Users -> Nat]
    BY DEF FileInv, FileTypes
  <2>. QED
    BY <2>1, <2>2
<1>6. recordLocks \subseteq [owner : Users, in : File!Inodes, kind : {"read", "write"}]
  BY DEF FileInv, FileTypes
<1>7. File!Unlocked(u) \subseteq recordLocks /\ \A l \in File!Unlocked(u) : l.owner # u
  BY DEF File!Unlocked
<1>8. File!How(u) # "none" => mine \in [owner : Users, in : File!Inodes, kind : {"read", "write"}]
  BY <1>1, <1>3
<1>9. recordLocks' \subseteq [owner : Users, in : File!Inodes, kind : {"read", "write"}]
  BY <1>4, <1>6, <1>7, <1>8
<1>10. NoWriteLockShared'
  <2>1. NoWriteLockShared
    BY DEF FileInv
  <2>2. CASE Refused
    BY <1>4, <2>1, <2>2 DEF NoWriteLockShared
  <2>3. CASE ~Refused
    <3>1. SUFFICES ASSUME NEW l \in recordLocks', NEW m \in recordLocks', l.owner # m.owner, l.in = m.in
                   PROVE  l.kind = "read" /\ m.kind = "read"
      BY DEF NoWriteLockShared
    <3>2. \A n \in recordLocks' : n \in File!Unlocked(u) \/ (n = mine /\ File!How(u) # "none")
      <4>. HIDE DEF Refused, mine
      <4>1. recordLocks' = File!Unlocked(u) \cup (IF File!How(u) = "none" THEN {} ELSE {mine})
        BY <1>4, <2>3
      <4>. QED
        BY <4>1
    <3>3. mine.owner = u /\ mine.in = i /\ mine.kind = File!How(u)
      OBVIOUS
    <3>. HIDE DEF mine
    <3>4. \A n \in File!Unlocked(u) :
            n.in = i /\ File!How(u) # "none" => n.kind # "write" /\ File!How(u) # "write"
      BY <1>7, <2>3
    <3>. HIDE DEF i, Refused
    <3>5. \A n \in File!Unlocked(u) : n.kind \in {"read", "write"}
      BY <1>6, <1>7
    <3>6. CASE l \in File!Unlocked(u) /\ m \in File!Unlocked(u)
      BY <1>7, <2>1, <3>1, <3>6 DEF NoWriteLockShared
    <3>7. CASE l = mine \/ m = mine
      BY <1>3, <3>1, <3>2, <3>3, <3>4, <3>5, <3>7
    <3>. QED
      BY <3>2, <3>6, <3>7
  <2>. QED
    BY <2>2, <2>3
<1>11. fd \in [Users -> [inode : File!Inodes \cup {File!None}, offset : Nat, append : BOOLEAN]]
  BY DEF FileInv, FileTypes
<1>. QED
  BY <1>1, <1>2, <1>5, <1>9, <1>10, <1>11, FilesSame

LEMMA MapFileStep == ASSUME FileInv, NEW u \in Users, File!MapFile(u) PROVE FileInv'
<1>1. CASE File!Dies(u, "SIGBUS") /\ UNCHANGED todo
  BY <1>1, FileEnded DEF File!MapFile
<1>2. CASE File!Advance(u) /\ UNCHANGED <<fate, fd, recordLocks>>
  <2>1. /\ fate[u] = "runs" /\ todo[u] # <<>> /\ Head(todo[u]).op = "map"
        /\ Head(todo[u]) # File!OpenOrQuit("append")
    BY InUse DEF File!MapFile, Uses
  <2>2. UNCHANGED <<tool, directory, inode, seen, written>>
    BY DEF File!MapFile
  <2>3. NoWriteLockShared'
    BY <1>2 DEF FileInv, NoWriteLockShared
  <2>4. /\ fd' \in [Users -> [inode : File!Inodes \cup {File!None}, offset : Nat, append : BOOLEAN]]
        /\ recordLocks' \subseteq [owner : Users, in : File!Inodes, kind : {"read", "write"}]
        /\ seen' \in [Users -> Nat]
    BY <1>2, <2>2 DEF FileInv, FileTypes
  <2>5. Head(todo[u]).op \notin LeavesOpen
    BY <2>1 DEF LeavesOpen
  <2>. QED
    BY <1>2, <2>1, <2>2, <2>3, <2>4, <2>5, FilesSame
<1>. QED
  BY <1>1, <1>2 DEF File!MapFile

LEMMA ExitFileStep == ASSUME FileInv, NEW u \in Users, File!Exit(u) PROVE FileInv'
  BY FileEnded DEF File!Exit

\* What write does to the data of a file.
LEMMA WriteAtKeeps ==
    ASSUME NEW s \in Seq(File!Cells), NEW k \in Nat, NEW x \in File!Cells
    PROVE  LET t == File!WriteAt(s, k, x) IN
           /\ t \in Seq(File!Cells) /\ Len(s) <= Len(t) /\ k + 1 <= Len(t) /\ t[k + 1] = x
           /\ \A j \in 1 .. Len(s) : j # k + 1 => t[j] = s[j]
<1>. DEFINE n == IF k >= Len(s) THEN k + 1 ELSE Len(s)
            t == File!WriteAt(s, k, x)
            cell(j) == IF j = k + 1 THEN x ELSE IF j <= Len(s) THEN s[j] ELSE File!Hole
<1>1. n \in Nat /\ Len(s) <= n /\ k + 1 <= n /\ Len(s) \in Nat
  OBVIOUS
<1>2. t = [j \in 1 .. n |-> cell(j)]
  BY DEF File!WriteAt
<1>3. \A j \in 1 .. n : cell(j) \in File!Cells
  <2>1. File!Hole \in File!Cells
    BY DEF File!Cells
  <2>. HIDE DEF n
  <2>. QED
    BY <1>1, <2>1
<1>. HIDE DEF n, t, cell
<1>4. t \in Seq(File!Cells) /\ Len(t) = n
  BY <1>1, <1>2, <1>3
<1>5. t[k + 1] = x
  BY <1>1, <1>2 DEF cell
<1>6. ASSUME NEW j \in 1 .. Len(s), j # k + 1 PROVE t[j] = s[j]
  BY <1>1, <1>2, <1>6 DEF cell
<1>. QED
  BY <1>1, <1>4, <1>5, <1>6 DEF t

\* A record that stands is where it was written, or was overwritten since.
LEMMA WriteFileStep == ASSUME FileInv, NEW u \in Users, File!WriteFile(u) PROVE FileInv'
<1>. DEFINE i == fd[u].inode
            k == IF fd[u].append THEN Len(inode[i].data) ELSE fd[u].offset
            x == <<u, tool[u]>>
<1>1. /\ fate[u] = "runs" /\ todo[u] # <<>> /\ Head(todo[u]).op = "write"
      /\ i \in File!Inodes /\ inode[i].data \in Seq(File!Cells)
      /\ Head(todo[u]) # File!OpenOrQuit("append")
  BY InUse DEF File!WriteFile, Uses
<1>2. /\ File!Advance(u) /\ UNCHANGED <<tool, fate, directory, fd, recordLocks, seen>>
      /\ inode' = [inode EXCEPT ![i].data = File!WriteAt(@, k, x)]
      /\ written' = written \cup {[by |-> u, in |-> i, at |-> k + 1]}
  BY DEF File!WriteFile
<1>3. /\ FileTypes /\ LinkCounts /\ NoWriteLockShared /\ FilesOnlyGrow
      /\ tool[u] = "append" => fd[u].append
  BY <1>1 DEF FileInv, Opened
<1>4. tool[u] \in {"append", "location"}
  BY <1>1, NextCall DEF CallFits, Recorders
<1>5. k \in Nat /\ x \in File!Cells
  <2>1. fd[u].offset \in Nat /\ fd[u].append \in BOOLEAN
    BY <1>3 DEF FileTypes
  <2>2. Len(inode[i].data) \in Nat
    BY <1>1
  <2>3. tool[u] \in DOMAIN File!FilePrograms
    BY <1>3 DEF FileTypes
  <2>. QED
    BY <2>1, <2>2, <2>3 DEF File!Cells
<1>6. tool[u] = "append" => k = Len(inode[i].data)
  BY <1>3
<1>7. inode \in [File!Inodes -> [data : Seq(File!Cells), links : 0 .. 2, readonly : BOOLEAN]]
  BY <1>3 DEF FileTypes
<1>. DEFINE s == inode[i].data  t == File!WriteAt(s, k, x)
<1>8. /\ t \in Seq(File!Cells) /\ Len(s) <= Len(t) /\ k + 1 <= Len(t) /\ t[k + 1] = x
      /\ \A j \in 1 .. Len(s) : j # k + 1 => t[j] = s[j]
  BY <1>1, <1>5, WriteAtKeeps
<1>9. inode' = [inode EXCEPT ![i].data = t]
  BY <1>2
<1>. HIDE DEF t, k, x
<1>10. /\ inode' \in [File!Inodes -> [data : Seq(File!Cells), links : 0 .. 2, readonly : BOOLEAN]]
       /\ \A j \in File!Inodes :
            /\ inode'[j].links = inode[j].links
            /\ inode'[j].data = IF j = i THEN t ELSE inode[j].data
  BY <1>1, <1>7, <1>8, <1>9
<1>11. PICK new \in [by : Users, in : File!Inodes, at : Nat \ {0}] :
        /\ new = [by |-> u, in |-> i, at |-> k + 1]
        /\ new.by = u /\ new.in = i /\ new.at = k + 1
  <2>1. k + 1 \in Nat \ {0}
    BY <1>5
  <2>2. [by |-> u, in |-> i, at |-> k + 1] \in [by : Users, in : File!Inodes, at : Nat \ {0}]
    BY <1>1, <2>1
  <2>. QED
    BY <2>2
<1>12. todo' \in [Users -> Seq(FileStepSet)] /\ FileScripts' /\ Opened'
  <2>1. fd' \in [Users -> [inode : File!Inodes \cup {File!None}, offset : Nat, append : BOOLEAN]]
    BY <1>2, <1>3 DEF FileTypes
  <2>. QED
    BY <1>1, <1>2, <2>1, FileAdvanced
<1>13. FileTypes'
  <2>1. written' \subseteq [by : Users, in : File!Inodes, at : Nat \ {0}]
    BY <1>2, <1>3, <1>11 DEF FileTypes
  <2>. QED
    BY <1>2, <1>3, <1>10, <1>12, <2>1 DEF FileTypes, File!Inodes, File!Cells
<1>14. LinkCounts'
  BY <1>2, <1>3, <1>10 DEF LinkCounts, NameCount, File!Inodes
<1>15. NoWriteLockShared'
  BY <1>2, <1>3 DEF NoWriteLockShared
<1>16. FilesOnlyGrow'
  <2>1. SUFFICES ASSUME NobodyRemoves
                 PROVE  /\ directory[File!File01] # File!None
                        /\ \A w \in written' : w.at <= Len(inode'[w.in].data) /\ Stands(w)'
    BY <1>2 DEF FilesOnlyGrow, NobodyRemoves
  <2>2. /\ directory[File!File01] # File!None
        /\ \A w \in written : w.at <= Len(inode[w.in].data) /\ Stands(w)
    BY <1>3, <2>1 DEF FilesOnlyGrow
  <2>3. new.at <= Len(inode'[new.in].data) /\ Stands(new)'
    <3>1. inode'[new.in].data = t
      BY <1>1, <1>11, <1>10
    <3>2. inode'[new.in].data[new.at] = <<new.by, tool'[new.by]>>
      BY <1>2, <1>11, <1>8, <3>1 DEF x
    <3>3. Stands(new)'
      BY <3>2 DEF Stands
    <3>. QED
      BY <1>11, <1>8, <3>1, <3>3
  <2>4. ASSUME NEW w \in written, w # new
        PROVE  w.at <= Len(inode'[w.in].data) /\ Stands(w)'
    <3>1. w.in \in File!Inodes /\ w.at \in Nat \ {0}
      BY <1>3 DEF FileTypes
    <3>2. w.at <= Len(inode[w.in].data) /\ Stands(w)
      BY <2>2
    <3>3. CASE w.in # i
      <4>1. inode'[w.in].data = inode[w.in].data
        BY <1>10, <3>1, <3>3
      <4>. QED
        BY <1>2, <3>2, <4>1 DEF Stands
    <3>4. CASE w.in = i /\ w.at # k + 1
      <4>1. inode'[w.in].data = t /\ inode[w.in].data = s
        BY <1>10, <3>1, <3>4
      <4>2. w.at \in 1 .. Len(s) /\ w.at <= Len(t)
        BY <1>1, <1>8, <3>1, <3>2, <4>1
      <4>3. t[w.at] = s[w.at]
        BY <1>8, <3>4, <4>2
      <4>. QED
        BY <1>2, <3>2, <4>1, <4>2, <4>3 DEF Stands
    <3>5. CASE w.in = i /\ w.at = k + 1
      <4>1. inode'[w.in].data = t /\ inode[w.in].data = s
        BY <1>10, <3>1, <3>5
      <4>2. tool[u] # "append"
        BY <1>1, <1>5, <1>6, <3>2, <3>5, <4>1
      <4>3. tool'[new.by] = "location"
        BY <1>2, <1>4, <1>11, <4>2
      <4>4. new \in written' /\ new # w /\ new.in = w.in /\ new.at = w.at
        BY <1>2, <1>11, <2>4, <3>5
      <4>5. Stands(w)'
        BY <4>3, <4>4 DEF Stands
      <4>. QED
        BY <1>8, <3>5, <4>1, <4>5
    <3>. QED
      BY <3>3, <3>4, <3>5
  <2>5. SUFFICES ASSUME NEW w \in written'
                 PROVE  w.at <= Len(inode'[w.in].data) /\ Stands(w)'
    BY <2>2
  <2>6. CASE w = new
    BY <2>3, <2>6 DEF Stands
  <2>7. CASE w # new
    BY <1>2, <1>11, <2>4, <2>7
  <2>. QED
    BY <2>6, <2>7
<1>. QED
  BY <1>12, <1>13, <1>14, <1>15, <1>16 DEF FileInv

\* Inodes are numbers, and none of them is None.
LEMMA InodeNumbers == File!None \notin File!Inodes
  BY DEF File!None, File!Inodes

\* A name that was free is given to an inode.
LEMMA NameGiven ==
    ASSUME NEW d \in [File!Names -> File!Inodes \cup {File!None}], NEW n \in File!Names,
           NEW i \in File!Inodes, d[n] = File!None, NEW e,
           \A m \in File!Names : e[m] = IF m = n THEN i ELSE d[m]
    PROVE  /\ NameCount(d, i) + 1 \in 1 .. 2
           /\ \A j \in File!Inodes :
                NameCount(e, j) = IF j = i THEN NameCount(d, i) + 1 ELSE NameCount(d, j)
<1>1. File!Names = {File!File01, File!File02} /\ File!File01 # File!File02
  BY DEF File!Names, File!File01, File!File02
<1>2. CASE n = File!File01
  <2>1. e[File!File01] = i /\ e[File!File02] = d[File!File02] /\ d[File!File01] = File!None
    BY <1>1, <1>2
  <2>. QED
    BY <2>1, InodeNumbers DEF NameCount, One
<1>3. CASE n = File!File02
  <2>1. e[File!File02] = i /\ e[File!File01] = d[File!File01] /\ d[File!File02] = File!None
    BY <1>1, <1>3
  <2>. QED
    BY <2>1, InodeNumbers DEF NameCount, One
<1>. QED
  BY <1>1, <1>2, <1>3

\* The name of an inode is taken from it.
LEMMA NameTaken ==
    ASSUME NEW d \in [File!Names -> File!Inodes \cup {File!None}], NEW n \in File!Names,
           NEW i \in File!Inodes, d[n] = i, NEW e,
           \A m \in File!Names : e[m] = IF m = n THEN File!None ELSE d[m]
    PROVE  /\ NameCount(d, i) - 1 \in 0 .. 1
           /\ \A j \in File!Inodes :
                NameCount(e, j) = IF j = i THEN NameCount(d, i) - 1 ELSE NameCount(d, j)
<1>1. File!Names = {File!File01, File!File02} /\ File!File01 # File!File02
  BY DEF File!Names, File!File01, File!File02
<1>2. CASE n = File!File01
  <2>1. e[File!File01] = File!None /\ e[File!File02] = d[File!File02] /\ d[File!File01] = i
    BY <1>1, <1>2
  <2>. QED
    BY <2>1, InodeNumbers DEF NameCount, One
<1>3. CASE n = File!File02
  <2>1. e[File!File02] = File!None /\ e[File!File01] = d[File!File01] /\ d[File!File02] = i
    BY <1>1, <1>3
  <2>. QED
    BY <2>1, InodeNumbers DEF NameCount, One
<1>. QED
  BY <1>1, <1>2, <1>3

\* A call that is made only where some tool empties or removes files.
LEMMA RemoverStep ==
    ASSUME FileInv, NEW u \in Users, fate[u] = "runs", todo[u] # <<>>, ~NobodyRemoves,
           File!Advance(u), UNCHANGED <<tool, fate, recordLocks, seen, written>>,
           fd' \in [Users -> [inode : File!Inodes \cup {File!None}, offset : Nat, append : BOOLEAN]],
           \A v \in Users : v # u => fd'[v] = fd[v],
           Head(todo[u]).op \in LeavesOpen => fd'[u].inode \in File!Inodes,
           Head(todo[u]) = File!OpenOrQuit("append") => fd'[u].append,
           directory' \in [File!Names -> File!Inodes \cup {File!None}],
           inode' \in [File!Inodes -> [data : Seq(File!Cells), links : 0 .. 2, readonly : BOOLEAN]],
           LinkCounts'
    PROVE  FileInv'
<1>1. todo' \in [Users -> Seq(FileStepSet)] /\ FileScripts' /\ Opened'
  BY FileAdvanced
<1>2. FileTypes'
  BY <1>1 DEF FileInv, FileTypes, File!Inodes, File!Cells
<1>3. FilesOnlyGrow'
  BY DEF FilesOnlyGrow, NobodyRemoves
<1>4. NoWriteLockShared'
  BY DEF FileInv, NoWriteLockShared
<1>. QED
  BY <1>1, <1>2, <1>3, <1>4 DEF FileInv

LEMMA LinkFileStep == ASSUME FileInv, NEW u \in Users, File!LinkFile(u) PROVE FileInv'
<1>1. /\ fate[u] = "runs" /\ todo[u] # <<>> /\ Head(todo[u]).op = "link"
      /\ File!Advance(u) /\ UNCHANGED <<tool, fate, fd, recordLocks, seen, written>>
  BY DEF File!LinkFile, File!Does
<1>2. ~NobodyRemoves
  BY <1>1, NextCall DEF CallFits, NobodyRemoves
<1>3. Head(todo[u]).op \notin LeavesOpen /\ Head(todo[u]) # File!OpenOrQuit("append")
  <2>1. File!OpenOrQuit("append").op = "open"
    BY DEF File!OpenOrQuit, File!Step
  <2>. QED
    BY <1>1, <2>1 DEF LeavesOpen
<1>4. /\ directory \in [File!Names -> File!Inodes \cup {File!None}] /\ LinkCounts
      /\ inode \in [File!Inodes -> [data : Seq(File!Cells), links : 0 .. 2, readonly : BOOLEAN]]
      /\ fd \in [Users -> [inode : File!Inodes \cup {File!None}, offset : Nat, append : BOOLEAN]]
  BY DEF FileInv, FileTypes
<1>5. /\ directory' \in [File!Names -> File!Inodes \cup {File!None}]
      /\ inode' \in [File!Inodes -> [data : Seq(File!Cells), links : 0 .. 2, readonly : BOOLEAN]]
      /\ LinkCounts'
  <2>1. CASE directory[File!File01] # File!None /\ directory[File!File02] = File!None
    <3>1. PICK i \in File!Inodes : i = directory[File!File01]
      BY <1>4, <2>1 DEF File!Names
    <3>2. /\ directory' = [directory EXCEPT ![File!File02] = i]
          /\ inode' = [inode EXCEPT ![i].links = @ + 1]
      BY <2>1, <3>1 DEF File!LinkFile
    <3>3. /\ directory' \in [File!Names -> File!Inodes \cup {File!None}]
          /\ NameCount(directory, i) + 1 \in 1 .. 2
          /\ \A j \in File!Inodes :
               NameCount(directory', j)
                 = IF j = i THEN NameCount(directory, i) + 1 ELSE NameCount(directory, j)
      <4>1. directory \in [File!Names -> File!Inodes \cup {File!None}] /\ File!File02 \in File!Names
        BY <1>4 DEF File!Names
      <4>2. /\ directory' \in [File!Names -> File!Inodes \cup {File!None}]
            /\ \A m \in File!Names : directory'[m] = IF m = File!File02 THEN i ELSE directory[m]
        BY <3>2, <4>1
      <4>. QED
        BY <2>1, <4>1, <4>2, NameGiven
    <3>4. \A j \in File!Inodes : NameCount(directory, j) = inode[j].links
      BY <1>4 DEF LinkCounts
    <3>5. inode[i].links + 1 \in 0 .. 2
      BY <3>3, <3>4
    <3>6. /\ inode' \in [File!Inodes -> [data : Seq(File!Cells), links : 0 .. 2, readonly : BOOLEAN]]
          /\ \A j \in File!Inodes :
               inode'[j].links = IF j = i THEN inode[i].links + 1 ELSE inode[j].links
      BY <1>4, <3>2, <3>5
    <3>. QED
      <4>1. \A j \in File!Inodes : inode'[j].links = NameCount(directory', j)
        BY <3>3, <3>4, <3>6
      <4>. QED
        BY <3>3, <3>6, <4>1 DEF LinkCounts, NameCount, File!Inodes
  <2>2. CASE ~(directory[File!File01] # File!None /\ directory[File!File02] = File!None)
    <3>1. UNCHANGED <<directory, inode>>
      BY <2>2 DEF File!LinkFile
    <3>. QED
      BY <1>4, <3>1 DEF LinkCounts, NameCount, File!Inodes
  <2>. QED
    BY <2>1, <2>2
<1>. QED
  BY <1>1, <1>2, <1>3, <1>4, <1>5, RemoverStep

LEMMA UnlinkFileStep == ASSUME FileInv, NEW u \in Users, File!UnlinkFile(u) PROVE FileInv'
<1>1. /\ fate[u] = "runs" /\ todo[u] # <<>> /\ Head(todo[u]).op = "unlink"
      /\ File!Advance(u) /\ UNCHANGED <<tool, fate, fd, recordLocks, seen, written>>
  BY DEF File!UnlinkFile, File!Does
<1>2. ~NobodyRemoves /\ File!On(u) \in File!Names
  BY <1>1, NextCall DEF CallFits, NobodyRemoves, File!On
<1>3. Head(todo[u]).op \notin LeavesOpen /\ Head(todo[u]) # File!OpenOrQuit("append")
  <2>1. File!OpenOrQuit("append").op = "open"
    BY DEF File!OpenOrQuit, File!Step
  <2>. QED
    BY <1>1, <2>1 DEF LeavesOpen
<1>4. /\ directory \in [File!Names -> File!Inodes \cup {File!None}] /\ LinkCounts
      /\ inode \in [File!Inodes -> [data : Seq(File!Cells), links : 0 .. 2, readonly : BOOLEAN]]
      /\ fd \in [Users -> [inode : File!Inodes \cup {File!None}, offset : Nat, append : BOOLEAN]]
  BY DEF FileInv, FileTypes
<1>5. /\ directory' \in [File!Names -> File!Inodes \cup {File!None}]
      /\ inode' \in [File!Inodes -> [data : Seq(File!Cells), links : 0 .. 2, readonly : BOOLEAN]]
      /\ LinkCounts'
  <2>1. CASE directory[File!On(u)] # File!None
    <3>1. PICK i \in File!Inodes, name \in File!Names : name = File!On(u) /\ i = directory[name]
      BY <1>2, <1>4, <2>1
    <3>2. /\ directory' = [directory EXCEPT ![name] = File!None]
          /\ inode' = [inode EXCEPT ![i].links = @ - 1]
      BY <2>1, <3>1 DEF File!UnlinkFile
    <3>3. /\ directory' \in [File!Names -> File!Inodes \cup {File!None}]
          /\ NameCount(directory, i) - 1 \in 0 .. 1
          /\ \A j \in File!Inodes :
               NameCount(directory', j)
                 = IF j = i THEN NameCount(directory, i) - 1 ELSE NameCount(directory, j)
      <4>1. directory \in [File!Names -> File!Inodes \cup {File!None}]
        BY <1>4
      <4>2. /\ directory' \in [File!Names -> File!Inodes \cup {File!None}]
            /\ \A m \in File!Names : directory'[m] = IF m = name THEN File!None ELSE directory[m]
        BY <3>2, <4>1
      <4>. QED
        BY <3>1, <4>1, <4>2, NameTaken
    <3>4. \A j \in File!Inodes : NameCount(directory, j) = inode[j].links
      BY <1>4 DEF LinkCounts
    <3>5. inode[i].links - 1 \in 0 .. 2
      BY <3>3, <3>4
    <3>6. /\ inode' \in [File!Inodes -> [data : Seq(File!Cells), links : 0 .. 2, readonly : BOOLEAN]]
          /\ \A j \in File!Inodes :
               inode'[j].links = IF j = i THEN inode[i].links - 1 ELSE inode[j].links
      BY <1>4, <3>2, <3>5
    <3>. QED
      <4>1. \A j \in File!Inodes : inode'[j].links = NameCount(directory', j)
        BY <3>3, <3>4, <3>6
      <4>. QED
        BY <3>3, <3>6, <4>1 DEF LinkCounts, NameCount, File!Inodes
  <2>2. CASE directory[File!On(u)] = File!None
    <3>1. UNCHANGED <<directory, inode>>
      BY <2>2 DEF File!UnlinkFile
    <3>. QED
      BY <1>4, <3>1 DEF LinkCounts, NameCount, File!Inodes
  <2>. QED
    BY <2>1, <2>2
<1>. QED
  BY <1>1, <1>2, <1>3, <1>4, <1>5, RemoverStep

\* A file that is there is opened, and emptied if its opener asks for that.
LEMMA OpenThere ==
    ASSUME FileInv, NEW u \in Users, File!Does(u, {"open", "open_anyhow"}),
           NEW i \in File!Inodes, NEW empties \in BOOLEAN, empties => File!How(u) = "create_truncate",
           inode' = IF empties THEN [inode EXCEPT ![i].data = <<>>] ELSE inode,
           File!SetFd(u, i, File!How(u) = "append"), File!Advance(u),
           UNCHANGED <<tool, fate, directory, recordLocks, seen, written>>
    PROVE  FileInv'
<1>1. fate[u] = "runs" /\ todo[u] # <<>>
  BY DEF File!Does
<1>2. /\ fd \in [Users -> [inode : File!Inodes \cup {File!None}, offset : Nat, append : BOOLEAN]]
      /\ inode \in [File!Inodes -> [data : Seq(File!Cells), links : 0 .. 2, readonly : BOOLEAN]]
  BY DEF FileInv, FileTypes
<1>3. PICK f \in [inode : File!Inodes \cup {File!None}, offset : Nat, append : BOOLEAN] :
        /\ fd' = [fd EXCEPT ![u] = f]
        /\ f.inode = i /\ f.append = (File!How(u) = "append")
  <2>1. [inode |-> i, offset |-> 0, append |-> File!How(u) = "append"]
          \in [inode : File!Inodes \cup {File!None}, offset : Nat, append : BOOLEAN]
    OBVIOUS
  <2>. QED
    BY <2>1 DEF File!SetFd
<1>4. /\ fd' \in [Users -> [inode : File!Inodes \cup {File!None}, offset : Nat, append : BOOLEAN]]
      /\ \A v \in Users : v # u => fd'[v] = fd[v]
      /\ fd'[u] = f
  BY <1>2, <1>3
<1>5. Head(todo[u]) = File!OpenOrQuit("append") => fd'[u].append
  <2>1. File!OpenOrQuit("append").how = "append"
    BY DEF File!OpenOrQuit, File!Step
  <2>. QED
    BY <1>3, <1>4, <2>1 DEF File!How
<1>6. fd'[u].inode \in File!Inodes
  BY <1>3, <1>4
<1>7. CASE empties
  <2>1. ~NobodyRemoves
    BY <1>1, <1>7, NextCall DEF CallFits, NobodyRemoves, File!How
  <2>2. /\ inode' \in [File!Inodes -> [data : Seq(File!Cells), links : 0 .. 2, readonly : BOOLEAN]]
        /\ \A j \in File!Inodes : inode'[j].links = inode[j].links
    <3>1. <<>> \in Seq(File!Cells)
      OBVIOUS
    <3>. QED
      BY ZenonT(30), <1>2, <1>7, <3>1
  <2>3. LinkCounts'
    BY <2>2 DEF FileInv, LinkCounts, NameCount, File!Inodes
  <2>4. directory' \in [File!Names -> File!Inodes \cup {File!None}]
    BY DEF FileInv, FileTypes
  <2>. QED
    BY <1>1, <1>4, <1>5, <1>6, <2>1, <2>2, <2>3, <2>4, RemoverStep
<1>8. CASE ~empties
  <2>1. /\ recordLocks' \subseteq [owner : Users, in : File!Inodes, kind : {"read", "write"}]
        /\ seen' \in [Users -> Nat] /\ NoWriteLockShared'
    BY DEF FileInv, FileTypes, NoWriteLockShared
  <2>. QED
    BY <1>1, <1>4, <1>5, <1>6, <1>8, <2>1, FilesSame
<1>. QED
  BY <1>7, <1>8

\* A new file: its name was free, so somebody removes files.
MakesNew(u) ==
  /\ directory[File!On(u)] = File!None /\ File!How(u) \in {"create", "create_truncate"}
  /\ \E k \in File!Inodes : File!Unused(k)
  /\ inode' = [inode EXCEPT ![File!Spare] = [data |-> <<>>, links |-> 1,
                                             readonly |-> File!On(u) = File!File02]]
  /\ directory' = [directory EXCEPT ![File!On(u)] = File!Spare]
  /\ File!SetFd(u, File!Spare, FALSE) /\ File!Advance(u)
  /\ UNCHANGED <<tool, fate, recordLocks, seen, written>>

LEMMA OpenNew ==
    ASSUME FileInv, NEW u \in Users, File!Does(u, {"open", "open_anyhow"}), MakesNew(u)
    PROVE  FileInv'
<1>1. fate[u] = "runs" /\ todo[u] # <<>> /\ Head(todo[u]).op \in {"open", "open_anyhow"}
  BY DEF File!Does
<1>2. PICK name \in File!Names : name = File!On(u)
  BY <1>1, NextCall DEF CallFits, File!On
<1>3. PICK i \in File!Inodes : i = File!Spare /\ File!Unused(i)
  BY DEF MakesNew, File!Spare
<1>4. /\ directory \in [File!Names -> File!Inodes \cup {File!None}] /\ LinkCounts
      /\ inode \in [File!Inodes -> [data : Seq(File!Cells), links : 0 .. 2, readonly : BOOLEAN]]
      /\ fd \in [Users -> [inode : File!Inodes \cup {File!None}, offset : Nat, append : BOOLEAN]]
  BY DEF FileInv, FileTypes
<1>5. ~NobodyRemoves
  BY <1>1, NextCall DEF MakesNew, CallFits, NobodyRemoves, FileInv, FilesOnlyGrow, File!On
<1>6. PICK f : /\ f \in [inode : File!Inodes \cup {File!None}, offset : Nat, append : BOOLEAN]
               /\ fd' = [fd EXCEPT ![u] = f] /\ f.inode = i
  <2>1. [inode |-> i, offset |-> 0, append |-> FALSE]
          \in [inode : File!Inodes \cup {File!None}, offset : Nat, append : BOOLEAN]
    OBVIOUS
  <2>. QED
    BY <1>3, <2>1 DEF MakesNew, File!SetFd
<1>7. /\ fd' \in [Users -> [inode : File!Inodes \cup {File!None}, offset : Nat, append : BOOLEAN]]
      /\ \A v \in Users : v # u => fd'[v] = fd[v]
      /\ fd'[u].inode \in File!Inodes
  BY <1>4, <1>6
<1>8. Head(todo[u]) # File!OpenOrQuit("append")
  <2>1. File!OpenOrQuit("append").how = "append"
    BY DEF File!OpenOrQuit, File!Step
  <2>. QED
    BY <2>1 DEF MakesNew, File!How
<1>9. /\ directory' \in [File!Names -> File!Inodes \cup {File!None}]
      /\ NameCount(directory, i) + 1 \in 1 .. 2
      /\ \A j \in File!Inodes :
           NameCount(directory', j)
             = IF j = i THEN NameCount(directory, i) + 1 ELSE NameCount(directory, j)
  <2>1. /\ directory \in [File!Names -> File!Inodes \cup {File!None}]
        /\ directory[name] = File!None
    BY <1>2, <1>4 DEF MakesNew
  <2>2. /\ directory' \in [File!Names -> File!Inodes \cup {File!None}]
        /\ \A m \in File!Names : directory'[m] = IF m = name THEN i ELSE directory[m]
    BY <1>2, <1>3, <2>1 DEF MakesNew
  <2>. QED
    BY <2>1, <2>2, NameGiven
<1>10. PICK g : /\ g \in [data : Seq(File!Cells), links : 0 .. 2, readonly : BOOLEAN]
                /\ inode' = [inode EXCEPT ![i] = g] /\ g.links = 1
  <2>. DEFINE h == [data |-> <<>>, links |-> 1, readonly |-> File!On(u) = File!File02]
  <2>1. h \in [data : Seq(File!Cells), links : 0 .. 2, readonly : BOOLEAN] /\ h.links = 1
    OBVIOUS
  <2>2. inode' = [inode EXCEPT ![i] = h]
    BY <1>3 DEF MakesNew
  <2>. HIDE DEF h
  <2>. QED
    BY <2>1, <2>2, Zenon
<1>11. /\ inode' \in [File!Inodes -> [data : Seq(File!Cells), links : 0 .. 2, readonly : BOOLEAN]]
       /\ \A j \in File!Inodes : inode'[j] = IF j = i THEN g ELSE inode[j]
  BY <1>4, <1>10
<1>12. LinkCounts'
  <2>1. \A j \in File!Inodes : inode[j].links = NameCount(directory, j)
    BY <1>4 DEF LinkCounts
  <2>2. inode[i].links = 0
    BY <1>3 DEF File!Unused
  <2>3. NameCount(directory', i) = 1
    <3>1. NameCount(directory, i) = 0
      BY <2>1, <2>2
    <3>2. NameCount(directory', i) = NameCount(directory, i) + 1
      BY <1>9
    <3>. QED
      BY <3>1, <3>2
  <2>4. \A j \in File!Inodes : inode'[j].links = NameCount(directory', j)
    BY <1>9, <1>10, <1>11, <2>1, <2>3
  <2>. QED
    BY <2>4 DEF LinkCounts, NameCount, File!Inodes
<1>. QED
  BY <1>1, <1>5, <1>7, <1>8, <1>9, <1>11, <1>12, RemoverStep DEF MakesNew

LEMMA OpenFileStep == ASSUME FileInv, NEW u \in Users, File!OpenFile(u) PROVE FileInv'
<1>. DEFINE i == directory[File!On(u)]
            creates == File!How(u) \in {"create", "create_truncate"}
            empties == File!How(u) = "create_truncate"
<1>1. File!Does(u, {"open", "open_anyhow"}) /\ UNCHANGED <<tool, seen, written>>
  BY DEF File!OpenFile
<1>2. fate[u] = "runs" /\ todo[u] # <<>> /\ Head(todo[u]).op \in {"open", "open_anyhow"}
  BY <1>1 DEF File!Does
<1>3. i \in File!Inodes \cup {File!None}
  <2>1. File!On(u) \in File!Names
    BY <1>2, NextCall DEF CallFits, File!On
  <2>. QED
    BY <2>1 DEF FileInv, FileTypes
<1>4. CASE /\ i # File!None /\ ~(empties /\ inode[i].readonly)
           /\ inode' = IF empties THEN [inode EXCEPT ![i].data = <<>>] ELSE inode
           /\ File!SetFd(u, i, File!How(u) = "append") /\ File!Advance(u)
           /\ UNCHANGED <<fate, directory, recordLocks>>
  <2>1. PICK j \in File!Inodes : j = i
    BY <1>3, <1>4
  <2>. QED
    BY <1>1, <1>4, <2>1, OpenThere
<1>5. CASE /\ i = File!None /\ creates /\ \E k \in File!Inodes : File!Unused(k)
           /\ inode' = [inode EXCEPT ![File!Spare] = [data |-> <<>>, links |-> 1,
                                                      readonly |-> File!On(u) = File!File02]]
           /\ directory' = [directory EXCEPT ![File!On(u)] = File!Spare]
           /\ File!SetFd(u, File!Spare, FALSE) /\ File!Advance(u) /\ UNCHANGED <<fate, recordLocks>>
  BY <1>1, <1>5, OpenNew DEF MakesNew
<1>6. CASE /\ IF File!Does(u, {"open"}) THEN File!Dies(u, "quit") /\ UNCHANGED todo
              ELSE File!SetFd(u, File!None, FALSE) /\ File!Advance(u) /\ UNCHANGED <<fate, recordLocks>>
           /\ UNCHANGED <<inode, directory>>
  <2>1. CASE File!Does(u, {"open"})
    BY <1>1, <1>6, <2>1, FileEnded
  <2>2. CASE ~File!Does(u, {"open"})
    <3>1. /\ Head(todo[u]).op = "open_anyhow"
          /\ File!SetFd(u, File!None, FALSE) /\ File!Advance(u) /\ UNCHANGED <<fate, recordLocks>>
      BY <1>2, <1>6, <2>2 DEF File!Does
    <3>2. Head(todo[u]).op \notin LeavesOpen /\ Head(todo[u]) # File!OpenOrQuit("append")
      <4>1. File!OpenOrQuit("append").op = "open"
        BY DEF File!OpenOrQuit, File!Step
      <4>. QED
        BY <3>1, <4>1 DEF LeavesOpen
    <3>3. fd \in [Users -> [inode : File!Inodes \cup {File!None}, offset : Nat, append : BOOLEAN]]
      BY DEF FileInv, FileTypes
    <3>4. PICK f \in [inode : File!Inodes \cup {File!None}, offset : Nat, append : BOOLEAN] :
            fd' = [fd EXCEPT ![u] = f]
      <4>1. [inode |-> File!None, offset |-> 0, append |-> FALSE]
              \in [inode : File!Inodes \cup {File!None}, offset : Nat, append : BOOLEAN]
        OBVIOUS
      <4>. QED
        BY <3>1, <4>1 DEF File!SetFd
    <3>5. /\ fd' \in [Users -> [inode : File!Inodes \cup {File!None}, offset : Nat, append : BOOLEAN]]
          /\ \A v \in Users : v # u => fd'[v] = fd[v]
      BY <3>3, <3>4
    <3>6. /\ recordLocks' \subseteq [owner : Users, in : File!Inodes, kind : {"read", "write"}]
          /\ seen' \in [Users -> Nat] /\ NoWriteLockShared'
      BY <1>1, <3>1 DEF FileInv, FileTypes, NoWriteLockShared
    <3>. QED
      BY <1>1, <1>2, <1>6, <3>1, <3>2, <3>5, <3>6, FilesSame
  <2>. QED
    BY <2>1, <2>2
<1>. QED
  BY <1>4, <1>5, <1>6 DEF File!OpenFile

\* Every call of a tool keeps the invariant.
LEMMA FileNext == ASSUME FileInv, File!Next PROVE FileInv'
<1>1. PICK u \in Users :
        \/ File!OpenFile(u) \/ File!ReadFile(u) \/ File!SeekFile(u) \/ File!WriteFile(u)
        \/ File!CloseFile(u) \/ File!StatFile(u) \/ File!LinkFile(u) \/ File!UnlinkFile(u)
        \/ File!file_lock_set(u) \/ File!MapFile(u) \/ File!Exit(u)
  BY DEF File!Next
<1>. QED
  BY <1>1, OpenFileStep, ReadFileStep, SeekFileStep, WriteFileStep, CloseFileStep, StatFileStep,
     LinkFileStep, UnlinkFileStep, FileLockStep, MapFileStep, ExitFileStep

\* So does a step of another program.
LEMMA FileUnchanged == ASSUME FileInv, UNCHANGED fileVars PROVE FileInv'
<1>1. UNCHANGED <<tool, todo, fate, directory, inode, fd, recordLocks, seen, written>>
  BY DEF fileVars
<1>2. FileTypes' /\ FileScripts' /\ Opened'
  BY <1>1 DEF FileInv, FileTypes, FileScripts, Opened, File!Inodes, File!Cells
<1>3. LinkCounts' /\ NoWriteLockShared'
  BY <1>1 DEF FileInv, LinkCounts, NameCount, NoWriteLockShared, File!Inodes
<1>4. FilesOnlyGrow'
  BY <1>1 DEF FileInv, FilesOnlyGrow, NobodyRemoves, Stands
<1>. QED
  BY <1>2, <1>3, <1>4 DEF FileInv

\* One file, whatever is in it, one name, and every tool before its first call.
LEMMA FilesBegin ==
    ASSUME File!Quiet, NEW n \in Nat,
           inode = [i \in File!Inodes |->
                      [data |-> IF i = 1 THEN [k \in 1 .. n |-> File!Hole] ELSE <<>>,
                       links |-> IF i = 1 THEN 1 ELSE 0, readonly |-> FALSE]],
           tool \in [Users -> DOMAIN File!FilePrograms],
           todo = [u \in Users |-> File!FilePrograms[tool[u]]],
           fate \in [Users -> {"runs", "ended"}]
    PROVE  FileInv
<1>1. 1 \in File!Inodes /\ File!None # 1 /\ File!None \notin File!Inodes
  BY FilesAssumption, InodeNumbers DEF File!Inodes, File!None
<1>2. /\ directory = [m \in File!Names |-> IF m = File!File01 THEN 1 ELSE File!None]
      /\ fd = [u \in Users |-> File!NoFd] /\ recordLocks = {}
      /\ seen = [u \in Users |-> 0] /\ written = {}
  BY DEF File!Quiet
<1>3. ASSUME NEW u \in Users
      PROVE  /\ todo[u] \in Seq(FileStepSet) /\ CallRules(tool[u], todo[u])
             /\ todo[u] # <<>> => Head(todo[u]).op \notin Uses
  BY FileRules
<1>4. /\ directory \in [File!Names -> File!Inodes \cup {File!None}]
      /\ directory[File!File01] = 1 /\ directory[File!File02] = File!None
  BY <1>1, <1>2 DEF File!Names, File!File01, File!File02
<1>5. /\ inode \in [File!Inodes -> [data : Seq(File!Cells), links : 0 .. 2, readonly : BOOLEAN]]
      /\ \A i \in File!Inodes : inode[i].links = IF i = 1 THEN 1 ELSE 0
  <2>1. [k \in 1 .. n |-> File!Hole] \in Seq(File!Cells) /\ <<>> \in Seq(File!Cells)
    BY DEF File!Cells
  <2>2. \A i \in File!Inodes :
          [data |-> IF i = 1 THEN [k \in 1 .. n |-> File!Hole] ELSE <<>>,
           links |-> IF i = 1 THEN 1 ELSE 0, readonly |-> FALSE]
            \in [data : Seq(File!Cells), links : 0 .. 2, readonly : BOOLEAN]
    BY <2>1
  <2>. QED
    BY <2>2
<1>6. fd \in [Users -> [inode : File!Inodes \cup {File!None}, offset : Nat, append : BOOLEAN]]
  <2>1. File!NoFd \in [inode : File!Inodes \cup {File!None}, offset : Nat, append : BOOLEAN]
    BY DEF File!NoFd
  <2>. QED
    BY <1>2, <2>1
<1>7. FileTypes
  <2>1. todo \in [Users -> Seq(FileStepSet)]
    BY <1>3
  <2>2. seen \in [Users -> Nat] /\ fate \in [Users -> {"runs", "quit", "SIGBUS", "ended"}]
    BY <1>2
  <2>. QED
    BY <1>2, <1>4, <1>5, <1>6, <2>1, <2>2 DEF FileTypes
<1>8. FileScripts
  BY <1>3 DEF FileScripts
<1>9. Opened
  BY <1>3 DEF Opened, Uses
<1>10. LinkCounts
  BY <1>1, <1>4, <1>5 DEF LinkCounts, NameCount, One
<1>11. NoWriteLockShared /\ FilesOnlyGrow
  BY <1>1, <1>2, <1>4 DEF NoWriteLockShared, FilesOnlyGrow
<1>. QED
  BY <1>7, <1>8, <1>9, <1>10, <1>11 DEF FileInv

\* FileInv holds when the file programs start, and when they are not run.
LEMMA FileInit == ASSUME File!Init \/ File!NotRun PROVE FileInv
<1>1. CASE File!Init
  <2>1. PICK n \in 0 .. Page :
          inode = [i \in File!Inodes |->
                     [data |-> IF i = 1 THEN [k \in 1 .. n |-> File!Hole] ELSE <<>>,
                      links |-> IF i = 1 THEN 1 ELSE 0, readonly |-> FALSE]]
    BY <1>1 DEF File!Init
  <2>2. n \in Nat
    BY FilesAssumption
  <2>3. /\ File!Quiet /\ tool \in [Users -> DOMAIN File!FilePrograms]
        /\ todo = [u \in Users |-> File!FilePrograms[tool[u]]]
        /\ fate \in [Users -> {"runs", "ended"}]
    BY <1>1 DEF File!Init
  <2>. QED
    BY <2>1, <2>2, <2>3, FilesBegin
<1>2. CASE File!NotRun
  <2>1. /\ File!Quiet /\ tool = [u \in Users |-> "none"] /\ todo = [u \in Users |-> <<>>]
        /\ fate \in [Users -> {"runs", "ended"}]
        /\ inode = [i \in File!Inodes |-> [data |-> <<>>, links |-> IF i = 1 THEN 1 ELSE 0,
                                           readonly |-> FALSE]]
    BY <1>2 DEF File!NotRun
  <2>2. "none" \in DOMAIN File!FilePrograms /\ File!FilePrograms["none"] = <<>>
    BY FileTools DEF File!FilePrograms
  <2>3. /\ tool \in [Users -> DOMAIN File!FilePrograms]
        /\ todo = [u \in Users |-> File!FilePrograms[tool[u]]]
    BY <2>1, <2>2
  <2>4. inode = [i \in File!Inodes |->
                   [data |-> IF i = 1 THEN [k \in 1 .. 0 |-> File!Hole] ELSE <<>>,
                    links |-> IF i = 1 THEN 1 ELSE 0, readonly |-> FALSE]]
    <3>1. [k \in 1 .. 0 |-> File!Hole] = <<>>
      OBVIOUS
    <3>. QED
      BY <2>1, <3>1
  <2>. QED
    BY <2>1, <2>3, <2>4, FilesBegin
<1>. QED
  BY <1>1, <1>2

LEMMA SameCount == ASSUME NEW S PROVE File!Cardinality(S) = Cardinality(S)
  BY DEF File!Cardinality, Cardinality

\* Records stay, links are counted, no write lock is shared.
LEMMA FileRecordsStay == ASSUME FileInv PROVE File!WritesSurvive
<1>1. SUFFICES ASSUME NEW w \in written,
                      inode[w.in].data[w.at] # <<w.by, tool[w.by]>>,
                      \A u \in Users : tool[u] \notin {"creat", "touch"}
               PROVE  \E v \in written : v # w /\ v.in = w.in /\ v.at = w.at /\ tool[v.by] = "location"
  BY DEF File!WritesSurvive
<1>2. NobodyRemoves
  BY <1>1 DEF NobodyRemoves, Removers
<1>. QED
  BY <1>1, <1>2 DEF FileInv, FilesOnlyGrow, Stands

LEMMA FileLinksCounted == ASSUME FileInv PROVE File!LinksCounted
<1>1. ASSUME NEW i \in File!Inodes
      PROVE  inode[i].links = Cardinality({m \in File!Names : directory[m] = i})
  <2>. DEFINE S == {m \in File!Names : directory[m] = i}
  <2>1. File!Names = {File!File01, File!File02} /\ File!File01 # File!File02
    BY DEF File!Names, File!File01, File!File02
  <2>2. inode[i].links = NameCount(directory, i)
    BY DEF FileInv, LinkCounts
  <2>3. /\ Cardinality({}) = 0
        /\ Cardinality({File!File01}) = 1 /\ Cardinality({File!File02}) = 1
        /\ Cardinality({File!File01, File!File02}) = 2
    <3>1. IsFiniteSet({File!File02}) /\ File!File01 \notin {File!File02}
      BY <2>1, FS_Singleton
    <3>2. Cardinality({File!File02} \cup {File!File01}) = Cardinality({File!File02}) + 1
      BY <3>1, FS_AddElement
    <3>3. {File!File01, File!File02} = {File!File02} \cup {File!File01}
      OBVIOUS
    <3>4. /\ Cardinality({}) = 0
          /\ Cardinality({File!File01}) = 1 /\ Cardinality({File!File02}) = 1
      BY FS_EmptySet, FS_Singleton, Zenon
    <3>. QED
      BY <3>2, <3>3, <3>4
  <2>4. CASE directory[File!File01] = i /\ directory[File!File02] = i
    <3>1. S = {File!File01, File!File02}
      BY <2>1, <2>4
    <3>. QED
      BY <2>2, <2>3, <2>4, <3>1 DEF NameCount, One
  <2>5. CASE directory[File!File01] = i /\ directory[File!File02] # i
    <3>1. S = {File!File01}
      BY <2>1, <2>5
    <3>. QED
      BY <2>2, <2>3, <2>5, <3>1 DEF NameCount, One
  <2>6. CASE directory[File!File01] # i /\ directory[File!File02] = i
    <3>1. S = {File!File02}
      BY <2>1, <2>6
    <3>. QED
      BY <2>2, <2>3, <2>6, <3>1 DEF NameCount, One
  <2>7. CASE directory[File!File01] # i /\ directory[File!File02] # i
    <3>1. S = {}
      BY <2>1, <2>7
    <3>. QED
      BY <2>2, <2>3, <2>7, <3>1 DEF NameCount, One
  <2>. QED
    BY <2>4, <2>5, <2>6, <2>7
<1>2. ASSUME NEW u \in Users, NEW v \in Users, NEW l \in recordLocks,
             l.owner = u /\ v # u /\ l.kind = "write", NEW m \in recordLocks, m.owner = v
      PROVE  m.in # l.in
  BY <1>2 DEF FileInv, NoWriteLockShared
<1>3. \A i \in File!Inodes :
        inode[i].links = File!Cardinality({m \in File!Names : directory[m] = i})
  BY <1>1, SameCount
<1>. QED
  BY <1>2, <1>3 DEF File!LinksCounted

\* Which file each descriptor, name and record belongs to, in every state of Storage
\* (IO_File_creat-open-read-close.cpp, IO_File_stat.cpp).
THEOREM FilesInvariant == Spec => []FileInv
<1>1. Init => FileInv
  BY FileInit DEF Init
<1>2. FileInv /\ [Next]_vars => FileInv'
  BY FileNext, FileUnchanged DEF Next, vars
<1>. QED
  BY <1>1, <1>2, PTL DEF Spec

\* In every state, a record that was appended stays until a tool empties or removes
\* files or writes at an offset found earlier (IO_File_creat-open-read-close.cpp:
\* 186-195, 230-234); links are counted and no write lock is shared.
THEOREM RecordsStay == Spec => []WritesSurvive
<1>1. FileInv => WritesSurvive
  BY FileRecordsStay, FileLinksCounted DEF WritesSurvive
<1>. QED
  BY <1>1, FilesInvariant, PTL
=============================================================================
