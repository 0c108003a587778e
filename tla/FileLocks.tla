------------------------------ MODULE FileLocks ------------------------------
(***************************************************************************)
(* The programs of process_file_lock/file_lock.cpp.  Several of them may   *)
(* run at the same time on the same file.                                  *)
(*   "fcntl_01", "fcntl_02", "fcntl_03"  record locks of a parent and its  *)
(*              children on /tmp/zcq_tmp.txt;                              *)
(*   "fcntl_04" one instance of a program: who has the write lock on       *)
(*              /tmp/zcq.pid writes its pid there;                         *)
(*   "flock_01", "flock_02"  locks of open file descriptions.              *)
(* Every program is a script of steps for each of its processes; the       *)
(* sleeps between them are left out: nothing makes a process wake in time. *)
(* A record lock belongs to a process and is not inherited; an flock       *)
(* belongs to an open file description, which dup and fork share.          *)
(***************************************************************************)
EXTENDS Integers, Sequences, FiniteSets

CONSTANTS
  Runs,       \* the runs of the programs
  MaxKilled   \* bound: processes that are killed

Roles == {"parent", "child01", "child02", "child03"}
Record == "record"   \* the lock of the process, not of a description

-----------------------------------------------------------------------------
(* Steps *)

\* lock_fcntl_reg, flock: an "asks" that is refused ends the process.
Waits(kind, on) == [op |-> "waits", kind |-> kind, on |-> on]
Asks(kind, on) == [op |-> "asks", kind |-> kind, on |-> on]
Readw == Waits("read", Record)
Writew == Waits("write", Record)
Unlock == [op |-> "unlocks", kind |-> "none", on |-> Record]
Forks(role) == [op |-> "forks", kind |-> role, on |-> Record]
Truncate == [op |-> "truncates", kind |-> "none", on |-> Record]
WritePid == [op |-> "writes", kind |-> "none", on |-> Record]

Script(parent, child01, child02, child03) ==
  [r \in Roles |-> CASE r = "parent" -> parent [] r = "child01" -> child01
                     [] r = "child02" -> child02 [] r = "child03" -> child03]

Fcntl01 == Script(<<Asks("read", Record), Forks("child01"), Forks("child02"), Unlock>>,
                  <<Writew, Unlock>>, <<Asks("read", Record), Unlock>>, <<>>)
Fcntl02 == Script(<<Readw, Forks("child01"), Forks("child02"), Unlock>>,
                  <<Writew, Unlock>>, <<Readw, Unlock>>, <<>>)
Fcntl03 == Script(<<Forks("child02"), Forks("child03"), Forks("child01"), Readw, Unlock>>,
                  <<Readw, Unlock>>, <<Writew, Unlock>>, <<Writew, Unlock>>)
\* Wrong on purpose: the old pid is not truncated.
OneInstanceOver == <<Asks("write", Record), WritePid>>
OneInstance == <<Asks("write", Record), Truncate, WritePid>>
Fcntl04 == Script(Append(OneInstance, Forks("child01")), OneInstance, <<>>, <<>>)
\* fd1 and its dup fd2 are one description, fd3 is another one.
Flock01 == Script(<<Waits("read", "fd1"), Waits("read", "fd1"), Asks("read", "fd3")>>,
                  <<>>, <<>>, <<>>)
Flock02 == Script(<<Forks("child01"), Waits("write", "fd1")>>, <<Waits("write", "fd1")>>,
                  <<>>, <<>>)

ScriptOf(name) ==
  CASE name = "fcntl_01" -> Fcntl01 [] name = "fcntl_02" -> Fcntl02
    [] name = "fcntl_03" -> Fcntl03 [] name = "fcntl_04" -> Fcntl04
    [] name = "flock_01" -> Flock01 [] name = "flock_02" -> Flock02
    [] name = "none" -> Script(<<>>, <<>>, <<>>, <<>>)

\* Programs that lock the same file and are run at the same time.  The four
\* processes of fcntl_03 are enough of a crowd by themselves (a bound).
Together ==
  (UNION {[Runs -> same] : same \in {{"fcntl_01", "fcntl_02"}, {"fcntl_04"}, {"flock_01", "flock_02"}}})
    \cup {[r \in Runs |-> IF r = only THEN "fcntl_03" ELSE "none"] : only \in Runs}

VARIABLES
  script,   \* the program of each run
  state,    \* what has become of each process
  todo,     \* the steps each process has left
  locks,    \* the locks on the file, with their owners
  file,     \* what /tmp/zcq.pid holds
  offset    \* where the description of each run writes next

vars == <<script, state, todo, locks, file, offset>>

Pids == Runs \X Roles
Hole == <<"nobody", "hole">>     \* bytes that were never written

Quiet ==
  /\ todo = [r \in Runs |-> ScriptOf(script[r])]
  /\ locks = {} /\ file = <<>> /\ offset = [r \in Runs |-> 0]
Init ==
  /\ script \in Together
  /\ state = [r \in Runs |-> [p \in Roles |-> IF p = "parent" /\ script[r] # "none" THEN "runs" ELSE "absent"]]
  /\ Quiet
NotRun ==
  /\ script = [r \in Runs |-> "none"]
  /\ state = [r \in Runs |-> [p \in Roles |-> "absent"]] /\ Quiet

-----------------------------------------------------------------------------
(* Locks *)

Owner(r, p, on) == IF on = Record THEN <<r, p>> ELSE <<r, on>>
Conflict(owner, kind) ==
  \E l \in locks : l.owner # owner /\ (kind = "write" \/ l.kind = "write")
Granted(owner, kind) ==
  {l \in locks : l.owner # owner} \cup {[owner |-> owner, kind |-> kind]}

\* The end of a process drops its record locks, and the locks of the
\* descriptions that nobody has open any more.
LastOf(r, p) == \A q \in Roles \ {p} : state[r][q] # "runs"
Released(r, p) ==
  {l \in locks : ~(l.owner = <<r, p>> \/ (l.owner[1] = r /\ l.owner[2] \notin Roles /\ LastOf(r, p)))}

-----------------------------------------------------------------------------
(* Processes *)

Alive(r, p) == state[r][p] = "runs" /\ todo[r][p] # <<>>
Does(r, p, op) == Alive(r, p) /\ Head(todo[r][p]).op = op
Step(r, p) == Head(todo[r][p])
Ask(r, p) == Owner(r, p, Step(r, p).on)
Advance(r, p) == todo' = [todo EXCEPT ![r][p] = Tail(@)]
Become(r, p, s) == state' = [state EXCEPT ![r][p] = s]

Lock(r, p) ==
  /\ Does(r, p, "waits") \/ Does(r, p, "asks")
  /\ ~Conflict(Ask(r, p), Step(r, p).kind)
  /\ locks' = Granted(Ask(r, p), Step(r, p).kind)
  /\ Advance(r, p) /\ UNCHANGED <<script, state, file, offset>>

\* err_quit of fcntl_04, err_sys of the others
Refused(r, p) ==
  /\ Does(r, p, "asks") /\ Conflict(Ask(r, p), Step(r, p).kind)
  /\ Become(r, p, "refused") /\ locks' = Released(r, p)
  /\ UNCHANGED <<script, todo, file, offset>>

Un(r, p) ==
  /\ Does(r, p, "unlocks") /\ locks' = {l \in locks : l.owner # <<r, p>>}
  /\ Advance(r, p) /\ UNCHANGED <<script, state, file, offset>>

Fork(r, p) ==
  /\ Does(r, p, "forks") /\ Become(r, Step(r, p).kind, "runs")
  /\ Advance(r, p) /\ UNCHANGED <<script, locks, file, offset>>

\* ftruncate leaves the offset of the description alone.
Ftruncate(r, p) ==
  /\ Does(r, p, "truncates") /\ file' = <<>>
  /\ Advance(r, p) /\ UNCHANGED <<script, state, locks, offset>>

WriteAt(s, k, x) ==
  [i \in 1..(IF k >= Len(s) THEN k + 1 ELSE Len(s)) |->
     IF i = k + 1 THEN x ELSE IF i <= Len(s) THEN s[i] ELSE Hole]
Write(r, p) ==
  /\ Does(r, p, "writes")
  /\ file' = WriteAt(file, offset[r], <<r, p>>) /\ offset' = [offset EXCEPT ![r] = @ + 1]
  /\ Advance(r, p) /\ UNCHANGED <<script, state, locks>>

Exit(r, p) ==
  /\ state[r][p] = "runs" /\ todo[r][p] = <<>>
  /\ Become(r, p, "ended") /\ locks' = Released(r, p)
  /\ UNCHANGED <<script, todo, file, offset>>

Killed(r, p) ==
  /\ state[r][p] = "runs" /\ Cardinality({q \in Pids : state[q[1]][q[2]] = "killed"}) < MaxKilled
  /\ Become(r, p, "killed") /\ locks' = Released(r, p)
  /\ UNCHANGED <<script, todo, file, offset>>

Process(r, p) == Lock(r, p) \/ Refused(r, p) \/ Un(r, p) \/ Fork(r, p) \/ Ftruncate(r, p)
                   \/ Write(r, p) \/ Exit(r, p)

Next == \E r \in Runs, p \in Roles : Process(r, p) \/ Killed(r, p)

Spec == Init /\ [][Next]_vars

-----------------------------------------------------------------------------
(* Properties *)

TypeOK ==
  /\ script \in Together \cup {[r \in Runs |-> "none"]}
  /\ state \in [Runs -> [Roles -> {"absent", "runs", "refused", "ended", "killed"}]]
  /\ \A r \in Runs, p \in Roles :
       \E n \in 0..Len(ScriptOf(script[r])[p]) :
         todo[r][p] = SubSeq(ScriptOf(script[r])[p], n + 1, Len(ScriptOf(script[r])[p]))
  /\ \A l \in locks : l.owner[1] \in Runs /\ l.kind \in {"read", "write"}
  /\ file \in Seq(Pids \cup {Hole}) /\ offset \in [Runs -> 0..2]

\* The process that got through lambda_write (file_lock.cpp:378-381, 388-391)
\* is the only one until it ends, though its lock is neither inherited nor
\* shared with the other processes of its run; what it wrote stays the whole
\* of the pid file, after a hole if it is a child: the offset was moved by
\* its parent.
Past(r, p, n) == script[r] = "fcntl_04" /\ state[r][p] = "runs"
                   /\ Len(todo[r][p]) <= Len(ScriptOf("fcntl_04")[p]) - n
PidFileNamesHolder ==
  \A r \in Runs, p \in Roles :
    /\ p \in {"parent", "child01"} /\ Past(r, p, 1) =>
         \A s \in Runs, q \in {"parent", "child01"} : Past(s, q, 1) => s = r /\ q = p
    /\ p = "parent" /\ Past(r, p, 3) => file = <<<<r, p>>>>
    /\ p = "child01" /\ Past(r, p, 3) => file = <<Hole, <<r, p>>>>

\* However many runs meet on the file and whoever is killed, no circle of
\* processes waits for each other's locks: while any runs, one of them is not
\* waiting, and the scripts are finite.
Blocked(r, p) == Does(r, p, "waits") /\ Conflict(Ask(r, p), Step(r, p).kind)
LocksGoOn ==
  (\E r \in Runs, p \in Roles : state[r][p] = "runs")
    => \E r \in Runs, p \in Roles : state[r][p] = "runs" /\ ~Blocked(r, p)
=============================================================================
