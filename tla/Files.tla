-------------------------------- MODULE Files --------------------------------
(***************************************************************************)
(* The file programs of unix_I_O_FILE/IO_File_creat-open-read-close.cpp and *)
(* IO_File_stat.cpp, several at a time on ../file_test-01.txt.  A program   *)
(* is a script of system calls.  A file is an inode with data, a count of   *)
(* its names, and the descriptors that have it open; what one write puts    *)
(* into it is one cell.                                                     *)
(***************************************************************************)
EXTENDS Integers, Sequences, FiniteSets

CONSTANTS
  Users,      \* the processes
  Page,       \* cells of a page of memory
  MaxFiles    \* bound: files that exist at a time

File01 == "file_test-01"
File02 == "file_test-02"
Names == {File01, File02}
Inodes == 1..MaxFiles
None == 0
Hole == <<"nobody", "hole">>

-----------------------------------------------------------------------------
(* Steps: what open is called with, and the other calls *)

Step(op, on, how) == [op |-> op, on |-> on, how |-> how]
Truncates == Step("open", File01, "create_truncate")
OpenOrQuit(how) == Step("open", File01, how)
OpenAnyhow == Step("open_anyhow", File01, "exists")     \* the result is not tested
Creat02 == Step("open", File02, "create_truncate")
ReadToEnd == Step("read", "", "")
Write == Step("write", "", "")
SeekPastEnd == Step("seek", "", "")                     \* lseek(fd, 1, SEEK_END)
Close == Step("close", "", "")
Fstat == Step("fstat", "", "")
Stat == Step("stat", File01, "")
Link == Step("link", File01, File02)
Unlink(name) == Step("unlink", name, "")
SetLock(kind) == Step("set_lock", "", kind)
MapAndPrint == Step("map", "", "")

file_creat_close == <<Truncates, Creat02, Close>>
file_open_read == <<OpenOrQuit("exists"), ReadToEnd, Close>>
\* Wrong on purpose: without O_APPEND.
file_open_overwrite == <<OpenOrQuit("exists"), Write, Close>>
file_open_write == <<OpenOrQuit("append"), Write, Close>>
file_location_write == <<OpenOrQuit("exists"), SeekPastEnd, Write, Close>>
file_stat == <<Stat>>
file_lock ==
  <<OpenOrQuit("create"), SetLock("write"), SetLock("none"), SetLock("read"), SetLock("none"), Close>>
file_map == <<OpenOrQuit("create"), SeekPastEnd, MapAndPrint, Close>>
file_touch_rm ==
  <<Truncates, Fstat, Close, Stat, Link, Stat, Unlink(File02), Stat, OpenAnyhow, Fstat,
    Unlink(File01), Fstat, Close>>

FilePrograms == [creat |-> file_creat_close, read |-> file_open_read, append |-> file_open_write,
                 location |-> file_location_write, stat |-> file_stat, lock |-> file_lock,
                 map |-> file_map, touch |-> file_touch_rm, none |-> <<>>]

VARIABLES
  tool,        \* the program of each process
  todo,        \* its steps
  fate,        \* what has become of it
  directory,   \* the inode of each name
  inode,       \* data and links of each inode, and whether its mode is 0444
  fd,          \* the file each process has open last, with its offset
  recordLocks, \* record locks: owner and kind
  seen,        \* what the process saw last
  written      \* the cells each process wrote, and the inode

vars == <<tool, todo, fate, directory, inode, fd, recordLocks, seen, written>>

NoFd == [inode |-> None, offset |-> 0, append |-> FALSE]
Quiet ==
  /\ directory = [n \in Names |-> IF n = File01 THEN 1 ELSE None]
  /\ fd = [u \in Users |-> NoFd] /\ recordLocks = {}
  /\ seen = [u \in Users |-> 0] /\ written = {}
Init ==
  /\ tool \in [Users -> DOMAIN FilePrograms \ {"none"}]
  /\ todo = [u \in Users |-> FilePrograms[tool[u]]] /\ fate = [u \in Users |-> "runs"]
  /\ Quiet
  /\ \E n \in 0..Page :
       inode = [i \in Inodes |-> [data |-> IF i = 1 THEN [k \in 1..n |-> Hole] ELSE <<>>,
                                  links |-> IF i = 1 THEN 1 ELSE 0, readonly |-> FALSE]]
NotRun ==
  /\ tool = [u \in Users |-> "none"] /\ todo = [u \in Users |-> <<>>]
  /\ fate = [u \in Users |-> "ended"] /\ Quiet
  /\ inode = [i \in Inodes |-> [data |-> <<>>, links |-> IF i = 1 THEN 1 ELSE 0, readonly |-> FALSE]]

-----------------------------------------------------------------------------

Does(u, ops) == fate[u] = "runs" /\ todo[u] # <<>> /\ Head(todo[u]).op \in ops
On(u) == Head(todo[u]).on
How(u) == Head(todo[u]).how
Advance(u) == todo' = [todo EXCEPT ![u] = Tail(@)]
Ends(u, how) == fate' = [fate EXCEPT ![u] = how]

\* Closing any descriptor of a file drops the record locks of the process.
Unlocked(u) == {l \in recordLocks : l.owner # u}

\* An inode without a name that nobody has open is free for a new file.
Unused(i) == inode[i].links = 0 /\ \A u \in Users : fd[u].inode # i
Spare == CHOOSE i \in Inodes : Unused(i)
SetFd(u, i, append) == fd' = [fd EXCEPT ![u] = [inode |-> i, offset |-> 0, append |-> append]]

\* A process that dies leaves nothing open and nothing locked.
Dies(u, how) ==
  Ends(u, how) /\ fd' = [fd EXCEPT ![u] = NoFd] /\ recordLocks' = Unlocked(u)

\* file_error_print exits when open failed: there is no such file, or creat
\* made it with mode 0444 before (nobody is root).
OpenFile(u) ==
  /\ Does(u, {"open", "open_anyhow"})
  /\ LET i == directory[On(u)]
         creates == How(u) \in {"create", "create_truncate"}
         empties == How(u) = "create_truncate" IN
     \/ /\ i # None /\ ~(empties /\ inode[i].readonly)
        /\ inode' = IF empties THEN [inode EXCEPT ![i].data = <<>>] ELSE inode
        /\ SetFd(u, i, How(u) = "append") /\ Advance(u) /\ UNCHANGED <<fate, directory, recordLocks>>
     \/ /\ i = None /\ creates /\ \E k \in Inodes : Unused(k)
        /\ inode' = [inode EXCEPT ![Spare] = [data |-> <<>>, links |-> 1, readonly |-> On(u) = File02]]
        /\ directory' = [directory EXCEPT ![On(u)] = Spare]
        /\ SetFd(u, Spare, FALSE) /\ Advance(u) /\ UNCHANGED <<fate, recordLocks>>
     \/ /\ IF i = None THEN ~creates ELSE empties /\ inode[i].readonly
        /\ IF Does(u, {"open"}) THEN Dies(u, "quit") /\ UNCHANGED todo
           ELSE SetFd(u, None, FALSE) /\ Advance(u) /\ UNCHANGED <<fate, recordLocks>>
        /\ UNCHANGED <<inode, directory>>
  /\ UNCHANGED <<tool, seen, written>>

\* The loop of reads ends at the end of the file; seen is the length.
ReadFile(u) ==
  /\ Does(u, {"read"}) /\ seen' = [seen EXCEPT ![u] = Len(inode[fd[u].inode].data)]
  /\ Advance(u) /\ UNCHANGED <<tool, fate, directory, inode, fd, recordLocks, written>>

SeekFile(u) ==
  /\ Does(u, {"seek"})
  /\ fd' = [fd EXCEPT ![u].offset = Len(inode[fd[u].inode].data) + 1]
  /\ Advance(u) /\ UNCHANGED <<tool, fate, directory, inode, recordLocks, seen, written>>

WriteAt(s, k, x) ==
  [i \in 1..(IF k >= Len(s) THEN k + 1 ELSE Len(s)) |->
     IF i = k + 1 THEN x ELSE IF i <= Len(s) THEN s[i] ELSE Hole]
WriteFile(u) ==
  /\ Does(u, {"write"})
  /\ LET i == fd[u].inode
         k == IF fd[u].append THEN Len(inode[i].data) ELSE fd[u].offset IN
     /\ inode' = [inode EXCEPT ![i].data = WriteAt(@, k, <<u, tool[u]>>)]
     /\ written' = written \cup {[by |-> u, in |-> i, at |-> k + 1]}
  /\ Advance(u) /\ UNCHANGED <<tool, fate, directory, fd, recordLocks, seen>>

CloseFile(u) ==
  /\ Does(u, {"close"}) /\ fd' = [fd EXCEPT ![u] = NoFd] /\ recordLocks' = Unlocked(u)
  /\ Advance(u) /\ UNCHANGED <<tool, fate, directory, inode, seen, written>>

\* stat leaves st as it was when there is no such file.
StatFile(u) ==
  /\ Does(u, {"stat", "fstat"})
  /\ LET i == IF Does(u, {"stat"}) THEN directory[On(u)] ELSE fd[u].inode IN
     seen' = IF i = None THEN seen ELSE [seen EXCEPT ![u] = inode[i].links]
  /\ Advance(u) /\ UNCHANGED <<tool, fate, directory, inode, fd, recordLocks, written>>

\* link fails if there is no file, or the new name exists; nothing is tested.
LinkFile(u) ==
  /\ Does(u, {"link"})
  /\ IF directory[File01] # None /\ directory[File02] = None
     THEN /\ directory' = [directory EXCEPT ![File02] = directory[File01]]
          /\ inode' = [inode EXCEPT ![directory[File01]].links = @ + 1]
     ELSE UNCHANGED <<directory, inode>>
  /\ Advance(u) /\ UNCHANGED <<tool, fate, fd, recordLocks, seen, written>>

UnlinkFile(u) ==
  /\ Does(u, {"unlink"})
  /\ IF directory[On(u)] # None
     THEN /\ directory' = [directory EXCEPT ![On(u)] = None]
          /\ inode' = [inode EXCEPT ![directory[On(u)]].links = @ - 1]
     ELSE UNCHANGED <<directory, inode>>
  /\ Advance(u) /\ UNCHANGED <<tool, fate, fd, recordLocks, seen, written>>

\* file_lock_set: F_SETLK; if it is refused, F_GETLK asks who is in the way:
\* seen is 1 for a lock that was set, 2 for one refused.
file_lock_set(u) ==
  /\ Does(u, {"set_lock"})
  /\ LET i == fd[u].inode
         others == {l \in recordLocks : l.owner # u /\ l.in = i} IN
     IF \E l \in others : (How(u) = "write" \/ l.kind = "write") /\ How(u) # "none"
     THEN seen' = [seen EXCEPT ![u] = 2] /\ UNCHANGED recordLocks
     ELSE /\ recordLocks' = Unlocked(u) \cup
               (IF How(u) = "none" THEN {} ELSE {[owner |-> u, in |-> i, kind |-> How(u)]})
          /\ seen' = [seen EXCEPT ![u] = 1]
  /\ Advance(u) /\ UNCHANGED <<tool, fate, directory, inode, fd, written>>

\* The printing of the mapped file reads up to the first zero byte: that is
\* in the page of its last byte, if the file does not fill it.
MapFile(u) ==
  /\ Does(u, {"map"})
  /\ IF Len(inode[fd[u].inode].data) % Page = 0
     THEN Dies(u, "SIGBUS") /\ UNCHANGED todo
     ELSE Advance(u) /\ UNCHANGED <<fate, fd, recordLocks>>
  /\ UNCHANGED <<tool, directory, inode, seen, written>>

Exit(u) ==
  /\ fate[u] = "runs" /\ todo[u] = <<>> /\ Dies(u, "ended")
  /\ UNCHANGED <<tool, todo, directory, inode, seen, written>>

Next == \E u \in Users :
  OpenFile(u) \/ ReadFile(u) \/ SeekFile(u) \/ WriteFile(u) \/ CloseFile(u) \/ StatFile(u)
    \/ LinkFile(u) \/ UnlinkFile(u) \/ file_lock_set(u) \/ MapFile(u) \/ Exit(u)

Spec == Init /\ [][Next]_vars

-----------------------------------------------------------------------------
(* Properties *)

Cells == {Hole} \cup (Users \X DOMAIN FilePrograms)

TypeOK ==
  /\ tool \in [Users -> DOMAIN FilePrograms]
  /\ fate \in [Users -> {"runs", "quit", "SIGBUS", "ended"}]
  /\ directory \in [Names -> Inodes \cup {None}]
  /\ \A i \in Inodes : inode[i].data \in Seq(Cells) /\ inode[i].links \in 0..2 /\ inode[i].readonly \in BOOLEAN
  /\ \A u \in Users : fd[u].inode \in Inodes \cup {None} /\ fd[u].offset \in Nat
  /\ \A l \in recordLocks : l.owner \in Users /\ l.in \in Inodes /\ l.kind \in {"read", "write"}
  /\ seen \in [Users -> Nat]

\* Whatever the programs do to the names, each inode counts its own
\* (IO_File_stat.cpp:119-149), and no two processes have locked a file of which
\* one holds the write lock (IO_File_creat-open-read-close.cpp:321-408).
LinksCounted ==
  /\ \A i \in Inodes : inode[i].links = Cardinality({n \in Names : directory[n] = i})
  /\ \A u, v \in Users : \A l \in recordLocks :
       l.owner = u /\ v # u /\ l.kind = "write" => \A m \in recordLocks : m.owner = v => m.in # l.in

\* A record written with O_APPEND (IO_File_creat-open-read-close.cpp:186-195)
\* stays unless the file is truncated: only a write at an offset that lseek
\* found before (230-234) can land on it.
WritesSurvive ==
  \A w \in written :
    LET data == inode[w.in].data IN
      w.at <= Len(data) /\ data[w.at] # <<w.by, tool[w.by]>> =>
        \/ \E v \in written : v # w /\ v.in = w.in /\ v.at = w.at /\ tool[v.by] = "location"
        \/ \E u \in Users : tool[u] \in {"creat", "touch"}
=============================================================================
