------------------------------- MODULE Storage -------------------------------
(***************************************************************************)
(* The programs that share memory, semaphores or files, and the helpers    *)
(* that carry bytes, messages and descriptors.  As in Channels, a choice   *)
(* of the menu starts one kind of program and ends in exit; the semaphore  *)
(* and memory programs are choices 30 to 32, 34 to 37, 39 and 40, the      *)
(* locks on a pid file 24 to 29.  The other file programs and the helpers  *)
(* are called from programs of their own.                                  *)
(***************************************************************************)
EXTENDS Integers, Sequences, FiniteSets

CONSTANTS
  Clients,     \* the processes of test_mman_3_client
  Turns,       \* bound: Count_Num, and the 100000 of the clients
  MaxKilled,   \* bound: processes that are killed
  Producers,   \* the threads of produce in test_semaphore_unnamed_01
  First,       \* the one the other semaphore programs start
  BuffLen,     \* buff_len
  ItemsNum,    \* items_num
  MaxCrashes,  \* bound: times a semaphore program is killed and run again
  Runs,        \* the runs of the programs that lock a file
  Users,       \* the processes that use the files
  Page,        \* cells of a page of memory
  MaxFiles,    \* bound: files that exist at a time
  Size,        \* the buffer passed to a helper
  MaxBytes,    \* bound: the bytes of one conversation
  Numbers,     \* send_all stops at this number
  MaxMail      \* bound: messages with control data

ASSUME ClientsAssumption == Clients \cap {"parent", "child", "service"} = {}
ASSUME TurnsAssumption == Turns \in Nat \ {0}
ASSUME SemAssumption ==
  /\ First \in Producers /\ IsFiniteSet(Producers)
  /\ {BuffLen, ItemsNum} \subseteq Nat \ {0} /\ MaxCrashes \in Nat
ASSUME FilesAssumption == {Page, MaxFiles} \subseteq Nat \ {0}

\* Choices 35 to 37, 39 and 40: counters in shared memory
VARIABLES segName, semName, semValue, count, added, at, segment, mutex, read, turn, early
Counter == INSTANCE SharedCounter
\* Choices 30 to 32 and 34: semaphores
VARIABLES test, left, dirty, value, stage, step, producer, consumer, buff,
          total_produced, total_consumed, index, crashes
Sem == INSTANCE SemPrograms
\* The programs of unix_I_O_FILE on file_test-01
VARIABLES tool, todo, fate, directory, inode, fd, recordLocks, seen, written
File == INSTANCE Files
\* Choices 24 to 29: locks on /tmp/zcq.pid
VARIABLES script, lockers, steps, locks, file, offset
FileLock == INSTANCE FileLocks WITH state <- lockers, todo <- steps
\* Helpers on streams
VARIABLES helper, peer, said, stream, buffer, junk, state, retval
Stream == INSTANCE Streams
\* Helpers on messages
VARIABLES exchange, number, network, printed, mail, shut, sender, receiver,
          recvsize, info, wild
Mail == INSTANCE Datagrams

counterVars == <<segName, semName, semValue, count, added, at, segment, mutex, read,
                 turn, early>>
semVars == <<test, left, dirty, value, stage, step, producer, consumer, buff,
             total_produced, total_consumed, index, crashes>>
fileVars == <<tool, todo, fate, directory, inode, fd, recordLocks, seen, written>>
lockVars == <<script, lockers, steps, locks, file, offset>>
streamVars == <<helper, peer, said, stream, buffer, junk, state, retval>>
mailVars == <<exchange, number, network, printed, mail, shut, sender, receiver,
              recvsize, info, wild>>
vars == <<counterVars, semVars, fileVars, lockVars, streamVars, mailVars>>

Init ==
  \/ Counter!Init /\ Sem!NotRun /\ File!NotRun /\ FileLock!NotRun /\ Stream!NotRun /\ Mail!NotRun
  \/ Counter!NotRun /\ Sem!Init /\ File!NotRun /\ FileLock!NotRun /\ Stream!NotRun /\ Mail!NotRun
  \/ Counter!NotRun /\ Sem!NotRun /\ File!Init /\ FileLock!NotRun /\ Stream!NotRun /\ Mail!NotRun
  \/ Counter!NotRun /\ Sem!NotRun /\ File!NotRun /\ FileLock!Init /\ Stream!NotRun /\ Mail!NotRun
  \/ Counter!NotRun /\ Sem!NotRun /\ File!NotRun /\ FileLock!NotRun /\ Stream!Init /\ Mail!NotRun
  \/ Counter!NotRun /\ Sem!NotRun /\ File!NotRun /\ FileLock!NotRun /\ Stream!NotRun /\ Mail!Init

Next ==
  \/ Counter!Next /\ UNCHANGED <<semVars, fileVars, lockVars, streamVars, mailVars>>
  \/ Sem!Next /\ UNCHANGED <<counterVars, fileVars, lockVars, streamVars, mailVars>>
  \/ File!Next /\ UNCHANGED <<counterVars, semVars, lockVars, streamVars, mailVars>>
  \/ FileLock!Next /\ UNCHANGED <<counterVars, semVars, fileVars, streamVars, mailVars>>
  \/ Stream!Next /\ UNCHANGED <<counterVars, semVars, fileVars, lockVars, mailVars>>
  \/ Mail!Next /\ UNCHANGED <<counterVars, semVars, fileVars, lockVars, streamVars>>

Spec == Init /\ [][Next]_vars

-----------------------------------------------------------------------------
(* Every variable of the six kinds of program has a value of its kind. *)
TypeOK == /\ Counter!TypeOK /\ Sem!TypeOK /\ File!TypeOK
          /\ FileLock!TypeOK /\ Stream!TypeOK /\ Mail!TypeOK

(* Counters in shared memory (mman_test.cpp:419-430, 452-468): an increment *)
(* is lost only by processes that took their semaphore on the two sides of  *)
(* an unlink or before the service reset the counter, and each permit is    *)
(* held once: a waiter is stuck only by a process that was killed.          *)
LostOnlyToOldSemaphore == Counter!LostOnlyToOldSemaphore /\ Counter!PermitHeldOnce

(* Semaphore programs: items are taken in their order and the semaphores    *)
(* end as they began, unless a run that was killed while its threads ran    *)
(* left its named semaphores (semaphore_test.cpp:156-158).                  *)
IntactUnlessLeftDirty == Sem!IntactUnlessLeftDirty

(* Files: a record that was appended stays until the file is truncated or   *)
(* written at an offset found earlier (IO_File_creat-open-read-close.cpp:   *)
(* 186-195, 230-234), links are counted, no write lock is shared.           *)
WritesSurvive == File!WritesSurvive /\ File!LinksCounted

(* Pid file (file_lock.cpp:360-396): of any number of runs one process is   *)
(* past its lock, and what it wrote is the whole of the file; processes     *)
(* that wait for locks never all wait for each other.                       *)
PidFileNamesHolder == FileLock!PidFileNamesHolder /\ FileLock!LocksGoOn

(* Helpers: a reader that returns 0 has reached the end, so an empty line   *)
(* is not taken for it (IO_read_write.cpp:116); what is read or written is  *)
(* what was sent, in order, and the value counts it; a receiver of messages *)
(* reports nothing that did not come with one, dead frames aside.           *)
NothingMisread == Stream!ZeroMeansEnd /\ Stream!BytesInOrder /\ Mail!ReportsAreReal
=============================================================================
