---------------------------- MODULE SharedCounter ----------------------------
(***************************************************************************)
(* The counters in shared memory of Posix_shared_memory/mman_test.cpp:     *)
(* test_mman_1_1, 1_2 and 2_1 (a parent and its child count in a mapping   *)
(* that they inherit), test_mman_3_service and test_mman_3_client (any     *)
(* clients count in a named segment).  All but 1_2 take the mutex from the *)
(* one name SEM_name, so that they meet there when they run at the same    *)
(* time; that of 1_2 is in its mapping.                                    *)
(* An earlier run may have left a segment and a semaphore behind; an       *)
(* object without a name lives on for those who have it.  A process may    *)
(* be killed at any time.  Nobody writes -1, so the service never ends.    *)
(***************************************************************************)
EXTENDS Naturals, FiniteSets

CONSTANTS
  Clients,    \* the processes of test_mman_3_client
  Turns,      \* bound: Count_Num, and the 100000 of the clients
  MaxKilled   \* bound: processes that are killed

Family == {"parent", "child"}
Counting == Family \cup Clients
Processes == Counting \cup {"service"}
Segments == {"left", "made", "inherited"}
Semaphores == {"left", "service's", "family's"}
Free == "no object"

VARIABLES
  segName,   \* the segment SHM_name stands for
  semName,   \* the semaphore SEM_name stands for
  semValue,  \* the value of each semaphore
  count,     \* the counter of each segment
  added,     \* the increments that were written to each segment
  at,        \* label of each process
  segment,   \* the segment each process has mapped
  mutex,     \* the semaphore each process has open
  read,      \* the counter as each process read it
  turn,      \* rounds each process has done
  early      \* the clients that mapped a segment not yet set to 0

names == <<segName, semName>>
handles == <<segment, mutex, early>>
vars == <<names, semValue, count, added, at, handles, read, turn>>

Quiet ==
  /\ count = [s \in Segments |-> 0] /\ added = count /\ early = {}
  /\ segment = [p \in Processes |-> Free] /\ mutex = [p \in Processes |-> Free]
  /\ read = [p \in Processes |-> 0] /\ turn = [p \in Processes |-> 0]

\* Which of the programs are run (the service with its clients, or one of them
\* with the family), and what an earlier one left.
Init ==
  /\ Quiet
  /\ segName \in {"left", Free} /\ semName \in {"left", Free}
  /\ semValue \in [Semaphores -> {0, 1}]
  /\ semValue["service's"] = 0 /\ semValue["family's"] = 0
  /\ semName = Free => semValue["left"] = 0
  /\ \E first \in Clients, family \in {"open", "init", "absent"} :
       at = [p \in Processes |->
               CASE p = "service" -> "unlink segment"
                 [] p = first \/ (p \in Clients /\ family = "absent") -> "open"
                 [] p = "parent" -> family
                 [] OTHER -> "absent"]
NotRun ==
  /\ Quiet /\ segName = Free /\ semName = Free /\ semValue = [s \in Semaphores |-> 0]
  /\ at = [p \in Processes |-> "absent"]

Goto(p, label) == at' = [at EXCEPT ![p] = label]

-----------------------------------------------------------------------------
(* Names *)

\* Sem_open with O_CREAT, and O_EXCL or not; an error ends the process.
SemCreate(p, new, exclusive, next) ==
  IF exclusive /\ semName # Free
  THEN Goto(p, "failed") /\ UNCHANGED <<semName, semValue, mutex>>
  ELSE /\ semName' = IF semName = Free THEN new ELSE semName
       /\ semValue' = IF semName = Free THEN [semValue EXCEPT ![new] = 1] ELSE semValue
       /\ mutex' = [mutex EXCEPT ![p] = semName'] /\ Goto(p, next)

-----------------------------------------------------------------------------
(* Parent and child *)

FamilyOpens ==
  /\ at["parent"] = "open"
  /\ SemCreate("parent", "family's", FALSE, "unlink")
  /\ segment' = [segment EXCEPT !["parent"] = "inherited"]
  /\ UNCHANGED <<segName, count, added, early, read, turn>>

\* Sem_unlink fails when another process was faster; then Fork.
FamilyUnlinks ==
  /\ at["parent"] = "unlink"
  /\ IF semName = Free
     THEN Goto("parent", "failed") /\ UNCHANGED <<semName, handles>>
     ELSE /\ semName' = Free /\ at' = [p \in Processes |-> IF p \in Family THEN "wait" ELSE at[p]]
          /\ segment' = [segment EXCEPT !["child"] = "inherited"]
          /\ mutex' = [mutex EXCEPT !["child"] = mutex["parent"]] /\ UNCHANGED early
  /\ UNCHANGED <<segName, semValue, count, added, read, turn>>

\* test_mman_1_2: Sem_init in the mapping, then Fork
FamilyInits ==
  /\ at["parent"] = "init" /\ semValue' = [semValue EXCEPT !["family's"] = 1]
  /\ at' = [p \in Processes |-> IF p \in Family THEN "wait" ELSE at[p]]
  /\ segment' = [p \in Processes |-> IF p \in Family THEN "inherited" ELSE segment[p]]
  /\ mutex' = [p \in Processes |-> IF p \in Family THEN "family's" ELSE mutex[p]]
  /\ UNCHANGED <<names, count, added, early, read, turn>>

-----------------------------------------------------------------------------
(* The service *)

ServiceUnlinksSegment ==
  /\ at["service"] = "unlink segment" /\ segName' = Free /\ Goto("service", "create")
  /\ UNCHANGED <<semName, semValue, count, added, handles, read, turn>>

ServiceCreates ==
  /\ at["service"] = "create" /\ segName' = "made" /\ Goto("service", "map")
  /\ UNCHANGED <<semName, semValue, count, added, handles, read, turn>>

\* Ftruncate, Mmap; until then the segment is empty.
ServiceMaps ==
  /\ at["service"] = "map" /\ Goto("service", "zero")
  /\ segment' = [segment EXCEPT !["service"] = "made"]
  /\ UNCHANGED <<names, semValue, count, added, mutex, early, read, turn>>
Empty(s) == s = "made" /\ at["service"] = "map"

ServiceZeroes ==
  /\ at["service"] = "zero" /\ count' = [count EXCEPT !["made"] = 0]
  /\ Goto("service", "unlink semaphore")
  /\ UNCHANGED <<names, semValue, added, handles, read, turn>>

ServiceUnlinksSemaphore ==
  /\ at["service"] = "unlink semaphore" /\ semName' = Free /\ Goto("service", "open")
  /\ UNCHANGED <<segName, semValue, count, added, handles, read, turn>>

ServiceOpens ==
  /\ at["service"] = "open" /\ SemCreate("service", "service's", TRUE, "wait")
  /\ UNCHANGED <<segName, count, added, segment, early, read, turn>>

-----------------------------------------------------------------------------
(* The clients *)

ClientMaps(c) ==
  /\ at[c] = "open"
  /\ IF segName = Free
     THEN Goto(c, "failed") /\ UNCHANGED <<segment, early>>
     ELSE /\ segment' = [segment EXCEPT ![c] = segName] /\ Goto(c, "open semaphore")
          /\ early' = IF at["service"] \in {"map", "zero"} THEN early \cup {c} ELSE early
  /\ UNCHANGED <<names, semValue, count, added, mutex, read, turn>>

ClientOpens(c) ==
  /\ at[c] = "open semaphore"
  /\ IF semName = Free
     THEN Goto(c, "failed") /\ UNCHANGED mutex
     ELSE mutex' = [mutex EXCEPT ![c] = semName] /\ Goto(c, "wait")
  /\ UNCHANGED <<names, semValue, count, added, segment, early, read, turn>>

-----------------------------------------------------------------------------
(* The loop of all of them *)

\* Wrong on purpose: sem_trywait, and nobody looks at what it returns.
TryWait(p) ==
  /\ at[p] = "wait"
  /\ semValue' = [semValue EXCEPT ![mutex[p]] = IF @ > 0 THEN @ - 1 ELSE @]
  /\ Goto(p, IF p = "service" THEN "post" ELSE "read")
  /\ UNCHANGED <<names, count, added, handles, read, turn>>

Wait(p) ==
  /\ at[p] = "wait" /\ semValue[mutex[p]] > 0
  /\ semValue' = [semValue EXCEPT ![mutex[p]] = @ - 1]
  /\ Goto(p, IF p = "service" THEN "post" ELSE "read")
  /\ UNCHANGED <<names, count, added, handles, read, turn>>

\* (*data_addr)++, a SIGBUS in an empty segment; the service only looks.
Read(p) ==
  /\ at[p] = "read"
  /\ IF Empty(segment[p])
     THEN Goto(p, "killed holding") /\ UNCHANGED read
     ELSE Goto(p, "write") /\ read' = [read EXCEPT ![p] = count[segment[p]]]
  /\ UNCHANGED <<names, semValue, count, added, handles, turn>>

Write(p) ==
  /\ at[p] = "write" /\ Goto(p, "post")
  /\ count' = [count EXCEPT ![segment[p]] = read[p] + 1]
  /\ added' = [added EXCEPT ![segment[p]] = @ + 1] /\ read' = [read EXCEPT ![p] = 0]
  /\ UNCHANGED <<names, semValue, handles, turn>>

Post(p) ==
  /\ at[p] = "post" /\ semValue' = [semValue EXCEPT ![mutex[p]] = @ + 1]
  /\ turn' = IF p = "service" THEN turn ELSE [turn EXCEPT ![p] = @ + 1]
  /\ Goto(p, IF p # "service" /\ turn[p] + 1 = Turns THEN "done" ELSE "wait")
  /\ UNCHANGED <<names, count, added, handles, read>>

Loop(p) == Wait(p) \/ Read(p) \/ Write(p) \/ Post(p)

\* Ctrl-C: nothing is posted, and no name goes away.
Killed(p) ==
  /\ Cardinality({q \in Processes : at[q] \in {"killed", "killed holding"}}) < MaxKilled
  /\ \/ at[p] = "wait" /\ Goto(p, "killed")
     \/ at[p] \in {"read", "write", "post"} /\ Goto(p, "killed holding")
  /\ UNCHANGED <<names, semValue, count, added, handles, read, turn>>

Next ==
  \/ FamilyOpens \/ FamilyUnlinks \/ FamilyInits
  \/ ServiceUnlinksSegment \/ ServiceCreates \/ ServiceMaps \/ ServiceZeroes
  \/ ServiceUnlinksSemaphore \/ ServiceOpens
  \/ \E c \in Clients : ClientMaps(c) \/ ClientOpens(c)
  \/ \E p \in Processes : Loop(p) \/ Killed(p)

Spec == Init /\ [][Next]_vars

-----------------------------------------------------------------------------
(* Properties *)

TypeOK ==
  /\ segName \in {"left", "made", Free} /\ semName \in Semaphores \cup {Free}
  /\ semValue \in [Semaphores -> {0, 1}]
  /\ count \in [Segments -> Nat] /\ added \in [Segments -> Nat]
  /\ at \in [Processes -> {"absent", "unlink segment", "create", "map", "zero", "unlink semaphore",
                           "open", "init", "unlink", "open semaphore", "wait", "read", "write",
                           "post", "done", "failed", "killed", "killed holding"}]
  /\ segment \in [Processes -> Segments \cup {Free}]
  /\ mutex \in [Processes -> Semaphores \cup {Free}]
  /\ read \in [Processes -> Nat] /\ turn \in [Processes -> 0..Turns]
  /\ early \subseteq Clients

CountingIn(s) == {p \in Counting : segment[p] = s /\ mutex[p] # Free}

\* An increment is lost only when two processes that count in one segment
\* took their semaphore from the name on the two sides of an unlink, or when
\* a client counted before the service set the counter to 0
\* (mman_test.cpp:419-430): who shares the semaphore loses nothing, killed or not.
LostOnlyToOldSemaphore ==
  \A s \in Segments :
    count[s] # added[s] =>
      \/ \E p, q \in CountingIn(s) : mutex[p] # mutex[q]
      \/ CountingIn(s) \cap early # {}

\* The permit of a semaphore that was created is there, or one process has
\* it: a waiter waits for ever only after that process was killed
\* (mman_test.cpp:464-466), now or in the run that left the semaphore.
Holders(m) ==
  {p \in Processes : mutex[p] = m /\ at[p] \in {"read", "write", "post", "killed holding"}}
PermitHeldOnce ==
  \A m \in Semaphores :
    /\ semValue[m] = 1 => Holders(m) = {}
    /\ \A p, q \in Holders(m) : p = q
    /\ m # "left" /\ semValue[m] = 0 /\ (\E p \in Processes : mutex[p] = m) => Holders(m) # {}
=============================================================================
