-------------------------- MODULE ShmMessages_proofs --------------------------
(***************************************************************************)
(* The safety properties of ShmMessages, for any number of slots and of    *)
(* messages: the ranges of the semaphores for any number of clients, the   *)
(* order of printing and the count of the losses for a single client (with *)
(* two clients they are false).                                            *)
(*                                                                         *)
(* A semaphore stays in its range as what it counts is held by a process   *)
(* or stays in it.  With one client the slots that are written and not yet *)
(* printed are a run of the ring that starts where the service reads, and  *)
(* the client writes at the end of it; what lies outside was printed.      *)
(***************************************************************************)
EXTENDS ShmMessages, FiniteSetTheorems, TLAPS

\* The places at which a client holds a mutex, or a slot it took from empty_num.
InMutex == {"write", "post_mutex"}
InOverflow == {"count_overflow"}
InSlot == {"wait_mutex", "write", "post_mutex", "post_stored"}

At(P) == {c \in Clients : pc[c] \in P}
In(p, P) == IF p \in P THEN 1 ELSE 0

MutexBalance ==
    mutex + Cardinality(At(InMutex)) + In(service, {"print", "post_mutex"}) = 1
OverflowBalance ==
    overflowmutex + Cardinality(At(InOverflow)) + In(service, {"post_overflow"}) = 1
SlotBalance ==
    empty_num + stored_num + Cardinality(At(InSlot))
      + In(service, {"wait_mutex", "print", "post_mutex", "post_empty"}) = SlotsNum

\* A client is past the loop's test only while messages are left.
InLoop == \A c \in Clients : pc[c] # "try_empty" => i[c] < LoopNum

IInv == TypeOK /\ MutexBalance /\ OverflowBalance /\ SlotBalance /\ InLoop

-----------------------------------------------------------------------------
(* Counting the clients at some places.                                    *)

\* They are finitely many, before and after a step.
LEMMA FiniteAt ==
    ASSUME NEW P
    PROVE  /\ IsFiniteSet(At(P)) /\ Cardinality(At(P)) \in Nat
           /\ Cardinality(At(P))' \in Nat
<1>1. At(P) \subseteq Clients /\ At(P)' \subseteq Clients
  BY DEF At
<1>2. IsFiniteSet(At(P)) /\ IsFiniteSet(At(P)')
  BY <1>1, ShmMessagesAssumption, FS_Subset
<1>. QED
  BY <1>2, FS_CardinalityType

\* How a move of one client changes their number.
LEMMA CountMove ==
    ASSUME NEW P, NEW c \in Clients, NEW x, TypeOK, pc' = [pc EXCEPT ![c] = x]
    PROVE  Cardinality(At(P))' = Cardinality(At(P)) + In(x, P) - In(pc[c], P)
<1>1. \A d \in Clients : pc'[d] = IF d = c THEN x ELSE pc[d]
  BY DEF TypeOK
<1>2. IsFiniteSet(At(P)) /\ Cardinality(At(P)) \in Nat
  BY FiniteAt
<1>3. CASE pc[c] \in P <=> x \in P
  <2>1. At(P)' = At(P)
    BY <1>1, <1>3 DEF At
  <2>. QED
    BY <1>2, <1>3, <2>1 DEF In
<1>4. CASE pc[c] \notin P /\ x \in P
  <2>1. At(P)' = At(P) \cup {c} /\ c \notin At(P)
    BY <1>1, <1>4 DEF At
  <2>2. Cardinality(At(P) \cup {c}) = Cardinality(At(P)) + 1
    BY <1>2, <2>1, FS_AddElement
  <2>3. In(x, P) = 1 /\ In(pc[c], P) = 0
    BY <1>4 DEF In
  <2>. QED
    BY <1>2, <2>1, <2>2, <2>3
<1>5. CASE pc[c] \in P /\ x \notin P
  <2>1. At(P)' = At(P) \ {c} /\ c \in At(P)
    BY <1>1, <1>5 DEF At
  <2>2. Cardinality(At(P) \ {c}) = Cardinality(At(P)) - 1
    BY <1>2, <2>1, FS_RemoveElement
  <2>3. In(x, P) = 0 /\ In(pc[c], P) = 1
    BY <1>5 DEF In
  <2>. QED
    BY <1>2, <2>1, <2>2, <2>3
<1>. QED
  BY <1>3, <1>4, <1>5

\* A step that moves no client.
LEMMA CountStays ==
    ASSUME NEW P, UNCHANGED pc
    PROVE  Cardinality(At(P))' = Cardinality(At(P))
<1>1. At(P)' = At(P)
  BY DEF At
<1>. QED
  BY <1>1

-----------------------------------------------------------------------------
(* The ranges of the semaphores.                                           *)

\* The invariant holds initially.
LEMMA InitIInv == Init => IInv
<1>. SUFFICES ASSUME Init PROVE IInv
  OBVIOUS
<1>. USE ShmMessagesAssumption
<1>1. \A P : "try_empty" \notin P => At(P) = {}
  BY DEF Init, At
<1>2. At(InMutex) = {} /\ At(InOverflow) = {} /\ At(InSlot) = {}
  BY <1>1 DEF InMutex, InOverflow, InSlot
<1>3. MutexBalance /\ OverflowBalance /\ SlotBalance /\ InLoop
  BY <1>2, FS_EmptySet
  DEF Init, MutexBalance, OverflowBalance, SlotBalance, InLoop, In
<1>4. TypeOK
  <2>1. 0 \in 0 .. SlotsNum - 1 /\ 0 \in 0 .. LoopNum
    OBVIOUS
  <2>2. <<>> \in Seq(Messages \cup {Blank})
    OBVIOUS
  <2>. QED
    BY <2>1, <2>2 DEF Init, TypeOK
<1>. QED
  BY <1>3, <1>4 DEF IInv

\* With the balances the semaphores are in range as soon as they are numbers.
LEMMA Ranges ==
    ASSUME MutexBalance', OverflowBalance', SlotBalance',
           mutex' \in Nat, overflowmutex' \in Nat, empty_num' \in Nat, stored_num' \in Nat
    PROVE  /\ {overflowmutex', mutex'} \subseteq {0, 1}
           /\ {empty_num', stored_num'} \subseteq 0 .. SlotsNum
<1>1. /\ Cardinality(At(InMutex))' \in Nat /\ Cardinality(At(InOverflow))' \in Nat
      /\ Cardinality(At(InSlot))' \in Nat
  BY FiniteAt
<1>. QED
  BY <1>1, ShmMessagesAssumption DEF MutexBalance, OverflowBalance, SlotBalance, In

\* What the type invariant says of the numbers.
LEMMA Types ==
    ASSUME TypeOK
    PROVE  /\ mutex \in Nat /\ overflowmutex \in Nat /\ empty_num \in Nat
           /\ stored_num \in Nat /\ overflow \in Nat
           /\ \A c \in Clients : i[c] \in Nat /\ index[c] \in 0 .. SlotsNum - 1
           /\ read_index \in 0 .. SlotsNum - 1 /\ SlotsNum \in Nat \ {0} /\ LoopNum \in Nat
BY ShmMessagesAssumption DEF TypeOK

\* The index after one of the ring is one of the ring.
LEMMA AfterInRing ==
    ASSUME NEW k \in 0 .. SlotsNum - 1
    PROVE  After(k) \in 0 .. SlotsNum - 1
BY ShmMessagesAssumption DEF After

Exchange(c, x) ==
    /\ mutex' + In(x, InMutex) = mutex + In(pc[c], InMutex)
    /\ overflowmutex' + In(x, InOverflow) = overflowmutex + In(pc[c], InOverflow)
    /\ empty_num' + stored_num' + In(x, InSlot) = empty_num + stored_num + In(pc[c], InSlot)
    /\ mutex' \in Nat /\ overflowmutex' \in Nat /\ empty_num' \in Nat /\ stored_num' \in Nat

\* A client's move that takes from a semaphore what its place then holds.
LEMMA ClientBalanced ==
    ASSUME IInv, NEW c \in Clients, NEW x, pc' = [pc EXCEPT ![c] = x],
           UNCHANGED service, Exchange(c, x)
    PROVE  /\ MutexBalance' /\ OverflowBalance' /\ SlotBalance'
           /\ {overflowmutex', mutex'} \subseteq {0, 1}
           /\ {empty_num', stored_num'} \subseteq 0 .. SlotsNum
<1>1. \A p, P : In(p, P) \in Nat
  BY DEF In
<1>2. \A P : Cardinality(At(P))' = Cardinality(At(P)) + In(x, P) - In(pc[c], P)
  BY CountMove DEF IInv
<1>3. \A P : Cardinality(At(P)) \in Nat
  BY FiniteAt
<1>4. MutexBalance'
  BY <1>1, <1>2, <1>3, Types DEF IInv, Exchange, MutexBalance
<1>5. OverflowBalance'
  BY <1>1, <1>2, <1>3, Types DEF IInv, Exchange, OverflowBalance
<1>6. SlotBalance'
  BY <1>1, <1>2, <1>3, Types DEF IInv, Exchange, SlotBalance
<1>. QED
  BY <1>4, <1>5, <1>6, Ranges DEF Exchange

\* A step of the service that takes from a semaphore what its place then holds.
LEMMA ServiceBalanced ==
    ASSUME IInv, UNCHANGED pc,
           mutex' + In(service', {"print", "post_mutex"})
               = mutex + In(service, {"print", "post_mutex"}),
           overflowmutex' + In(service', {"post_overflow"})
               = overflowmutex + In(service, {"post_overflow"}),
           empty_num' + stored_num'
                 + In(service', {"wait_mutex", "print", "post_mutex", "post_empty"})
               = empty_num + stored_num
                   + In(service, {"wait_mutex", "print", "post_mutex", "post_empty"}),
           mutex' \in Nat, overflowmutex' \in Nat, empty_num' \in Nat, stored_num' \in Nat
    PROVE  /\ MutexBalance' /\ OverflowBalance' /\ SlotBalance'
           /\ {overflowmutex', mutex'} \subseteq {0, 1}
           /\ {empty_num', stored_num'} \subseteq 0 .. SlotsNum
<1>1. \A p, P : In(p, P) \in Nat
  BY DEF In
<1>2. \A P : Cardinality(At(P))' = Cardinality(At(P))
  BY CountStays
<1>3. \A P : Cardinality(At(P)) \in Nat
  BY FiniteAt
<1>4. MutexBalance'
  BY <1>1, <1>2, <1>3, Types DEF IInv, MutexBalance
<1>5. OverflowBalance'
  BY <1>1, <1>2, <1>3, Types DEF IInv, OverflowBalance
<1>6. SlotBalance'
  BY <1>1, <1>2, <1>3, Types DEF IInv, SlotBalance
<1>. QED
  BY <1>4, <1>5, <1>6, Ranges

\* The service's steps.
LEMMA ServiceIInv == IInv /\ Service => IInv'
<1>. SUFFICES ASSUME IInv, Service PROVE IInv'
  OBVIOUS
<1>1. UNCHANGED <<slots, overflow, pc, i, index>>
  BY DEF Service, ServeWaitStored, ServeWaitMutex, PrintMessage, ServePostMutex,
         ServePostEmpty, ServeWaitOverflow, ServePostOverflow
<1>2. /\ MutexBalance' /\ OverflowBalance' /\ SlotBalance'
      /\ {overflowmutex', mutex'} \subseteq {0, 1}
      /\ {empty_num', stored_num'} \subseteq 0 .. SlotsNum
  <2>1. CASE ServeWaitStored
    BY <2>1, <1>1, ServiceBalanced, Types DEF IInv, ServeWaitStored, In
  <2>2. CASE ServeWaitMutex
    BY <2>2, <1>1, ServiceBalanced, Types DEF IInv, ServeWaitMutex, In
  <2>3. CASE PrintMessage
    BY <2>3, <1>1, ServiceBalanced, Types DEF IInv, PrintMessage, In
  <2>4. CASE ServePostMutex
    BY <2>4, <1>1, ServiceBalanced, Types DEF IInv, ServePostMutex, In
  <2>5. CASE ServePostEmpty
    BY <2>5, <1>1, ServiceBalanced, Types DEF IInv, ServePostEmpty, In
  <2>6. CASE ServeWaitOverflow
    BY <2>6, <1>1, ServiceBalanced, Types DEF IInv, ServeWaitOverflow, In
  <2>7. CASE ServePostOverflow
    BY <2>7, <1>1, ServiceBalanced, Types DEF IInv, ServePostOverflow, In
  <2>. QED
    BY <2>1, <2>2, <2>3, <2>4, <2>5, <2>6, <2>7 DEF Service
<1>3. printed' \in Seq(Messages \cup {Blank})
  <2>1. CASE PrintMessage
    <3>1. slots[read_index] \in Messages \cup {Blank}
      BY DEF IInv, TypeOK
    <3>. QED
      BY <2>1, <3>1 DEF PrintMessage, IInv, TypeOK
  <2>2. CASE ~PrintMessage
    BY <2>2 DEF IInv, TypeOK, Service, ServeWaitStored, ServeWaitMutex, ServePostMutex,
                ServePostEmpty, ServeWaitOverflow, ServePostOverflow
  <2>. QED
    BY <2>1, <2>2
<1>4. read_index' \in 0 .. SlotsNum - 1
  BY AfterInRing, Types
  DEF IInv, Service, ServeWaitStored, ServeWaitMutex, PrintMessage, ServePostMutex,
      ServePostEmpty, ServeWaitOverflow, ServePostOverflow
<1>5. service' \in {"wait_stored", "wait_mutex", "print", "post_mutex",
                    "post_empty", "wait_overflow", "post_overflow"}
  BY DEF Service, ServeWaitStored, ServeWaitMutex, PrintMessage, ServePostMutex,
         ServePostEmpty, ServeWaitOverflow, ServePostOverflow
<1>. QED
  BY <1>1, <1>2, <1>3, <1>4, <1>5 DEF IInv, TypeOK, InLoop

\* A client's steps.
LEMMA ClientIInv == ASSUME IInv, NEW c \in Clients, Client(c) PROVE IInv'
<1>1. UNCHANGED <<service, read_index, printed>>
  BY DEF Client, TryEmpty, WaitOverflow, CountOverflow, WaitMutex, Write, PostMutex, PostStored
<1>2. PICK x \in {"try_empty", "wait_overflow", "count_overflow", "wait_mutex",
                  "write", "post_mutex", "post_stored"} :
          pc' = [pc EXCEPT ![c] = x]
  BY DEF Client, TryEmpty, WaitOverflow, CountOverflow, WaitMutex, Write, PostMutex,
         PostStored, Goto
<1>3. pc'[c] = x /\ pc' \in [Clients -> {"try_empty", "wait_overflow", "count_overflow",
                                        "wait_mutex", "write", "post_mutex", "post_stored"}]
  BY <1>2 DEF IInv, TypeOK
<1>4. \A y : Goto(c, y) => x = y
  BY <1>2 DEF IInv, TypeOK, Goto
<1>5. Exchange(c, x)
  <2>. USE <1>4, Types DEF IInv, Exchange, In, InMutex, InOverflow, InSlot
  <2>1. CASE TryEmpty(c)
    BY <2>1 DEF TryEmpty
  <2>2. CASE WaitOverflow(c)
    BY <2>2 DEF WaitOverflow
  <2>3. CASE CountOverflow(c)
    BY <2>3 DEF CountOverflow
  <2>4. CASE WaitMutex(c)
    BY <2>4 DEF WaitMutex
  <2>5. CASE Write(c)
    BY <2>5 DEF Write
  <2>6. CASE PostMutex(c)
    BY <2>6 DEF PostMutex
  <2>7. CASE PostStored(c)
    BY <2>7 DEF PostStored
  <2>. QED
    BY <2>1, <2>2, <2>3, <2>4, <2>5, <2>6, <2>7 DEF Client
<1>6. /\ MutexBalance' /\ OverflowBalance' /\ SlotBalance'
      /\ {overflowmutex', mutex'} \subseteq {0, 1}
      /\ {empty_num', stored_num'} \subseteq 0 .. SlotsNum
  BY <1>1, <1>2, <1>5, ClientBalanced
<1>7. InLoop' /\ i' \in [Clients -> 0 .. LoopNum]
  <2>1. \A d \in Clients : d # c => pc'[d] = pc[d]
    BY <1>2 DEF IInv, TypeOK
  <2>2. CASE CountOverflow(c) \/ PostStored(c)
    <3>1. x = "try_empty" /\ pc[c] # "try_empty" /\ i' = [i EXCEPT ![c] = @ + 1]
      BY <1>4, <2>2 DEF CountOverflow, PostStored
    <3>2. i[c] < LoopNum /\ i \in [Clients -> 0 .. LoopNum]
      BY <3>1 DEF IInv, TypeOK, InLoop
    <3>3. \A d \in Clients : i'[d] = IF d = c THEN i[c] + 1 ELSE i[d]
      BY <3>1, <3>2
    <3>4. i' \in [Clients -> 0 .. LoopNum]
      BY <3>1, <3>2, Types DEF IInv
    <3>. QED
      BY <1>3, <2>1, <3>1, <3>3, <3>4 DEF IInv, InLoop
  <2>3. CASE ~(CountOverflow(c) \/ PostStored(c))
    <3>1. UNCHANGED i /\ i[c] < LoopNum
      BY <2>3 DEF IInv, InLoop, Client, TryEmpty, WaitOverflow, WaitMutex, Write, PostMutex
    <3>. QED
      BY <2>1, <3>1 DEF IInv, TypeOK, InLoop
  <2>. QED
    BY <2>2, <2>3
<1>8. overflow' \in Nat /\ index' \in [Clients -> 0 .. SlotsNum - 1]
  <2>1. overflow' \in {overflow, overflow + 1}
    BY DEF Client, TryEmpty, WaitOverflow, CountOverflow, WaitMutex, Write, PostMutex,
           PostStored
  <2>2. UNCHANGED index \/ index' = [index EXCEPT ![c] = After(@)]
    BY DEF Client, TryEmpty, WaitOverflow, CountOverflow, WaitMutex, Write, PostMutex,
           PostStored
  <2>3. After(index[c]) \in 0 .. SlotsNum - 1
    BY AfterInRing, Types DEF IInv
  <2>. QED
    BY <2>1, <2>2, <2>3, Types DEF IInv, TypeOK
<1>9. slots' \in [0 .. SlotsNum - 1 -> Messages \cup {Blank}]
  <2>1. CASE Write(c)
    <3>1. [client |-> c, number |-> i[c]] \in Messages
      BY <2>1, Types DEF IInv, InLoop, Write, Messages
    <3>. QED
      BY <2>1, <3>1 DEF IInv, TypeOK, Write
  <2>2. CASE ~Write(c)
    BY <2>2 DEF IInv, TypeOK, Client, TryEmpty, WaitOverflow, CountOverflow, WaitMutex,
                PostMutex, PostStored
  <2>. QED
    BY <2>1, <2>2
<1>. QED
  BY <1>1, <1>3, <1>6, <1>7, <1>8, <1>9 DEF IInv, TypeOK

LEMMA NextIInv == IInv /\ [Next]_vars => IInv'
<1>. SUFFICES ASSUME IInv, [Next]_vars PROVE IInv'
  OBVIOUS
<1>1. CASE UNCHANGED vars
  BY <1>1, CountStays
  DEF vars, IInv, TypeOK, MutexBalance, OverflowBalance, SlotBalance, InLoop
<1>. QED
  BY <1>1, ServiceIInv, ClientIInv DEF Next

LEMMA Invariant == Spec => []IInv
BY InitIInv, NextIInv, PTL DEF Spec

(* mman_test.cpp:470-571: with any number of clients the mutexes stay binary,*)
(* and neither counting semaphore exceeds the number of slots.               *)
THEOREM ShmTypeCorrect == Spec => []TypeOK
<1>1. IInv => TypeOK
  BY DEF IInv
<1>. QED
  BY <1>1, Invariant, PTL

-----------------------------------------------------------------------------
(* A single client.  It and the service go round the ring with indices of  *)
(* their own, which the semaphores keep apart: the slots that are written  *)
(* and not printed are the Length ones from First on, and the client's     *)
(* index is the one after them.                                            *)

\* The slot that is printed next: the service advances its index only after
\* it has given the slot back.
First == IF service \in {"post_mutex", "post_empty", "wait_overflow", "post_overflow"}
         THEN After(read_index) ELSE read_index

\* How far round the ring a slot is from there.
Ahead(k) == IF k >= First THEN k - First ELSE k - First + SlotsNum

Ring == 0 .. SlotsNum - 1
Writing == {"post_mutex", "post_stored"}

\* The slots that are written and not printed, and the messages the client has
\* dealt with, the one it has just written included.
Length(c) == stored_num + In(service, {"wait_mutex", "print"}) + In(pc[c], Writing)
Done(c) == i[c] + In(pc[c], Writing)

Kept == (Range(printed) \cup Range(slots)) \ {Blank}

TailOfRun(c) ==
    /\ pc[c] \in Writing => Ahead(index[c]) = Length(c) - 1
    /\ pc[c] \notin Writing /\ Length(c) = SlotsNum => Ahead(index[c]) = 0
    /\ pc[c] \notin Writing /\ Length(c) # SlotsNum => Ahead(index[c]) = Length(c)

RunOfMessages(c) ==
    \A k \in Ring : Ahead(k) < Length(c) =>
        /\ slots[k] \in Messages
        /\ \A m \in 1 .. Len(printed) : printed[m].number < slots[k].number

RunGrows(c) ==
    \A k, l \in Ring : Ahead(k) < Ahead(l) /\ Ahead(l) < Length(c) =>
        slots[k].number < slots[l].number

RestPrinted(c) ==
    \A k \in Ring : ~(Ahead(k) < Length(c)) => slots[k] \in Range(printed) \cup {Blank}

PrintedGrows ==
    \A m, n \in 1 .. Len(printed) :
        /\ printed[m] \in Messages
        /\ m < n => printed[m].number < printed[n].number

Losses(c) ==
    /\ IsFiniteSet(Kept)
    /\ \A x \in Kept : x.number < Done(c)
    /\ overflow + Cardinality(Kept) = Done(c)

RInv(c) ==
    /\ TailOfRun(c)
    /\ RunOfMessages(c)
    /\ RunGrows(c)
    /\ RestPrinted(c)
    /\ PrintedGrows
    /\ Losses(c)

-----------------------------------------------------------------------------
(* The ring.                                                               *)

\* Where the service is about to print is a slot.
LEMMA FirstInRing ==
    /\ IInv => First \in Ring
    /\ IInv' => First' \in Ring
BY AfterInRing, ShmMessagesAssumption DEF IInv, TypeOK, First, Ring

\* The distances are those of a ring, and tell its slots apart.
LEMMA RingDistances ==
    ASSUME IInv
    PROVE  /\ \A k \in Ring : Ahead(k) \in Ring
           /\ \A k, l \in Ring : Ahead(k) = Ahead(l) => k = l
           /\ Ahead(First) = 0
           /\ \A k \in Ring : Ahead(After(k)) = IF Ahead(k) = SlotsNum - 1 THEN 0
                                                ELSE Ahead(k) + 1
BY FirstInRing, ShmMessagesAssumption DEF Ahead, Ring, After

\* After printing, each slot is one nearer, and the printed one is the last.
LEMMA RingAdvances ==
    ASSUME IInv, First' = After(First)
    PROVE  \A k \in Ring : Ahead(k)' = IF k = First THEN SlotsNum - 1 ELSE Ahead(k) - 1
BY FirstInRing, ShmMessagesAssumption DEF Ahead, Ring, After

\* With one client, a semaphore's holders are one bit.
LEMMA OneClient ==
    ASSUME NEW c, Clients = {c}, NEW P
    PROVE  Cardinality(At(P)) = In(pc[c], P)
<1>1. CASE pc[c] \in P
  <2>1. At(P) = {c}
    BY <1>1 DEF At
  <2>. QED
    BY <1>1, <2>1, FS_Singleton DEF In
<1>2. CASE pc[c] \notin P
  <2>1. At(P) = {}
    BY <1>2 DEF At
  <2>. QED
    BY <1>2, <2>1, FS_EmptySet DEF In
<1>. QED
  BY <1>1, <1>2

\* The run fits the ring, with a slot to spare while the client holds one that
\* it has not written.
LEMMA RunFits ==
    ASSUME IInv, NEW c, Clients = {c}
    PROVE  /\ Length(c) \in Nat /\ Length(c) <= SlotsNum
           /\ pc[c] \in {"wait_mutex", "write"} => Length(c) < SlotsNum
<1>1. Cardinality(At(InSlot)) = In(pc[c], InSlot)
  BY OneClient
<1>2. empty_num \in Nat /\ stored_num \in Nat /\ SlotsNum \in Nat
  BY Types DEF IInv
<1>3. empty_num + stored_num + In(pc[c], InSlot)
        + In(service, {"wait_mutex", "print", "post_mutex", "post_empty"}) = SlotsNum
  BY <1>1 DEF IInv, SlotBalance
<1>. QED
  BY <1>2, <1>3 DEF Length, In, InSlot, Writing

\* The range of a longer sequence.
LEMMA RangeAppend ==
    ASSUME NEW S, NEW s \in Seq(S), NEW e \in S
    PROVE  Range(Append(s, e)) = Range(s) \cup {e}
<1>1. /\ Len(Append(s, e)) = Len(s) + 1 /\ Len(s) \in Nat
      /\ DOMAIN s = 1 .. Len(s) /\ DOMAIN Append(s, e) = 1 .. Len(s) + 1
      /\ \A k \in 1 .. Len(s) : Append(s, e)[k] = s[k]
      /\ Append(s, e)[Len(s) + 1] = e
  OBVIOUS
<1>2. \A x \in Range(Append(s, e)) : x \in Range(s) \cup {e}
  BY <1>1 DEF Range
<1>3. \A x \in Range(s) \cup {e} : x \in Range(Append(s, e))
  BY <1>1 DEF Range
<1>. QED
  BY <1>2, <1>3

-----------------------------------------------------------------------------
(* The steps.                                                              *)

\* It holds initially.
LEMMA InitRInv == ASSUME NEW c, Clients = {c}, Init PROVE RInv(c)
<1>1. /\ printed = <<>> /\ Len(printed) = 0 /\ Range(printed) = {} /\ service = "wait_stored"
      /\ pc[c] = "try_empty" /\ i[c] = 0 /\ index[c] = 0 /\ stored_num = 0 /\ overflow = 0
      /\ read_index = 0 /\ slots = [k \in Ring |-> Blank]
  BY DEF Init, Range, Ring
<1>2. Length(c) = 0 /\ Done(c) = 0 /\ First = 0 /\ SlotsNum \in Nat \ {0}
  BY <1>1, ShmMessagesAssumption DEF Length, Done, First, In, Writing
<1>3. \A k \in Ring : Ahead(k) >= 0
  BY <1>2 DEF Ahead, Ring
<1>4. Kept = {}
  BY <1>1 DEF Kept, Range
<1>5. TailOfRun(c)
  BY <1>1, <1>2 DEF TailOfRun, Ahead, Writing
<1>6. RunOfMessages(c) /\ RunGrows(c) /\ RestPrinted(c) /\ PrintedGrows
  BY <1>1, <1>2, <1>3 DEF RunOfMessages, RunGrows, RestPrinted, PrintedGrows, Ahead, Ring
<1>7. Losses(c)
  BY <1>1, <1>2, <1>4, FS_EmptySet DEF Losses
<1>. QED
  BY <1>5, <1>6, <1>7 DEF RInv

\* A step that moves neither end of the run.
LEMMA RunStays ==
    ASSUME NEW c, RInv(c), UNCHANGED <<slots, printed, overflow>>, First' = First,
           Length(c)' = Length(c), Done(c)' = Done(c), TailOfRun(c)'
    PROVE  RInv(c)'
<1>1. \A k : Ahead(k)' = Ahead(k)
  BY DEF Ahead
<1>2. RunOfMessages(c)' /\ RunGrows(c)' /\ RestPrinted(c)' /\ PrintedGrows'
  BY <1>1 DEF RInv, RunOfMessages, RunGrows, RestPrinted, PrintedGrows
<1>3. Kept' = Kept
  BY DEF Kept
<1>4. Losses(c)'
  BY <1>3 DEF RInv, Losses
<1>. QED
  BY <1>2, <1>4 DEF RInv

\* The steps of the service but printing.
LEMMA ServiceRInv ==
    ASSUME NEW c, Clients = {c}, IInv, RInv(c), Service, ~PrintMessage
    PROVE  RInv(c)'
<1>1. UNCHANGED <<slots, overflow, pc, i, index, printed>>
  BY DEF Service, ServeWaitStored, ServeWaitMutex, ServePostMutex, ServePostEmpty,
         ServeWaitOverflow, ServePostOverflow
<1>2. First' = First
  BY DEF First, Service, ServeWaitStored, ServeWaitMutex, PrintMessage, ServePostMutex,
         ServePostEmpty, ServeWaitOverflow, ServePostOverflow
<1>3. Length(c)' = Length(c)
  BY <1>1, Types
  DEF IInv, Length, In, Service, ServeWaitStored, ServeWaitMutex, ServePostMutex,
      ServePostEmpty, ServeWaitOverflow, ServePostOverflow
<1>4. Done(c)' = Done(c)
  BY <1>1 DEF Done
<1>5. TailOfRun(c)'
  <2>1. Ahead(index[c])' = Ahead(index[c])
    BY <1>1, <1>2 DEF Ahead
  <2>. QED
    BY <1>1, <1>3, <2>1 DEF RInv, TailOfRun
<1>. QED
  BY <1>1, <1>2, <1>3, <1>4, <1>5, RunStays

\* Printing takes the first of the run.
LEMMA PrintRInv ==
    ASSUME NEW c, Clients = {c}, IInv, RInv(c), PrintMessage
    PROVE  RInv(c)'
<1>1. /\ service = "print" /\ service' = "post_mutex" /\ First = read_index
      /\ First' = After(First) /\ printed' = Append(printed, slots[First])
      /\ UNCHANGED <<slots, overflow, stored_num, pc, i, index>>
  BY DEF PrintMessage, First
<1>2. /\ Length(c) >= 1 /\ Length(c)' = Length(c) - 1 /\ Done(c)' = Done(c)
      /\ pc[c] \in Writing => Length(c) >= 2
      /\ Length(c) \in Nat /\ Length(c) <= SlotsNum /\ SlotsNum \in Nat \ {0}
  <2>1. Length(c) \in Nat /\ Length(c) <= SlotsNum /\ SlotsNum \in Nat \ {0} /\ stored_num \in Nat
    BY RunFits, Types DEF IInv
  <2>2. /\ In(service, {"wait_mutex", "print"}) = 1
        /\ In(service', {"wait_mutex", "print"}) = 0
    BY <1>1 DEF In
  <2>3. In(pc'[c], Writing) = In(pc[c], Writing) /\ In(pc[c], Writing) \in {0, 1}
    BY <1>1 DEF In
  <2>4. pc[c] \in Writing => In(pc[c], Writing) = 1
    BY DEF In
  <2>5. Done(c)' = Done(c)
    BY <1>1 DEF Done
  <2>. QED
    BY <1>1, <2>1, <2>2, <2>3, <2>4, <2>5 DEF Length
<1>3. \A k \in Ring : Ahead(k)' = IF k = First THEN SlotsNum - 1 ELSE Ahead(k) - 1
  BY <1>1, RingAdvances
<1>4. /\ First \in Ring /\ Ahead(First) = 0
      /\ \A k \in Ring : Ahead(k) \in Nat /\ Ahead(k) < SlotsNum
      /\ \A k \in Ring : Ahead(k) = 0 => k = First
  BY <1>2, FirstInRing, RingDistances DEF Ring
<1>5. /\ slots[First] \in Messages
      /\ \A m \in 1 .. Len(printed) : printed[m].number < slots[First].number
      /\ \A k \in Ring : k # First /\ Ahead(k) < Length(c) =>
             slots[First].number < slots[k].number
  BY <1>2, <1>4 DEF RInv, RunOfMessages, RunGrows
<1>6. /\ Range(printed') = Range(printed) \cup {slots[First]}
      /\ Len(printed') = Len(printed) + 1 /\ Len(printed) \in Nat
      /\ \A m \in 1 .. Len(printed) : printed'[m] = printed[m]
      /\ printed'[Len(printed) + 1] = slots[First]
  <2>1. printed \in Seq(Messages \cup {Blank}) /\ slots[First] \in Messages \cup {Blank}
    BY <1>5 DEF IInv, TypeOK
  <2>. QED
    BY <1>1, <2>1, RangeAppend
<1>7. TailOfRun(c)'
  <2>1. index[c] \in Ring
    BY Types DEF IInv, Ring
  <2>2. Ahead(index[c])' = IF index[c] = First THEN SlotsNum - 1 ELSE Ahead(index[c]) - 1
    BY <1>1, <1>3, <2>1 DEF Ahead
  <2>. QED
    BY <1>1, <1>2, <1>4, <2>1, <2>2 DEF RInv, TailOfRun
<1>8. RunOfMessages(c)'
  <2>1. ASSUME NEW k \in Ring, Ahead(k)' < Length(c)'
        PROVE  k # First /\ Ahead(k) < Length(c)
    BY <1>2, <1>3, <1>4, <2>1
  <2>2. ASSUME NEW k \in Ring, k # First, Ahead(k) < Length(c),
               NEW m \in 1 .. Len(printed')
        PROVE  printed'[m].number < slots[k].number
    BY <1>5, <1>6, <2>2 DEF RInv, RunOfMessages
  <2>. QED
    BY <1>1, <2>1, <2>2 DEF RInv, RunOfMessages, Ring
<1>9. RunGrows(c)'
  <2>1. ASSUME NEW k \in Ring, NEW l \in Ring,
               Ahead(k)' < Ahead(l)', Ahead(l)' < Length(c)'
        PROVE  slots[k].number < slots[l].number
    <3>1. k # First /\ l # First /\ Ahead(k) < Ahead(l) /\ Ahead(l) < Length(c)
      BY <1>2, <1>3, <1>4, <2>1
    <3>. QED
      BY <3>1 DEF RInv, RunGrows
  <2>. QED
    BY <1>1, <2>1 DEF RunGrows, Ring
<1>10. RestPrinted(c)'
  <2>1. ASSUME NEW k \in Ring, ~(Ahead(k)' < Length(c)')
        PROVE  slots[k] \in Range(printed') \cup {Blank}
    <3>1. k = First \/ ~(Ahead(k) < Length(c))
      BY <1>2, <1>3, <1>4, <2>1
    <3>. QED
      BY <1>6, <3>1 DEF RInv, RestPrinted
  <2>. QED
    BY <1>1, <2>1 DEF RestPrinted, Ring
<1>11. PrintedGrows'
  BY <1>5, <1>6 DEF RInv, PrintedGrows
<1>12. Losses(c)'
  <2>1. Kept' = Kept
    <3>1. slots[First] \in Range(slots)
      BY <1>4 DEF Range, IInv, TypeOK, Ring
    <3>2. Range(slots') = Range(slots)
      BY <1>1
    <3>. QED
      BY <1>6, <3>1, <3>2 DEF Kept
  <2>. QED
    BY <1>1, <1>2, <2>1 DEF RInv, Losses
<1>. QED
  BY <1>7, <1>8, <1>9, <1>10, <1>11, <1>12 DEF RInv

\* The client's steps that write no message and drop none.
LEMMA MoveRInv ==
    ASSUME NEW c, Clients = {c}, IInv, RInv(c),
           TryEmpty(c) \/ WaitOverflow(c) \/ WaitMutex(c) \/ PostMutex(c)
    PROVE  RInv(c)'
<1>1. UNCHANGED <<slots, printed, overflow, stored_num, i, index, service, read_index>>
  BY DEF TryEmpty, WaitOverflow, WaitMutex, PostMutex
<1>2. pc'[c] \in Writing <=> pc[c] \in Writing
  BY DEF IInv, TypeOK, TryEmpty, WaitOverflow, WaitMutex, PostMutex, Goto, Writing
<1>3. First' = First /\ Length(c)' = Length(c) /\ Done(c)' = Done(c)
  BY <1>1, <1>2 DEF First, Length, Done, In
<1>4. TailOfRun(c)'
  <2>1. Ahead(index[c])' = Ahead(index[c])
    BY <1>1, <1>3 DEF Ahead
  <2>. QED
    BY <1>2, <1>3, <2>1 DEF RInv, TailOfRun
<1>. QED
  BY <1>1, <1>3, <1>4, RunStays

\* What it has written is handed over, and its index goes round.
LEMMA PostRInv ==
    ASSUME NEW c, Clients = {c}, IInv, RInv(c), PostStored(c)
    PROVE  RInv(c)'
<1>1. /\ UNCHANGED <<slots, printed, overflow, service, read_index>>
      /\ stored_num' = stored_num + 1 /\ pc[c] \in Writing /\ pc'[c] \notin Writing
      /\ index'[c] = After(index[c]) /\ i'[c] = i[c] + 1 /\ index[c] \in Ring
  BY DEF IInv, TypeOK, PostStored, Goto, Writing, Ring
<1>2. First' = First /\ Length(c)' = Length(c) /\ Done(c)' = Done(c)
  <2>1. stored_num \in Nat /\ i[c] \in Nat /\ In(service, {"wait_mutex", "print"}) \in Nat
    BY Types DEF IInv, In
  <2>2. In(pc[c], Writing) = 1 /\ In(pc'[c], Writing) = 0
    BY <1>1 DEF In
  <2>. QED
    BY <1>1, <2>1, <2>2 DEF First, Length, Done
<1>3. TailOfRun(c)'
  <2>1. Ahead(index[c])' = Ahead(After(index[c]))
    BY <1>1, <1>2 DEF Ahead
  <2>2. Ahead(index[c]) = Length(c) - 1 /\ Length(c) \in Nat /\ Length(c) <= SlotsNum
    BY <1>1, RunFits DEF RInv, TailOfRun
  <2>. QED
    BY <1>1, <1>2, <2>1, <2>2, RingDistances, ShmMessagesAssumption DEF TailOfRun
<1>. QED
  BY <1>1, <1>2, <1>3, RunStays

\* A message that is dropped is counted.
LEMMA DropRInv ==
    ASSUME NEW c, Clients = {c}, IInv, RInv(c), CountOverflow(c)
    PROVE  RInv(c)'
<1>1. /\ UNCHANGED <<slots, printed, stored_num, index, service, read_index>>
      /\ overflow' = overflow + 1 /\ i'[c] = i[c] + 1
      /\ pc[c] \notin Writing /\ pc'[c] \notin Writing
  BY DEF IInv, TypeOK, CountOverflow, Goto, Writing
<1>2. First' = First /\ Length(c)' = Length(c)
  BY <1>1 DEF First, Length, In
<1>3. Done(c)' = Done(c) + 1 /\ Done(c) \in Nat
  BY <1>1, Types DEF IInv, Done, In
<1>4. \A k : Ahead(k)' = Ahead(k)
  BY <1>2 DEF Ahead
<1>5. TailOfRun(c)'
  BY <1>1, <1>2 DEF RInv, TailOfRun, Ahead
<1>6. RunOfMessages(c)' /\ RunGrows(c)' /\ RestPrinted(c)' /\ PrintedGrows'
  BY <1>1, <1>2, <1>4
  DEF RInv, RunOfMessages, RunGrows, RestPrinted, PrintedGrows
<1>7. Losses(c)'
  <2>1. Kept' = Kept
    BY <1>1 DEF Kept
  <2>2. \A x \in Kept : x.number \in Int
    BY DEF Kept, Range, IInv, TypeOK, Messages
  <2>3. IsFiniteSet(Kept) => Cardinality(Kept) \in Nat
    BY FS_CardinalityType
  <2>. QED
    BY <1>1, <1>3, <2>1, <2>2, <2>3, Types DEF RInv, IInv, Losses
<1>. QED
  BY <1>5, <1>6, <1>7 DEF RInv

\* A message is written after the run, over one that was printed.
LEMMA WriteRInv ==
    ASSUME NEW c, Clients = {c}, IInv, RInv(c), Write(c)
    PROVE  RInv(c)'
<1>. DEFINE at == index[c]
            new == [client |-> c, number |-> i[c]]
<1>1. /\ UNCHANGED <<overflow, stored_num, printed, i, index, service, read_index>>
      /\ pc[c] = "write" /\ pc'[c] = "post_mutex" /\ at \in Ring /\ i[c] < LoopNum
      /\ \A k \in Ring : slots'[k] = IF k = at THEN new ELSE slots[k]
      /\ DOMAIN slots = Ring /\ DOMAIN slots' = Ring
  BY DEF IInv, TypeOK, InLoop, Write, Goto, Ring
<1>2. new \in Messages /\ new.number = i[c] /\ i[c] \in Nat
  BY <1>1, Types DEF IInv, Messages
<1>. HIDE DEF at, new
<1>3. /\ First' = First /\ (\A k : Ahead(k)' = Ahead(k))
      /\ \A k \in Ring : Ahead(k) \in Nat
  BY <1>1, RingDistances DEF First, Ahead, Ring
<1>4. /\ Length(c)' = Length(c) + 1 /\ Done(c)' = Done(c) + 1 /\ Done(c) = i[c]
      /\ Length(c) \in Nat /\ Length(c) < SlotsNum /\ SlotsNum \in Nat
      /\ Ahead(at) = Length(c)
  <2>1. In(pc[c], Writing) = 0 /\ In(pc'[c], Writing) = 1
    BY <1>1 DEF In, Writing
  <2>2. stored_num \in Nat /\ In(service, {"wait_mutex", "print"}) \in Nat /\ SlotsNum \in Nat
    BY Types DEF IInv, In
  <2>3. Length(c) \in Nat /\ Length(c) < SlotsNum
    BY <1>1, RunFits
  <2>4. Ahead(at) = Length(c)
    BY <1>1, <2>2, <2>3 DEF RInv, TailOfRun, Writing, at
  <2>. QED
    BY <1>1, <1>2, <2>1, <2>2, <2>3, <2>4 DEF Length, Done
<1>5. \A k \in Ring : Ahead(k) < Length(c) + 1 => k = at \/ (Ahead(k) < Length(c) /\ k # at)
  <2>. SUFFICES ASSUME NEW k \in Ring, Ahead(k) < Length(c) + 1
                PROVE  k = at \/ (Ahead(k) < Length(c) /\ k # at)
    OBVIOUS
  <2>1. CASE Ahead(k) = Length(c)
    BY <1>1, <1>4, <2>1, RingDistances
  <2>2. CASE Ahead(k) < Length(c)
    <3>1. k # at
      BY <1>4, <2>2
    <3>. QED
      BY <2>2, <3>1
  <2>. QED
    BY <1>3, <1>4, <2>1, <2>2
<1>6. \A x \in Kept : x \in Messages /\ x.number < i[c]
  BY <1>4 DEF Kept, Range, IInv, TypeOK, RInv, Losses
<1>7. \A m \in 1 .. Len(printed) : printed[m].number < i[c]
  <2>1. \A m \in 1 .. Len(printed) : printed[m] \in Kept
    BY ShmMessagesAssumption DEF Kept, Range, RInv, PrintedGrows, IInv, TypeOK
  <2>. QED
    BY <1>6, <2>1
<1>8. \A k \in Ring : Ahead(k) < Length(c) => slots[k].number < i[c]
  <2>1. \A k \in Ring : Ahead(k) < Length(c) => slots[k] \in Kept
    BY <1>1, ShmMessagesAssumption DEF Kept, Range, RInv, RunOfMessages
  <2>. QED
    BY <1>6, <2>1
<1>9. TailOfRun(c)'
  BY <1>1, <1>3, <1>4 DEF TailOfRun, Writing, at, Ahead
<1>10. RunOfMessages(c)'
  <2>1. ASSUME NEW k \in Ring, Ahead(k) < Length(c) + 1
        PROVE  /\ slots'[k] \in Messages
               /\ \A m \in 1 .. Len(printed) : printed[m].number < slots'[k].number
    BY <1>1, <1>2, <1>5, <1>7, <2>1 DEF RInv, RunOfMessages
  <2>. QED
    BY <1>1, <1>3, <1>4, <2>1 DEF RunOfMessages, Ring
<1>11. RunGrows(c)'
  <2>1. ASSUME NEW k \in Ring, NEW l \in Ring, Ahead(k) < Ahead(l), Ahead(l) < Length(c) + 1
        PROVE  slots'[k].number < slots'[l].number
    <3>1. k # at /\ Ahead(k) < Length(c)
      BY <1>3, <1>4, <1>5, <2>1
    <3>. QED
      BY <1>1, <1>2, <1>5, <1>8, <2>1, <3>1 DEF RInv, RunGrows
  <2>. QED
    BY <1>3, <1>4, <2>1 DEF RunGrows, Ring
<1>12. RestPrinted(c)'
  <2>1. ASSUME NEW k \in Ring, ~(Ahead(k) < Length(c) + 1)
        PROVE  slots'[k] \in Range(printed) \cup {Blank}
    BY <1>1, <1>3, <1>4, <2>1 DEF RInv, RestPrinted
  <2>. QED
    BY <1>1, <1>3, <1>4, <2>1 DEF RestPrinted, Ring
<1>13. PrintedGrows'
  BY <1>1 DEF RInv, PrintedGrows
<1>14. Losses(c)'
  <2>1. slots[at] \in Range(printed) \cup {Blank}
    BY <1>1, <1>4 DEF RInv, RestPrinted
  <2>2. Kept' = Kept \cup {new}
    <3>1. \A x \in Range(slots') : x = new \/ x \in Range(slots)
      BY <1>1 DEF Range
    <3>2. \A x \in Range(slots) : x = slots[at] \/ x \in Range(slots')
      BY <1>1 DEF Range
    <3>3. new \in Range(slots') /\ new # Blank
      BY <1>1, <1>2, ShmMessagesAssumption DEF Range
    <3>4. Range(printed') = Range(printed)
      BY <1>1
    <3>. QED
      BY <2>1, <3>1, <3>2, <3>3, <3>4 DEF Kept
  <2>3. new \notin Kept
    BY <1>2, <1>6
  <2>4. IsFiniteSet(Kept) /\ overflow + Cardinality(Kept) = i[c]
    BY <1>4 DEF RInv, Losses
  <2>5. /\ IsFiniteSet(Kept \cup {new}) /\ Cardinality(Kept) \in Nat
        /\ Cardinality(Kept \cup {new}) = Cardinality(Kept) + 1
    BY <2>3, <2>4, FS_AddElement, FS_CardinalityType
  <2>6. \A x \in Kept \cup {new} : x.number < i[c] + 1
    BY <1>2, <1>6 DEF Messages
  <2>. QED
    BY <1>1, <1>4, <2>2, <2>4, <2>5, <2>6, Types DEF IInv, Losses
<1>. QED
  BY <1>9, <1>10, <1>11, <1>12, <1>13, <1>14 DEF RInv

\* Every step preserves the invariant.
LEMMA NextRInv ==
    ASSUME NEW c, Clients = {c}, IInv, RInv(c), [Next]_vars
    PROVE  RInv(c)'
<1>1. CASE Service
  BY <1>1, ServiceRInv, PrintRInv
<1>2. CASE Client(c)
  BY <1>2, MoveRInv, PostRInv, DropRInv, WriteRInv DEF Client
<1>3. CASE UNCHANGED vars
  <2>1. First' = First /\ Length(c)' = Length(c) /\ Done(c)' = Done(c)
    BY <1>3 DEF vars, First, Length, Done
  <2>2. TailOfRun(c)'
    BY <1>3, <2>1 DEF vars, RInv, TailOfRun, Ahead
  <2>. QED
    BY <1>3, <2>1, <2>2, RunStays DEF vars
<1>. QED
  BY <1>1, <1>2, <1>3 DEF Next

LEMMA RingInvariant ==
    ASSUME NEW c, Clients = {c}
    PROVE  Spec => [](IInv /\ RInv(c))
<1>1. Init => IInv /\ RInv(c)
  BY InitIInv, InitRInv
<1>2. IInv /\ RInv(c) /\ [Next]_vars => (IInv /\ RInv(c))'
  BY NextIInv, NextRInv
<1>. QED
  BY <1>1, <1>2, PTL DEF Spec

-----------------------------------------------------------------------------
(* mman_test.cpp:522-528 and 561-566: a client's messages are printed once  *)
(* each and in the order of sending, and no slot before it is written.      *)
THEOREM PrintedOnceInOrder ==
    ASSUME NEW c, Clients = {c}
    PROVE  Spec => []PrintedInOrder
<1>1. IInv /\ RInv(c) => PrintedInOrder
  <2>. SUFFICES ASSUME IInv, RInv(c),
                       NEW m \in 1 .. Len(printed), NEW n \in 1 .. Len(printed)
                PROVE  /\ printed[m] # Blank
                       /\ m < n => printed[m].number < printed[n].number
    BY DEF PrintedInOrder
  <2>. QED
    BY ShmMessagesAssumption DEF RInv, PrintedGrows
<1>. QED
  BY <1>1, RingInvariant, PTL

(* mman_test.cpp:554-559: when the client is done, overflow counts exactly  *)
(* the messages that were neither printed nor wait in a slot.               *)
THEOREM OverflowIsExact ==
    ASSUME NEW c, Clients = {c}
    PROVE  Spec => []OverflowCountsLosses
<1>1. IInv /\ RInv(c) => OverflowCountsLosses
  <2>. SUFFICES ASSUME IInv, RInv(c), Finished
                PROVE  overflow + Cardinality(Kept) = LoopNum * Cardinality(Clients)
    BY DEF OverflowCountsLosses, Kept
  <2>1. Done(c) = LoopNum /\ LoopNum \in Nat
    BY ShmMessagesAssumption DEF Finished, Done, In, Writing
  <2>2. Cardinality(Clients) = 1
    BY FS_Singleton
  <2>. QED
    BY <2>1, <2>2 DEF RInv, Losses
<1>. QED
  BY <1>1, RingInvariant, PTL
===============================================================================
