---------------------------- MODULE Logger_proofs ----------------------------
(***************************************************************************)
(* The safety properties of Logger, proved for any number of threads and   *)
(* entries.                                                                *)
(*                                                                         *)
(* That nothing is left in the queue when the destructor returns rests on  *)
(* what the end of the background thread means: it found the queue empty   *)
(* with mExit set, which happens only after all the threads were joined,   *)
(* so that nothing was logged after.                                       *)
(***************************************************************************)
EXTENDS Logger, TLAPS

\* Nobody logs any more.
AllLogged == \A t \in Threads : count[t] = EntriesNum

\* The destructor runs after all the threads were joined, and mExit is set
\* in it; the background thread ends only then, with nothing in the queue.
EndMeansDrained ==
    /\ main # "join_threads" => AllLogged
    /\ mExit => main \in {"join_logger", "returned"}
    /\ pc = "ended" => mExit /\ mQueue = <<>>
    /\ main = "returned" => pc \in {"ended", "failed"}

\* What the thread has written, it wrote after it first came out of its wait.
WroteAfterWait == pc \in {"open", "opened", "failed"} => logFile = <<>>

IInv ==
    /\ TypeOK
    /\ EndMeansDrained
    /\ WroteAfterWait
    /\ logFile \o mQueue = logged
    /\ SleepsOnEmptyQueue

-----------------------------------------------------------------------------
(* Sequences.                                                              *)

\* An element moves from the front of one sequence to the end of another.
LEMMA MoveHead ==
    ASSUME NEW S, NEW a \in Seq(S), NEW b \in Seq(S), b # <<>>
    PROVE  /\ Append(a, Head(b)) \o Tail(b) = a \o b
           /\ Append(a, Head(b)) \in Seq(S)
           /\ Tail(b) \in Seq(S)
<1>1. Head(b) \in S /\ Tail(b) \in Seq(S) /\ Len(b) > 0
  OBVIOUS
<1>2. b = <<Head(b)>> \o Tail(b)
  OBVIOUS
<1>3. Append(a, Head(b)) = a \o <<Head(b)>>
  BY <1>1
<1>4. (a \o <<Head(b)>>) \o Tail(b) = a \o (<<Head(b)>> \o Tail(b))
  BY <1>1
<1>. QED
  BY <1>1, <1>2, <1>3, <1>4

\* An element is appended to the second of two sequences.
LEMMA AppendRight ==
    ASSUME NEW S, NEW a \in Seq(S), NEW b \in Seq(S), NEW e \in S
    PROVE  a \o Append(b, e) = Append(a \o b, e)
OBVIOUS

\* The empty sequence adds nothing.
LEMMA EmptyRight ==
    ASSUME NEW S, NEW a \in Seq(S)
    PROVE  a \o <<>> = a
OBVIOUS

-----------------------------------------------------------------------------
(* The invariant.                                                          *)

\* It holds initially.
LEMMA InitIInv == Init => IInv
<1>. SUFFICES ASSUME Init PROVE IInv
  OBVIOUS
<1>1. <<>> \in Seq(Entries)
  OBVIOUS
<1>2. logFile \o mQueue = logged
  BY <1>1, EmptyRight DEF Init
<1>3. count \in [Threads -> 0 .. EntriesNum]
  BY LoggerAssumption DEF Init
<1>4. TypeOK
  BY <1>1, <1>3 DEF Init, TypeOK
<1>5. ~mExit /\ main = "join_threads" /\ pc = "open" /\ logFile = <<>>
  BY DEF Init
<1>. QED
  BY <1>2, <1>4, <1>5 DEF IInv, EndMeansDrained, WroteAfterWait, SleepsOnEmptyQueue

\* An entry is logged.
LEMMA LogIInv ==
    ASSUME IInv, NEW t \in Threads, Log(t)
    PROVE  IInv'
<1>. DEFINE entry == [from |-> t, number |-> count[t]]
<1>1. count[t] \in 0 .. EntriesNum /\ count[t] < EntriesNum /\ EntriesNum \in Nat
  BY LoggerAssumption DEF IInv, TypeOK, Log
<1>2. entry \in Entries
  BY <1>1 DEF Entries
<1>3. /\ mQueue' = Append(mQueue, entry) /\ logged' = Append(logged, entry)
      /\ count' = [count EXCEPT ![t] = @ + 1]
      /\ pc' = IF pc = "waiting" THEN "draining" ELSE pc
      /\ mExit' = mExit /\ logFile' = logFile /\ main' = main
  BY DEF Log, NotifyAll
<1>. HIDE DEF entry
<1>4. main = "join_threads"
  BY <1>1 DEF IInv, EndMeansDrained, AllLogged
<1>5. TypeOK'
  <2>1. count' \in [Threads -> 0 .. EntriesNum]
    BY <1>1, <1>3 DEF IInv, TypeOK
  <2>. QED
    BY <1>2, <1>3, <2>1 DEF IInv, TypeOK
<1>6. (logFile \o mQueue = logged)'
  <2>1. logFile \o Append(mQueue, entry) = Append(logFile \o mQueue, entry)
    BY <1>2, AppendRight DEF IInv, TypeOK
  <2>. QED
    BY <1>3, <2>1 DEF IInv
<1>7. EndMeansDrained'
  BY <1>3, <1>4 DEF IInv, TypeOK, EndMeansDrained
<1>. QED
  BY <1>3, <1>5, <1>6, <1>7 DEF IInv, TypeOK, WroteAfterWait, SleepsOnEmptyQueue

\* An entry is written.
LEMMA WriteIInv == IInv /\ WriteEntry => IInv'
<1>. SUFFICES ASSUME IInv, WriteEntry PROVE IInv'
  OBVIOUS
<1>1. /\ Append(logFile, Head(mQueue)) \o Tail(mQueue) = logFile \o mQueue
      /\ Append(logFile, Head(mQueue)) \in Seq(Entries)
      /\ Tail(mQueue) \in Seq(Entries)
  BY MoveHead DEF IInv, TypeOK, WriteEntry
<1>2. /\ logFile' = Append(logFile, Head(mQueue)) /\ mQueue' = Tail(mQueue)
      /\ UNCHANGED <<mExit, pc, count, main, logged>> /\ pc = "draining"
  BY DEF WriteEntry
<1>3. TypeOK' /\ (logFile \o mQueue = logged)'
  BY <1>1, <1>2 DEF IInv, TypeOK
<1>. QED
  BY <1>2, <1>3 DEF IInv, EndMeansDrained, AllLogged, WroteAfterWait, SleepsOnEmptyQueue

\* Every step preserves the invariant.
LEMMA NextIInv == IInv /\ [Next]_vars => IInv'
<1>. SUFFICES ASSUME IInv, [Next]_vars PROVE IInv'
  OBVIOUS
<1>. USE DEF IInv, TypeOK, EndMeansDrained, WroteAfterWait, SleepsOnEmptyQueue, AllLogged
<1>1. ASSUME NEW t \in Threads, Log(t) PROVE IInv'
  BY <1>1, LogIInv
<1>2. CASE OpenFile
  BY <1>2 DEF OpenFile
<1>3. CASE Begin
  BY <1>3 DEF Begin
<1>4. CASE WriteEntry
  BY <1>4, WriteIInv
<1>5. CASE Drained
  BY <1>5 DEF Drained
<1>6. CASE SpuriousWakeup
  BY <1>6 DEF SpuriousWakeup
<1>7. CASE JoinThreads
  BY <1>7 DEF JoinThreads
<1>8. CASE Destroy
  BY <1>8 DEF Destroy, NotifyAll
<1>9. CASE JoinLogger
  BY <1>9 DEF JoinLogger
<1>10. CASE UNCHANGED vars
  BY <1>10 DEF vars
<1>. QED
  BY <1>1, <1>2, <1>3, <1>4, <1>5, <1>6, <1>7, <1>8, <1>9, <1>10
  DEF Next, Background, MainThread, Terminated

\* It implies what it was strengthened for.
LEMMA IInvMeans == IInv => TypeOK /\ NothingLost /\ SleepsOnEmptyQueue
BY DEF IInv, EndMeansDrained, NothingLost

LEMMA Invariant == Spec => []IInv
BY InitIInv, NextIInv, PTL DEF Spec

-----------------------------------------------------------------------------
(* Logger.cpp: only entries that were logged are queued and written, and    *)
(* each thread logs no more than its number.                                *)
THEOREM LoggerTypeCorrect == Spec => []TypeOK
BY Invariant, IInvMeans, PTL

(* Logger.cpp:14-28, 71-86: the file and the queue hold every entry, in the *)
(* order of the pushes, and the destructor returns only once the queue is   *)
(* drained or the file could not be opened.                                 *)
THEOREM LoggerLosesNothing == Spec => []NothingLost
BY Invariant, IInvMeans, PTL

(* Logger.cpp:66: after its first wait the thread sleeps only when there is *)
(* nothing to write.                                                        *)
THEOREM LoggerSleepsOnEmptyQueue == Spec => []SleepsOnEmptyQueue
BY Invariant, IInvMeans, PTL
=============================================================================
