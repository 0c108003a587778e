--------------------------- MODULE SemBuffer_proofs ---------------------------
(***************************************************************************)
(* The safety properties of SemBuffer, proved for any number of producers, *)
(* consumers, slots and items, and that it implements BoundedFifo.         *)
(*                                                                         *)
(* None of them is inductive alone: that no item is overwritten rests on   *)
(* the token balance, the balance on every pass taking an item, and that   *)
(* on the leaving producers having seen all items produced.  IInv is their *)
(* conjunction with mutual exclusion, which Produce and Consume read one   *)
(* value and write another under.                                          *)
(***************************************************************************)
EXTENDS SemBuffer, FiniteSetTheorems, SequenceTheorems, TLAPS

Places == {"wait_empty", "wait_stored", "wait_mutex", "critical", "post_mutex",
           "post_stored", "post_empty", "end_empty", "end_mutex", "done"}

Inside == {"critical", "post_mutex", "end_empty", "end_mutex"}

\* The value of mutex is 1 and no thread is inside, or it is 0 and at most
\* one thread is.
MutualExclusion ==
    /\ \A t \in Threads : pc[t] \in Inside => mutex = 0
    /\ \A s, t \in Threads : pc[s] \in Inside /\ pc[t] \in Inside => s = t

\* A producer leaves only after the last item.
LeaversSawAll ==
    \A p \in Producers :
        pc[p] \in {"end_empty", "end_mutex", "done"} => total_produced = ItemsNum

IInv ==
    /\ TypeOK
    /\ MutualExclusion
    /\ LeaversSawAll
    /\ BufferHoldsWindow
    /\ TokensMatchSlots

-----------------------------------------------------------------------------
(* Arithmetic of the ring.                                                 *)

\* A slot number is in range, and a number is its quotient and remainder.
LEMMA DivMod ==
    ASSUME NEW a \in Nat, NEW L \in Nat \ {0}
    PROVE  /\ a % L \in 0 .. L - 1
           /\ a \div L \in Int
           /\ a = (L * (a \div L)) + (a % L)
BY SMTT(30)

\* Two items of one window never share a slot.
LEMMA DistinctSlots ==
    ASSUME NEW a \in Nat, NEW b \in Nat, NEW L \in Nat \ {0}, a < b, b < a + L
    PROVE  a % L # b % L
<1>. DEFINE p == a \div L
            q == b \div L
<1>1. /\ a = (L * p) + (a % L)
      /\ b = (L * q) + (b % L)
      /\ p \in Int /\ q \in Int
      /\ a % L \in Int /\ b % L \in Int
  BY DivMod
<1>2. SUFFICES ASSUME a % L = b % L PROVE FALSE
  OBVIOUS
<1>. HIDE DEF p, q
<1>3. b - a = L * (q - p)
  BY <1>1, <1>2
<1>4. CASE q - p <= 0
  <2>1. L * (q - p) <= 0
    BY <1>1, <1>4, SMTT(30)
  <2>. QED
    BY <1>3, <2>1
<1>5. CASE q - p >= 1
  <2>1. L * (q - p) >= L
    BY <1>1, <1>5, SMTT(30)
  <2>. QED
    BY <1>3, <2>1
<1>. QED
  BY <1>1, <1>4, <1>5

-----------------------------------------------------------------------------
(* Counting threads.                                                       *)

\* How many threads of S are at one of the places, by f.
Count(S, f, places) == Cardinality({t \in S : f[t] \in places})

\* A count is a number, and positive when somebody is there.
LEMMA CountType ==
    ASSUME NEW S, IsFiniteSet(S), NEW f, NEW places
    PROVE  /\ Count(S, f, places) \in Nat
           /\ \A t \in S : f[t] \in places => Count(S, f, places) > 0
<1>. DEFINE A == {t \in S : f[t] \in places}
<1>1. IsFiniteSet(A)
  BY FS_Subset
<1>2. Cardinality(A) \in Nat
  BY <1>1, FS_CardinalityType
<1>3. ASSUME NEW t \in S, f[t] \in places PROVE Cardinality(A) # 0
  BY <1>1, <1>3, FS_EmptySet
<1>. QED
  BY <1>2, <1>3 DEF Count

\* What the move of one thread does to a count.
LEMMA CountMove ==
    ASSUME NEW S, IsFiniteSet(S), NEW f, NEW g, NEW places, NEW t,
           \A s \in S \ {t} : g[s] = f[s]
    PROVE  Count(S, g, places) =
             Count(S, f, places)
               + (IF t \in S /\ g[t] \in places THEN 1 ELSE 0)
               - (IF t \in S /\ f[t] \in places THEN 1 ELSE 0)
<1>. DEFINE A == {s \in S : f[s] \in places}
            B == {s \in S : g[s] \in places}
            C == A \ {t}
            D == C \cup {t}
<1>1. IsFiniteSet(A) /\ Cardinality(A) \in Nat
  BY FS_Subset, FS_CardinalityType
<1>2. /\ IsFiniteSet(C)
      /\ Cardinality(C) = IF t \in A THEN Cardinality(A) - 1 ELSE Cardinality(A)
  BY <1>1, FS_RemoveElement
<1>3. Cardinality(C) \in Nat
  BY <1>2, FS_CardinalityType
<1>4. /\ Count(S, f, places) = Cardinality(A)
      /\ Count(S, g, places) = Cardinality(B)
      /\ t \in A <=> t \in S /\ f[t] \in places
  BY DEF Count
<1>5. B = IF t \in S /\ g[t] \in places THEN D ELSE C
  OBVIOUS
<1>6. Cardinality(D) = Cardinality(C) + 1
  <2>1. t \notin C
    OBVIOUS
  <2>. HIDE DEF C
  <2>. QED
    BY <1>2, <2>1, FS_AddElement
<1>. HIDE DEF A, B, C, D
<1>. QED
  BY <1>1, <1>2, <1>3, <1>4, <1>5, <1>6

-----------------------------------------------------------------------------
(* The five counts of TokensMatchSlots, by the value f of pc.              *)

Reserved(f) == Count(Producers, f, {"wait_mutex", "critical", "end_empty"})
Emptied(f) == Count(Consumers, f, {"post_mutex", "post_empty"})
Claimed(f) == Count(Consumers, f, {"wait_mutex", "critical"})
Filled(f) == Count(Producers, f, {"post_mutex", "post_stored"})
Left(f) == Count(Producers, f, {"end_empty", "end_mutex", "done"})

One(b) == IF b THEN 1 ELSE 0

\* The counts are numbers; a thread that is there is counted.
LEMMA CountsType ==
    ASSUME NEW f
    PROVE  /\ Reserved(f) \in Nat
           /\ Emptied(f) \in Nat
           /\ Claimed(f) \in Nat
           /\ Filled(f) \in Nat
           /\ Left(f) \in Nat
           /\ \A p \in Producers : f[p] = "critical" => Reserved(f) > 0
           /\ \A c \in Consumers : f[c] = "critical" => Claimed(f) > 0
           /\ Left(f) > 0 =>
                \E p \in Producers : f[p] \in {"end_empty", "end_mutex", "done"}
<1>1. IsFiniteSet(Producers) /\ IsFiniteSet(Consumers)
  BY SemBufferAssumption
<1>2. /\ Reserved(f) \in Nat
      /\ Emptied(f) \in Nat
      /\ Claimed(f) \in Nat
      /\ Filled(f) \in Nat
      /\ Left(f) \in Nat
  BY <1>1, CountType DEF Reserved, Emptied, Claimed, Filled, Left
<1>3. \A p \in Producers : f[p] = "critical" => Reserved(f) > 0
  BY <1>1, CountType DEF Reserved
<1>4. \A c \in Consumers : f[c] = "critical" => Claimed(f) > 0
  BY <1>1, CountType DEF Claimed
<1>5. ASSUME ~\E p \in Producers : f[p] \in {"end_empty", "end_mutex", "done"}
      PROVE  Left(f) = 0
  <2>1. {p \in Producers : f[p] \in {"end_empty", "end_mutex", "done"}} = {}
    BY <1>5
  <2>. QED
    BY <2>1, FS_EmptySet DEF Left, Count
<1>. QED
  BY <1>2, <1>3, <1>4, <1>5

\* What a step of a producer does to the counts.
LEMMA ProducerMoves ==
    ASSUME NEW p \in Producers, NEW there,
           pc \in [Threads -> Places], Goto(p, there)
    PROVE  /\ Reserved(pc') = Reserved(pc)
                + One(there \in {"wait_mutex", "critical", "end_empty"})
                - One(pc[p] \in {"wait_mutex", "critical", "end_empty"})
           /\ Filled(pc') = Filled(pc)
                + One(there \in {"post_mutex", "post_stored"})
                - One(pc[p] \in {"post_mutex", "post_stored"})
           /\ Left(pc') = Left(pc)
                + One(there \in {"end_empty", "end_mutex", "done"})
                - One(pc[p] \in {"end_empty", "end_mutex", "done"})
           /\ Emptied(pc') = Emptied(pc)
           /\ Claimed(pc') = Claimed(pc)
<1>1. /\ pc'[p] = there
      /\ \A t \in Threads \ {p} : pc'[t] = pc[t]
      /\ p \in Threads /\ p \notin Consumers
      /\ Producers \subseteq Threads /\ Consumers \subseteq Threads
      /\ IsFiniteSet(Producers) /\ IsFiniteSet(Consumers)
  BY SemBufferAssumption DEF Goto, Threads
<1>2. \A places :
        /\ Count(Producers, pc', places) = Count(Producers, pc, places)
             + One(there \in places) - One(pc[p] \in places)
        /\ Count(Consumers, pc', places) = Count(Consumers, pc, places)
  <2>. TAKE places
  <2>1. Count(Producers, pc', places) = Count(Producers, pc, places)
          + One(there \in places) - One(pc[p] \in places)
    BY <1>1, CountMove DEF One
  <2>2. \A t \in Consumers : pc'[t] = pc[t]
    BY <1>1
  <2>3. {t \in Consumers : pc'[t] \in places} = {t \in Consumers : pc[t] \in places}
    BY <2>2
  <2>. QED
    BY <2>1, <2>3 DEF Count
<1>. QED
  BY <1>2 DEF Reserved, Filled, Left, Emptied, Claimed

\* A step of a consumer moves only its own places.
LEMMA ConsumerMoves ==
    ASSUME NEW c \in Consumers, NEW there,
           pc \in [Threads -> Places], Goto(c, there)
    PROVE  /\ Emptied(pc') = Emptied(pc)
                + One(there \in {"post_mutex", "post_empty"})
                - One(pc[c] \in {"post_mutex", "post_empty"})
           /\ Claimed(pc') = Claimed(pc)
                + One(there \in {"wait_mutex", "critical"})
                - One(pc[c] \in {"wait_mutex", "critical"})
           /\ Reserved(pc') = Reserved(pc)
           /\ Filled(pc') = Filled(pc)
           /\ Left(pc') = Left(pc)
<1>1. /\ pc'[c] = there
      /\ \A t \in Threads \ {c} : pc'[t] = pc[t]
      /\ c \in Threads /\ c \notin Producers
      /\ Producers \subseteq Threads /\ Consumers \subseteq Threads
      /\ IsFiniteSet(Producers) /\ IsFiniteSet(Consumers)
  BY SemBufferAssumption DEF Goto, Threads
<1>2. \A places :
        /\ Count(Consumers, pc', places) = Count(Consumers, pc, places)
             + One(there \in places) - One(pc[c] \in places)
        /\ Count(Producers, pc', places) = Count(Producers, pc, places)
  <2>. TAKE places
  <2>1. Count(Consumers, pc', places) = Count(Consumers, pc, places)
          + One(there \in places) - One(pc[c] \in places)
    BY <1>1, CountMove DEF One
  <2>2. \A t \in Producers : pc'[t] = pc[t]
    BY <1>1
  <2>3. {t \in Producers : pc'[t] \in places} = {t \in Producers : pc[t] \in places}
    BY <2>2
  <2>. QED
    BY <2>1, <2>3 DEF Count
<1>. QED
  BY <1>2 DEF Reserved, Filled, Left, Emptied, Claimed

-----------------------------------------------------------------------------
(* The steps keep the invariant.                                           *)

\* The totals point into the ring.
LEMMA Ring ==
    ASSUME TypeOK
    PROVE  /\ BuffLen \in Nat \ {0} /\ ItemsNum \in Nat
           /\ total_produced % BuffLen \in Slots
           /\ total_consumed % BuffLen \in Slots
  BY SemBufferAssumption, DivMod DEF TypeOK, Slots

\* Whoever posts mutex is inside, so that its value was 0.
LEMMA PostMutexStep ==
    ASSUME TypeOK, MutualExclusion, NEW t \in Threads, NEW at \in Inside,
           NEW then \in Places \ Inside, PostMutex(t, at, then)
    PROVE  TypeOK' /\ MutualExclusion'
<1>1. /\ mutex = 0 /\ mutex' = 1
      /\ pc' = [pc EXCEPT ![t] = then]
      /\ UNCHANGED <<buff, total_produced, total_consumed, empty_num,
                     stored_num, run_count, main, output>>
  BY DEF PostMutex, Goto, MutualExclusion, Inside, TypeOK
<1>2. pc' \in [Threads -> Places]
  BY <1>1 DEF TypeOK, Places
<1>3. TypeOK'
  BY <1>1, <1>2 DEF TypeOK, Places
<1>4. \A s \in Threads : pc'[s] \notin Inside
  BY <1>1 DEF MutualExclusion, PostMutex, TypeOK
<1>. QED
  BY <1>3, <1>4 DEF MutualExclusion

\* Every step keeps the types: the totals are tested against items_num before
\* they grow, and the mutex is posted only from inside.
LEMMA TypeStep ==
    ASSUME TypeOK, MutualExclusion, [Next]_vars
    PROVE  TypeOK'
<1>. USE Ring DEF TypeOK, Goto, Threads
<1>1. ASSUME NEW p \in Producers, WaitEmpty(p) PROVE TypeOK'
  BY <1>1 DEF WaitEmpty
<1>2. ASSUME NEW p \in Producers, WaitMutex(p) PROVE TypeOK'
  BY <1>2 DEF WaitMutex
<1>3. ASSUME NEW p \in Producers, Produce(p) PROVE TypeOK'
  BY <1>3 DEF Produce
<1>4. ASSUME NEW p \in Producers, PostMutex(p, "post_mutex", "post_stored")
      PROVE  TypeOK'
  BY <1>4, PostMutexStep DEF Inside, Places, Threads
<1>5. ASSUME NEW p \in Producers, PostStored(p) PROVE TypeOK'
  BY <1>5 DEF PostStored
<1>6. ASSUME NEW p \in Producers, EndProduceStored(p) PROVE TypeOK'
  BY <1>6 DEF EndProduceStored
<1>7. ASSUME NEW p \in Producers, EndProduceEmpty(p) PROVE TypeOK'
  BY <1>7 DEF EndProduceEmpty
<1>8. ASSUME NEW p \in Producers, PostMutex(p, "end_mutex", "done")
      PROVE  TypeOK'
  BY <1>8, PostMutexStep DEF Inside, Places, Threads
<1>9. ASSUME NEW c \in Consumers, WaitStored(c) PROVE TypeOK'
  BY <1>9 DEF WaitStored
<1>10. ASSUME NEW c \in Consumers, WaitMutex(c) PROVE TypeOK'
  BY <1>10 DEF WaitMutex
<1>11. ASSUME NEW c \in Consumers, Consume(c) PROVE TypeOK'
  <2>1. buff[total_consumed % BuffLen] \in Int
    BY DEF TypeOK
  <2>2. output' \in Seq(Int)
    BY <1>11, <2>1 DEF Consume
  <2>3. buff' \in [Slots -> Int]
    BY <1>11 DEF Consume, Empty
  <2>4. total_consumed' \in 0 .. ItemsNum
    BY <1>11 DEF Consume
  <2>. QED
    BY <1>11, <2>2, <2>3, <2>4 DEF Consume
<1>12. ASSUME NEW c \in Consumers, PostMutex(c, "post_mutex", "post_empty")
       PROVE  TypeOK'
  BY <1>12, PostMutexStep DEF Inside, Places, Threads
<1>13. ASSUME NEW c \in Consumers, PostEmpty(c) PROVE TypeOK'
  BY <1>13 DEF PostEmpty
<1>14. ASSUME NEW c \in Consumers, EndConsumeStored(c) PROVE TypeOK'
  BY <1>14 DEF EndConsumeStored
<1>15. ASSUME NEW c \in Consumers, PostMutex(c, "end_mutex", "done")
       PROVE  TypeOK'
  BY <1>15, PostMutexStep DEF Inside, Places, Threads
<1>16. CASE JoinProducers
  BY <1>16 DEF JoinProducers
<1>17. CASE JoinConsumers
  BY <1>17 DEF JoinConsumers
<1>18. CASE UNCHANGED vars
  BY <1>18 DEF vars
<1>. QED
  BY <1>1, <1>2, <1>3, <1>4, <1>5, <1>6, <1>7, <1>8, <1>9, <1>10, <1>11,
     <1>12, <1>13, <1>14, <1>15, <1>16, <1>17, <1>18
  DEF Next, Producer, Consumer, Terminated

\* Every step keeps the threads apart in the critical section.
LEMMA MutexStep ==
    ASSUME TypeOK, MutualExclusion, [Next]_vars
    PROVE  MutualExclusion'
<1>. USE DEF TypeOK, MutualExclusion, Goto, Threads, Inside
<1>1. ASSUME NEW p \in Producers, WaitEmpty(p) PROVE MutualExclusion'
  BY <1>1 DEF WaitEmpty
<1>2. ASSUME NEW p \in Producers, WaitMutex(p) PROVE MutualExclusion'
  BY <1>2 DEF WaitMutex
<1>3. ASSUME NEW p \in Producers, Produce(p) PROVE MutualExclusion'
  BY <1>3 DEF Produce
<1>4. ASSUME NEW p \in Producers, PostMutex(p, "post_mutex", "post_stored")
      PROVE  MutualExclusion'
  BY <1>4, PostMutexStep DEF Inside, Places, Threads
<1>5. ASSUME NEW p \in Producers, PostStored(p) PROVE MutualExclusion'
  BY <1>5 DEF PostStored
<1>6. ASSUME NEW p \in Producers, EndProduceStored(p) PROVE MutualExclusion'
  BY <1>6 DEF EndProduceStored
<1>7. ASSUME NEW p \in Producers, EndProduceEmpty(p) PROVE MutualExclusion'
  BY <1>7 DEF EndProduceEmpty
<1>8. ASSUME NEW p \in Producers, PostMutex(p, "end_mutex", "done")
      PROVE  MutualExclusion'
  BY <1>8, PostMutexStep DEF Inside, Places, Threads
<1>9. ASSUME NEW c \in Consumers, WaitStored(c) PROVE MutualExclusion'
  BY <1>9 DEF WaitStored
<1>10. ASSUME NEW c \in Consumers, WaitMutex(c) PROVE MutualExclusion'
  BY <1>10 DEF WaitMutex
<1>11. ASSUME NEW c \in Consumers, Consume(c) PROVE MutualExclusion'
  BY <1>11 DEF Consume
<1>12. ASSUME NEW c \in Consumers, PostMutex(c, "post_mutex", "post_empty")
       PROVE  MutualExclusion'
  BY <1>12, PostMutexStep DEF Inside, Places, Threads
<1>13. ASSUME NEW c \in Consumers, PostEmpty(c) PROVE MutualExclusion'
  BY <1>13 DEF PostEmpty
<1>14. ASSUME NEW c \in Consumers, EndConsumeStored(c) PROVE MutualExclusion'
  BY <1>14 DEF EndConsumeStored
<1>15. ASSUME NEW c \in Consumers, PostMutex(c, "end_mutex", "done")
       PROVE  MutualExclusion'
  BY <1>15, PostMutexStep DEF Inside, Places, Threads
<1>16. CASE JoinProducers
  BY <1>16 DEF JoinProducers
<1>17. CASE JoinConsumers
  BY <1>17 DEF JoinConsumers
<1>18. CASE UNCHANGED vars
  BY <1>18 DEF vars
<1>. QED
  BY <1>1, <1>2, <1>3, <1>4, <1>5, <1>6, <1>7, <1>8, <1>9, <1>10, <1>11,
     <1>12, <1>13, <1>14, <1>15, <1>16, <1>17, <1>18
  DEF Next, Producer, Consumer, Terminated

\* A producer leaves when total_produced, which never shrinks, is items_num.
LEMMA LeaversStep ==
    ASSUME TypeOK, LeaversSawAll, [Next]_vars
    PROVE  LeaversSawAll'
<1>. USE SemBufferAssumption DEF TypeOK, LeaversSawAll, Goto, Threads
<1>1. ASSUME NEW p \in Producers, WaitEmpty(p) PROVE LeaversSawAll'
  BY <1>1 DEF WaitEmpty
<1>2. ASSUME NEW p \in Producers, WaitMutex(p) PROVE LeaversSawAll'
  BY <1>2 DEF WaitMutex
<1>3. ASSUME NEW p \in Producers, Produce(p) PROVE LeaversSawAll'
  BY <1>3 DEF Produce
<1>4. ASSUME NEW p \in Producers, PostMutex(p, "post_mutex", "post_stored")
      PROVE  LeaversSawAll'
  BY <1>4 DEF PostMutex
<1>5. ASSUME NEW p \in Producers, PostStored(p) PROVE LeaversSawAll'
  BY <1>5 DEF PostStored
<1>6. ASSUME NEW p \in Producers, EndProduceStored(p) PROVE LeaversSawAll'
  BY <1>6 DEF EndProduceStored
<1>7. ASSUME NEW p \in Producers, EndProduceEmpty(p) PROVE LeaversSawAll'
  BY <1>7 DEF EndProduceEmpty
<1>8. ASSUME NEW p \in Producers, PostMutex(p, "end_mutex", "done")
      PROVE  LeaversSawAll'
  BY <1>8 DEF PostMutex
<1>9. ASSUME NEW c \in Consumers, WaitStored(c) PROVE LeaversSawAll'
  BY <1>9 DEF WaitStored
<1>10. ASSUME NEW c \in Consumers, WaitMutex(c) PROVE LeaversSawAll'
  BY <1>10 DEF WaitMutex
<1>11. ASSUME NEW c \in Consumers, Consume(c) PROVE LeaversSawAll'
  BY <1>11 DEF Consume
<1>12. ASSUME NEW c \in Consumers, PostMutex(c, "post_mutex", "post_empty")
       PROVE  LeaversSawAll'
  BY <1>12 DEF PostMutex
<1>13. ASSUME NEW c \in Consumers, PostEmpty(c) PROVE LeaversSawAll'
  BY <1>13 DEF PostEmpty
<1>14. ASSUME NEW c \in Consumers, EndConsumeStored(c) PROVE LeaversSawAll'
  BY <1>14 DEF EndConsumeStored
<1>15. ASSUME NEW c \in Consumers, PostMutex(c, "end_mutex", "done")
       PROVE  LeaversSawAll'
  BY <1>15 DEF PostMutex
<1>16. CASE JoinProducers
  BY <1>16 DEF JoinProducers
<1>17. CASE JoinConsumers
  BY <1>17 DEF JoinConsumers
<1>18. CASE UNCHANGED vars
  BY <1>18 DEF vars
<1>. QED
  BY <1>1, <1>2, <1>3, <1>4, <1>5, <1>6, <1>7, <1>8, <1>9, <1>10, <1>11,
     <1>12, <1>13, <1>14, <1>15, <1>16, <1>17, <1>18
  DEF Next, Producer, Consumer, Terminated

\* TokensMatchSlots in terms of the counts: used slots among BuffLen.
Balance(f, empty, stored, used) ==
    /\ empty + Reserved(f) + Emptied(f) = BuffLen - used
    /\ stored + Claimed(f) + Filled(f) = used + Left(f)

\* It is the same statement, before a step and after it.
LEMMA TokensBalance ==
    /\ TokensMatchSlots <=>
         Balance(pc, empty_num, stored_num, total_produced - total_consumed)
    /\ TokensMatchSlots' <=>
         Balance(pc', empty_num', stored_num', total_produced' - total_consumed')
  BY DEF TokensMatchSlots, Balance, At, Count, Reserved, Emptied, Claimed,
         Filled, Left

\* A consumer in the critical section holds a token of stored_num: a stored
\* item's, or that of a producer that left, and then all items are produced.
LEMMA PassTakes ==
    ASSUME IInv
    PROVE  EveryPassTakes
<1>. SUFFICES ASSUME NEW c \in Consumers, pc[c] = "critical",
                     total_consumed < ItemsNum
              PROVE  /\ total_consumed < total_produced
                     /\ buff[total_consumed % BuffLen] # Empty
  BY DEF EveryPassTakes, At
<1>1. Claimed(pc) > 0 /\ Claimed(pc) \in Nat /\ Filled(pc) \in Nat /\ Left(pc) \in Nat
  BY CountsType
<1>2. stored_num + Claimed(pc) + Filled(pc)
        = (total_produced - total_consumed) + Left(pc)
  BY TokensBalance DEF IInv, Balance
<1>3. ASSUME Left(pc) > 0 PROVE total_consumed < total_produced
  <2>1. total_produced = ItemsNum
    BY <1>3, CountsType DEF IInv, LeaversSawAll
  <2>. QED
    BY <2>1 DEF IInv, TypeOK
<1>4. ASSUME Left(pc) = 0 PROVE total_consumed < total_produced
  BY <1>1, <1>2, <1>4 DEF IInv, TypeOK, BufferHoldsWindow
<1>5. total_consumed < total_produced
  BY <1>1, <1>3, <1>4
<1>6. buff[total_consumed % BuffLen] = total_consumed
  BY <1>5 DEF IInv, TypeOK, BufferHoldsWindow
<1>. QED
  BY <1>5, <1>6 DEF IInv, TypeOK, Empty

\* Every step moves a token along with the slot it stands for.
LEMMA TokensStep ==
    ASSUME IInv, [Next]_vars
    PROVE  TokensMatchSlots'
<1>. USE DEF IInv
<1>T. /\ Reserved(pc) \in Nat /\ Emptied(pc) \in Nat /\ Claimed(pc) \in Nat
      /\ Filled(pc) \in Nat /\ Left(pc) \in Nat
  BY CountsType
<1>B. Balance(pc, empty_num, stored_num, total_produced - total_consumed)
  BY TokensBalance
<1>V. /\ pc \in [Threads -> Places]
      /\ BuffLen \in Nat /\ empty_num \in Nat /\ stored_num \in Nat
      /\ total_produced \in Nat /\ total_consumed \in Nat
  BY SemBufferAssumption DEF TypeOK, Places
<1>1. ASSUME NEW p \in Producers, WaitEmpty(p) PROVE TokensMatchSlots'
  <2>1. pc[p] = "wait_empty" /\ Goto(p, "wait_mutex")
    BY <1>1 DEF WaitEmpty
  <2>2. /\ Reserved(pc') = Reserved(pc) + 1 /\ Filled(pc') = Filled(pc)
        /\ Left(pc') = Left(pc) /\ Emptied(pc') = Emptied(pc)
        /\ Claimed(pc') = Claimed(pc)
    BY <1>T, <1>V, <2>1, ProducerMoves DEF One
  <2>. QED
    BY <1>1, <1>T, <1>B, <1>V, <2>2, TokensBalance
    DEF WaitEmpty, Balance
<1>2. ASSUME NEW p \in Producers, WaitMutex(p) PROVE TokensMatchSlots'
  <2>1. pc[p] = "wait_mutex" /\ Goto(p, "critical")
    BY <1>2 DEF WaitMutex
  <2>2. /\ Reserved(pc') = Reserved(pc) /\ Filled(pc') = Filled(pc)
        /\ Left(pc') = Left(pc) /\ Emptied(pc') = Emptied(pc)
        /\ Claimed(pc') = Claimed(pc)
    BY <1>T, <1>V, <2>1, ProducerMoves DEF One
  <2>. QED
    BY <1>2, <1>T, <1>B, <1>V, <2>2, TokensBalance
    DEF WaitMutex, Balance
<1>3. ASSUME NEW p \in Producers, Produce(p) PROVE TokensMatchSlots'
  <2>1. pc[p] = "critical" /\ Goto(p, "post_mutex")
    BY <1>3 DEF Produce
  <2>2. /\ Reserved(pc') = Reserved(pc) - 1 /\ Filled(pc') = Filled(pc) + 1
        /\ Left(pc') = Left(pc) /\ Emptied(pc') = Emptied(pc)
        /\ Claimed(pc') = Claimed(pc)
    BY <1>T, <1>V, <2>1, ProducerMoves DEF One
  <2>3. /\ total_produced' = total_produced + 1
        /\ UNCHANGED <<total_consumed, empty_num, stored_num>>
    BY <1>3 DEF Produce
  <2>4. Balance(pc', empty_num', stored_num', total_produced' - total_consumed')
    BY <1>T, <1>B, <1>V, <2>2, <2>3 DEF Balance
  <2>. QED
    BY <2>4, TokensBalance
<1>4. ASSUME NEW p \in Producers, PostMutex(p, "post_mutex", "post_stored")
      PROVE  TokensMatchSlots'
  <2>1. pc[p] = "post_mutex" /\ Goto(p, "post_stored")
    BY <1>4 DEF PostMutex
  <2>2. /\ Reserved(pc') = Reserved(pc) /\ Filled(pc') = Filled(pc)
        /\ Left(pc') = Left(pc) /\ Emptied(pc') = Emptied(pc)
        /\ Claimed(pc') = Claimed(pc)
    BY <1>T, <1>V, <2>1, ProducerMoves DEF One
  <2>. QED
    BY <1>4, <1>T, <1>B, <1>V, <2>2, TokensBalance
    DEF PostMutex, Balance
<1>5. ASSUME NEW p \in Producers, PostStored(p) PROVE TokensMatchSlots'
  <2>1. pc[p] = "post_stored" /\ Goto(p, "wait_empty")
    BY <1>5 DEF PostStored
  <2>2. /\ Filled(pc') = Filled(pc) - 1 /\ Reserved(pc') = Reserved(pc)
        /\ Left(pc') = Left(pc) /\ Emptied(pc') = Emptied(pc)
        /\ Claimed(pc') = Claimed(pc)
    BY <1>T, <1>V, <2>1, ProducerMoves DEF One
  <2>. QED
    BY <1>5, <1>T, <1>B, <1>V, <2>2, TokensBalance
    DEF PostStored, Balance
<1>6. ASSUME NEW p \in Producers, EndProduceStored(p) PROVE TokensMatchSlots'
  <2>1. pc[p] = "critical" /\ Goto(p, "end_empty")
    BY <1>6 DEF EndProduceStored
  <2>2. /\ Left(pc') = Left(pc) + 1 /\ Reserved(pc') = Reserved(pc)
        /\ Filled(pc') = Filled(pc) /\ Emptied(pc') = Emptied(pc)
        /\ Claimed(pc') = Claimed(pc)
    BY <1>T, <1>V, <2>1, ProducerMoves DEF One
  <2>. QED
    BY <1>6, <1>T, <1>B, <1>V, <2>2, TokensBalance
    DEF EndProduceStored, Balance
<1>7. ASSUME NEW p \in Producers, EndProduceEmpty(p) PROVE TokensMatchSlots'
  <2>1. pc[p] = "end_empty" /\ Goto(p, "end_mutex")
    BY <1>7 DEF EndProduceEmpty
  <2>2. /\ Reserved(pc') = Reserved(pc) - 1 /\ Filled(pc') = Filled(pc)
        /\ Left(pc') = Left(pc) /\ Emptied(pc') = Emptied(pc)
        /\ Claimed(pc') = Claimed(pc)
    BY <1>T, <1>V, <2>1, ProducerMoves DEF One
  <2>. QED
    BY <1>7, <1>T, <1>B, <1>V, <2>2, TokensBalance
    DEF EndProduceEmpty, Balance
<1>8. ASSUME NEW p \in Producers, PostMutex(p, "end_mutex", "done")
      PROVE  TokensMatchSlots'
  <2>1. pc[p] = "end_mutex" /\ Goto(p, "done")
    BY <1>8 DEF PostMutex
  <2>2. /\ Reserved(pc') = Reserved(pc) /\ Filled(pc') = Filled(pc)
        /\ Left(pc') = Left(pc) /\ Emptied(pc') = Emptied(pc)
        /\ Claimed(pc') = Claimed(pc)
    BY <1>T, <1>V, <2>1, ProducerMoves DEF One
  <2>. QED
    BY <1>8, <1>T, <1>B, <1>V, <2>2, TokensBalance
    DEF PostMutex, Balance
<1>9. ASSUME NEW c \in Consumers, WaitStored(c) PROVE TokensMatchSlots'
  <2>1. pc[c] = "wait_stored" /\ Goto(c, "wait_mutex")
    BY <1>9 DEF WaitStored
  <2>2. /\ Claimed(pc') = Claimed(pc) + 1 /\ Reserved(pc') = Reserved(pc)
        /\ Filled(pc') = Filled(pc) /\ Left(pc') = Left(pc)
        /\ Emptied(pc') = Emptied(pc)
    BY <1>T, <1>V, <2>1, ConsumerMoves DEF One
  <2>. QED
    BY <1>9, <1>T, <1>B, <1>V, <2>2, TokensBalance
    DEF WaitStored, Balance
<1>10. ASSUME NEW c \in Consumers, WaitMutex(c) PROVE TokensMatchSlots'
  <2>1. pc[c] = "wait_mutex" /\ Goto(c, "critical")
    BY <1>10 DEF WaitMutex
  <2>2. /\ Reserved(pc') = Reserved(pc) /\ Filled(pc') = Filled(pc)
        /\ Left(pc') = Left(pc) /\ Emptied(pc') = Emptied(pc)
        /\ Claimed(pc') = Claimed(pc)
    BY <1>T, <1>V, <2>1, ConsumerMoves DEF One
  <2>. QED
    BY <1>10, <1>T, <1>B, <1>V, <2>2, TokensBalance
    DEF WaitMutex, Balance
<1>11. ASSUME NEW c \in Consumers, Consume(c) PROVE TokensMatchSlots'
  <2>1. pc[c] = "critical" /\ Goto(c, "post_mutex")
    BY <1>11 DEF Consume
  <2>2. /\ Emptied(pc') = Emptied(pc) + 1 /\ Claimed(pc') = Claimed(pc) - 1
        /\ Reserved(pc') = Reserved(pc) /\ Filled(pc') = Filled(pc)
        /\ Left(pc') = Left(pc)
    BY <1>T, <1>V, <2>1, ConsumerMoves DEF One
  <2>3. /\ total_consumed' = total_consumed + 1
        /\ UNCHANGED <<total_produced, empty_num, stored_num>>
    BY <1>11, PassTakes DEF Consume, EveryPassTakes, At
  <2>4. Balance(pc', empty_num', stored_num', total_produced' - total_consumed')
    BY <1>T, <1>B, <1>V, <2>2, <2>3 DEF Balance
  <2>. QED
    BY <2>4, TokensBalance
<1>12. ASSUME NEW c \in Consumers, PostMutex(c, "post_mutex", "post_empty")
       PROVE  TokensMatchSlots'
  <2>1. pc[c] = "post_mutex" /\ Goto(c, "post_empty")
    BY <1>12 DEF PostMutex
  <2>2. /\ Reserved(pc') = Reserved(pc) /\ Filled(pc') = Filled(pc)
        /\ Left(pc') = Left(pc) /\ Emptied(pc') = Emptied(pc)
        /\ Claimed(pc') = Claimed(pc)
    BY <1>T, <1>V, <2>1, ConsumerMoves DEF One
  <2>. QED
    BY <1>12, <1>T, <1>B, <1>V, <2>2, TokensBalance
    DEF PostMutex, Balance
<1>13. ASSUME NEW c \in Consumers, PostEmpty(c) PROVE TokensMatchSlots'
  <2>1. pc[c] = "post_empty" /\ Goto(c, "wait_stored")
    BY <1>13 DEF PostEmpty
  <2>2. /\ Emptied(pc') = Emptied(pc) - 1 /\ Reserved(pc') = Reserved(pc)
        /\ Filled(pc') = Filled(pc) /\ Left(pc') = Left(pc)
        /\ Claimed(pc') = Claimed(pc)
    BY <1>T, <1>V, <2>1, ConsumerMoves DEF One
  <2>. QED
    BY <1>13, <1>T, <1>B, <1>V, <2>2, TokensBalance
    DEF PostEmpty, Balance
<1>14. ASSUME NEW c \in Consumers, EndConsumeStored(c)
       PROVE  TokensMatchSlots'
  <2>1. pc[c] = "critical" /\ Goto(c, "end_mutex")
    BY <1>14 DEF EndConsumeStored
  <2>2. /\ Claimed(pc') = Claimed(pc) - 1 /\ Reserved(pc') = Reserved(pc)
        /\ Filled(pc') = Filled(pc) /\ Left(pc') = Left(pc)
        /\ Emptied(pc') = Emptied(pc)
    BY <1>T, <1>V, <2>1, ConsumerMoves DEF One
  <2>3. /\ stored_num' = stored_num + 1
        /\ UNCHANGED <<total_produced, total_consumed, empty_num>>
    BY <1>14 DEF EndConsumeStored
  <2>4. Balance(pc', empty_num', stored_num', total_produced' - total_consumed')
    BY <1>T, <1>B, <1>V, <2>2, <2>3 DEF Balance
  <2>. QED
    BY <2>4, TokensBalance
<1>15. ASSUME NEW c \in Consumers, PostMutex(c, "end_mutex", "done")
       PROVE  TokensMatchSlots'
  <2>1. pc[c] = "end_mutex" /\ Goto(c, "done")
    BY <1>15 DEF PostMutex
  <2>2. /\ Reserved(pc') = Reserved(pc) /\ Filled(pc') = Filled(pc)
        /\ Left(pc') = Left(pc) /\ Emptied(pc') = Emptied(pc)
        /\ Claimed(pc') = Claimed(pc)
    BY <1>T, <1>V, <2>1, ConsumerMoves DEF One
  <2>. QED
    BY <1>15, <1>T, <1>B, <1>V, <2>2, TokensBalance
    DEF PostMutex, Balance
<1>16. CASE JoinProducers
  BY <1>16, TokensBalance DEF JoinProducers
<1>17. CASE JoinConsumers
  BY <1>17, TokensBalance DEF JoinConsumers
<1>18. CASE UNCHANGED vars
  BY <1>18, TokensBalance DEF vars
<1>. QED
  BY <1>1, <1>2, <1>3, <1>4, <1>5, <1>6, <1>7, <1>8, <1>9, <1>10, <1>11,
     <1>12, <1>13, <1>14, <1>15, <1>16, <1>17, <1>18
  DEF Next, Producer, Consumer, Terminated

\* Produce writes a slot outside the window, as it holds a token of empty_num;
\* Consume empties the oldest slot of the window, and no other.
LEMMA WindowStep ==
    ASSUME IInv, [Next]_vars
    PROVE  BufferHoldsWindow'
<1>. USE DEF IInv, TypeOK, BufferHoldsWindow
<1>1. ASSUME NEW p \in Producers, WaitEmpty(p) PROVE BufferHoldsWindow'
  BY <1>1 DEF WaitEmpty
<1>2. ASSUME NEW p \in Producers, WaitMutex(p) PROVE BufferHoldsWindow'
  BY <1>2 DEF WaitMutex
<1>3. ASSUME NEW p \in Producers, Produce(p) PROVE BufferHoldsWindow'
  <2>1. total_produced - total_consumed < BuffLen
    <3>1. Reserved(pc) > 0 /\ Reserved(pc) \in Nat /\ Emptied(pc) \in Nat
      BY <1>3, CountsType DEF Produce
    <3>2. empty_num + Reserved(pc) + Emptied(pc)
            = BuffLen - (total_produced - total_consumed)
      BY TokensBalance DEF Balance
    <3>. QED
      BY <3>1, <3>2, Ring
  <2>2. /\ total_produced' = total_produced + 1
        /\ total_consumed' = total_consumed
        /\ buff' = [buff EXCEPT ![total_produced % BuffLen] = total_produced]
    BY <1>3 DEF Produce
  <2>3. ASSUME NEW k \in total_consumed .. total_produced
        PROVE  buff'[k % BuffLen] = k
    <3>0. k \in Nat
      OBVIOUS
    <3>1. k % BuffLen \in Slots
      BY <3>0, Ring, DivMod DEF Slots
    <3>2. CASE k = total_produced
      BY <2>2, <3>0, <3>1, <3>2
    <3>3. CASE k < total_produced
      <4>1. total_produced < k + BuffLen
        BY <2>1, <3>0, Ring
      <4>2. k % BuffLen # total_produced % BuffLen
        BY <3>0, <3>3, <4>1, Ring, DistinctSlots
      <4>. QED
        BY <2>2, <3>0, <3>1, <3>3, <4>2
    <3>. QED
      BY <3>0, <3>2, <3>3
  <2>. QED
    BY <2>1, <2>2, <2>3, Ring
<1>4. ASSUME NEW p \in Producers, PostMutex(p, "post_mutex", "post_stored")
      PROVE  BufferHoldsWindow'
  BY <1>4 DEF PostMutex
<1>5. ASSUME NEW p \in Producers, PostStored(p) PROVE BufferHoldsWindow'
  BY <1>5 DEF PostStored
<1>6. ASSUME NEW p \in Producers, EndProduceStored(p)
      PROVE  BufferHoldsWindow'
  BY <1>6 DEF EndProduceStored
<1>7. ASSUME NEW p \in Producers, EndProduceEmpty(p) PROVE BufferHoldsWindow'
  BY <1>7 DEF EndProduceEmpty
<1>8. ASSUME NEW p \in Producers, PostMutex(p, "end_mutex", "done")
      PROVE  BufferHoldsWindow'
  BY <1>8 DEF PostMutex
<1>9. ASSUME NEW c \in Consumers, WaitStored(c) PROVE BufferHoldsWindow'
  BY <1>9 DEF WaitStored
<1>10. ASSUME NEW c \in Consumers, WaitMutex(c) PROVE BufferHoldsWindow'
  BY <1>10 DEF WaitMutex
<1>11. ASSUME NEW c \in Consumers, Consume(c) PROVE BufferHoldsWindow'
  <2>1. /\ total_consumed < total_produced
        /\ total_consumed' = total_consumed + 1
        /\ total_produced' = total_produced
        /\ buff' = [buff EXCEPT ![total_consumed % BuffLen] = Empty]
    BY <1>11, PassTakes DEF Consume, EveryPassTakes, At
  <2>2. ASSUME NEW k \in total_consumed + 1 .. total_produced - 1
        PROVE  buff'[k % BuffLen] = k
    <3>0. k \in Nat
      OBVIOUS
    <3>1. k % BuffLen \in Slots
      BY <3>0, Ring, DivMod DEF Slots
    <3>2. k % BuffLen # total_consumed % BuffLen
      BY <3>0, Ring, DistinctSlots
    <3>. QED
      BY <2>1, <3>0, <3>1, <3>2
  <2>. QED
    BY <2>1, <2>2, Ring
<1>12. ASSUME NEW c \in Consumers, PostMutex(c, "post_mutex", "post_empty")
       PROVE  BufferHoldsWindow'
  BY <1>12 DEF PostMutex
<1>13. ASSUME NEW c \in Consumers, PostEmpty(c) PROVE BufferHoldsWindow'
  BY <1>13 DEF PostEmpty
<1>14. ASSUME NEW c \in Consumers, EndConsumeStored(c)
       PROVE  BufferHoldsWindow'
  BY <1>14 DEF EndConsumeStored
<1>15. ASSUME NEW c \in Consumers, PostMutex(c, "end_mutex", "done")
       PROVE  BufferHoldsWindow'
  BY <1>15 DEF PostMutex
<1>16. CASE JoinProducers
  BY <1>16 DEF JoinProducers
<1>17. CASE JoinConsumers
  BY <1>17 DEF JoinConsumers
<1>18. CASE UNCHANGED vars
  BY <1>18 DEF vars
<1>. QED
  BY <1>1, <1>2, <1>3, <1>4, <1>5, <1>6, <1>7, <1>8, <1>9, <1>10, <1>11,
     <1>12, <1>13, <1>14, <1>15, <1>16, <1>17, <1>18
  DEF Next, Producer, Consumer, Terminated

-----------------------------------------------------------------------------
(* The invariant, and what it gives.                                       *)

\* The invariant holds when the threads are created.
LEMMA InitInv == Init => IInv
<1>. SUFFICES ASSUME Init PROVE IInv
  OBVIOUS
<1>1. TypeOK
  BY SemBufferAssumption DEF Init, TypeOK
<1>2. MutualExclusion /\ LeaversSawAll
  BY DEF Init, MutualExclusion, LeaversSawAll, Inside, Threads
<1>3. BufferHoldsWindow
  BY SemBufferAssumption DEF Init, BufferHoldsWindow
<1>4. /\ At(Producers, {"wait_mutex", "critical", "end_empty"}) = {}
      /\ At(Consumers, {"post_mutex", "post_empty"}) = {}
      /\ At(Consumers, {"wait_mutex", "critical"}) = {}
      /\ At(Producers, {"post_mutex", "post_stored"}) = {}
      /\ At(Producers, {"end_empty", "end_mutex", "done"}) = {}
  BY DEF Init, At, Threads
<1>5. TokensMatchSlots
  <2>1. empty_num = BuffLen /\ stored_num = 0 /\ total_produced = 0 /\ total_consumed = 0
    BY DEF Init
  <2>. QED
    BY <1>4, <2>1, FS_EmptySet, SemBufferAssumption DEF TokensMatchSlots
<1>. QED
  BY <1>1, <1>2, <1>3, <1>5 DEF IInv

\* The invariant is kept by every step.
LEMMA StepInv == IInv /\ [Next]_vars => IInv'
  BY TypeStep, MutexStep, LeaversStep, WindowStep, TokensStep DEF IInv

\* In every reachable state the conjuncts of IInv hold together.
THEOREM Invariance == Spec => []IInv
  BY InitInv, StepInv, PTL DEF Spec

\* The values stay within their types: in particular mutex is never posted
\* above 1, and no total runs past items_num.
THEOREM TypeCorrect == Spec => []TypeOK
<1>1. IInv => TypeOK
  BY DEF IInv
<1>. QED
  BY <1>1, Invariance, PTL

\* At most one thread is between Sem_wait(mutex) and Sem_post(mutex).
THEOREM MutexExcludes == Spec => []MutualExclusion
<1>1. IInv => MutualExclusion
  BY DEF IInv
<1>. QED
  BY <1>1, Invariance, PTL

\* No producer overwrites an item that no consumer has taken.
THEOREM WindowIsHeld == Spec => []BufferHoldsWindow
<1>1. IInv => BufferHoldsWindow
  BY DEF IInv
<1>. QED
  BY <1>1, Invariance, PTL

\* The two counting semaphores account for every slot.
THEOREM TokensAreExact == Spec => []TokensMatchSlots
<1>1. IInv => TokensMatchSlots
  BY DEF IInv
<1>. QED
  BY <1>1, Invariance, PTL

\* No consumer goes through a pass that takes nothing.
THEOREM PassesTake == Spec => []EveryPassTakes
  BY PassTakes, Invariance, PTL

-----------------------------------------------------------------------------
(* SemBuffer implements BoundedFifo: with the queue read out of the slots  *)
(* between the two totals, Produce is a Put, a Consume that takes is a     *)
(* Get, and every other step leaves the queue alone.                       *)

-----------------------------------------------------------------------------
(* Runs of consecutive numbers.                                            *)

\* The n numbers from c on.
Run(c, n) == [k \in 1 .. n |-> c + k - 1]

\* A run is a sequence of the length asked for.
LEMMA RunSeq ==
    ASSUME NEW c \in Nat, NEW n \in Nat
    PROVE  Run(c, n) \in Seq(Nat) /\ Len(Run(c, n)) = n
<1>1. Run(c, n) \in [1 .. n -> Nat]
  BY DEF Run
<1>2. Run(c, n) \in Seq(Nat)
  BY <1>1, SMT
<1>. QED
  BY <1>1, <1>2

\* The next number at the end makes it one longer.
LEMMA RunAppend ==
    ASSUME NEW c \in Nat, NEW n \in Nat
    PROVE  Run(c, n + 1) = Append(Run(c, n), c + n)
<1>1. /\ Append(Run(c, n), c + n) \in Seq(Nat)
      /\ Len(Append(Run(c, n), c + n)) = n + 1
  BY RunSeq
<1>2. ASSUME NEW k \in 1 .. n + 1
      PROVE  Run(c, n + 1)[k] = Append(Run(c, n), c + n)[k]
  BY RunSeq DEF Run
<1>3. Run(c, n + 1) \in Seq(Nat) /\ Len(Run(c, n + 1)) = n + 1
  BY RunSeq
<1>. QED
  BY <1>1, <1>2, <1>3

\* The first number away leaves the run that starts one further.
LEMMA RunTail ==
    ASSUME NEW c \in Nat, NEW n \in Nat \ {0}
    PROVE  /\ Run(c, n) # <<>>
           /\ Head(Run(c, n)) = c
           /\ Tail(Run(c, n)) = Run(c + 1, n - 1)
<1>1. Run(c, n) \in Seq(Nat) /\ Len(Run(c, n)) = n
  BY RunSeq
<1>2. Run(c, n) # <<>>
  BY <1>1
<1>3. Head(Run(c, n)) = c
  BY <1>1, <1>2 DEF Run
<1>4. Tail(Run(c, n)) \in Seq(Nat) /\ Len(Tail(Run(c, n))) = n - 1
  BY <1>1, <1>2
<1>5. Run(c + 1, n - 1) \in Seq(Nat) /\ Len(Run(c + 1, n - 1)) = n - 1
  BY RunSeq
<1>6. ASSUME NEW k \in 1 .. n - 1
      PROVE  Tail(Run(c, n))[k] = Run(c + 1, n - 1)[k]
  BY <1>1, <1>2, <1>6 DEF Run
<1>7. Tail(Run(c, n)) = Run(c + 1, n - 1)
  <2>. DEFINE s == Tail(Run(c, n))
              t == Run(c + 1, n - 1)
  <2>1. s \in Seq(Nat) /\ t \in Seq(Nat) /\ Len(s) = Len(t)
    BY <1>4, <1>5
  <2>2. \A k \in 1 .. Len(s) : s[k] = t[k]
    BY <1>4, <1>6
  <2>3. s = t
    <3>. HIDE DEF s, t
    <3>. QED
      BY <2>1, <2>2, SeqEqual
  <2>. QED
    BY <2>3
<1>. QED
  BY <1>2, <1>3, <1>7

-----------------------------------------------------------------------------
(* The queue of BoundedFifo, and the steps on it.                          *)

Queue == [k \in 1 .. total_produced - total_consumed |->
             buff[(total_consumed + k - 1) % BuffLen]]

\* The slots of the window hold consecutive numbers.
LEMMA QueueIsRun ==
    ASSUME TypeOK, BufferHoldsWindow
    PROVE  Queue = Run(total_consumed, total_produced - total_consumed)
<1>1. ASSUME NEW k \in 1 .. total_produced - total_consumed
      PROVE  buff[(total_consumed + k - 1) % BuffLen] = total_consumed + k - 1
  <2>1. total_consumed + k - 1 \in total_consumed .. total_produced - 1
    BY Ring DEF TypeOK
  <2>. QED
    BY <2>1 DEF BufferHoldsWindow
<1>. QED
  BY <1>1 DEF Queue, Run

\* The same after a step that keeps the invariant.
LEMMA QueueIsRunNext ==
    ASSUME TypeOK', BufferHoldsWindow'
    PROVE  Queue' = Run(total_consumed', total_produced' - total_consumed')
<1>1. (TypeOK /\ BufferHoldsWindow =>
         Queue = Run(total_consumed, total_produced - total_consumed))'
  BY QueueIsRun, PTL
<1>. QED
  BY <1>1

\* Fifo's queue is Queue, and the rest of it are variables of SemBuffer.
LEMMA FifoTerms ==
    /\ Fifo!Init <=> Queue = <<>> /\ total_produced = 0 /\ output = <<>>
    /\ Fifo!Put <=>
         /\ total_produced < ItemsNum
         /\ Len(Queue) < BuffLen
         /\ Queue' = Append(Queue, total_produced)
         /\ total_produced' = total_produced + 1
         /\ output' = output
    /\ Fifo!Get <=>
         /\ Queue # <<>>
         /\ Queue' = Tail(Queue)
         /\ output' = Append(output, Head(Queue))
         /\ total_produced' = total_produced
    /\ (UNCHANGED Fifo!vars) <=>
         Queue' = Queue /\ total_produced' = total_produced /\ output' = output
  BY DEF Fifo!Init, Fifo!Put, Fifo!Get, Fifo!vars, Queue

-----------------------------------------------------------------------------
(* The refinement.                                                         *)

\* Before anything is produced the queue is empty.
LEMMA FifoInit == Init => Fifo!Init
<1>. SUFFICES ASSUME Init PROVE Queue = <<>>
  BY FifoTerms DEF Init
<1>. QED
  BY DEF Init, Queue

\* A step that touches neither the totals nor the slots leaves the queue alone.
LEMMA FifoStutter ==
    ASSUME UNCHANGED <<buff, total_produced, total_consumed, output>>
    PROVE  UNCHANGED Fifo!vars
  BY FifoTerms DEF Queue

\* Produce puts the item it numbers at the end of the queue.
LEMMA FifoPut ==
    ASSUME IInv, IInv', NEW p \in Producers, Produce(p)
    PROVE  Fifo!Put
<1>. DEFINE c == total_consumed
            n == total_produced - total_consumed
<1>1. /\ c \in Nat /\ n \in Nat /\ c + n = total_produced
      /\ total_produced < ItemsNum
      /\ total_produced' = total_produced + 1 /\ c' = c
      /\ n' = n + 1 /\ output' = output
  BY DEF IInv, TypeOK, BufferHoldsWindow, Produce
<1>2. n' <= BuffLen
  BY DEF IInv, BufferHoldsWindow
<1>3. Queue = Run(c, n) /\ Queue' = Run(c', n')
  BY QueueIsRun, QueueIsRunNext DEF IInv
<1>. HIDE DEF c, n
<1>4. Len(Queue) = n /\ Queue' = Append(Queue, c + n)
  BY <1>1, <1>3, RunSeq, RunAppend
<1>5. n < BuffLen
  BY <1>1, <1>2, SemBufferAssumption
<1>. QED
  BY <1>1, <1>4, <1>5, FifoTerms

\* Consume, which always takes, takes the item at the head of the queue.
LEMMA FifoGet ==
    ASSUME IInv, IInv', NEW c \in Consumers, Consume(c)
    PROVE  Fifo!Get
<1>. DEFINE first == total_consumed
            n == total_produced - total_consumed
<1>1. /\ total_consumed < total_produced
      /\ first' = first + 1
      /\ total_produced' = total_produced
      /\ output' = Append(output, buff[total_consumed % BuffLen])
  BY PassTakes DEF Consume, EveryPassTakes, At
<1>2. buff[total_consumed % BuffLen] = first
  BY <1>1 DEF IInv, TypeOK, BufferHoldsWindow
<1>3. first \in Nat /\ n \in Nat \ {0} /\ n' = n - 1
  BY <1>1 DEF IInv, TypeOK
<1>4. Queue = Run(first, n) /\ Queue' = Run(first', n')
  BY QueueIsRun, QueueIsRunNext DEF IInv
<1>. HIDE DEF first, n
<1>5. Queue # <<>> /\ Head(Queue) = first /\ Queue' = Tail(Queue)
  BY <1>1, <1>3, <1>4, RunTail
<1>. QED
  BY <1>1, <1>2, <1>5, FifoTerms

\* Every step of SemBuffer is a step of BoundedFifo, or leaves its variables
\* alone.
LEMMA FifoStep ==
    ASSUME IInv, IInv', [Next]_vars
    PROVE  [Fifo!Next]_Fifo!vars
<1>1. ASSUME NEW p \in Producers, Producer(p) PROVE [Fifo!Next]_Fifo!vars
  <2>1. CASE Produce(p)
    BY <2>1, FifoPut DEF Fifo!Next
  <2>2. CASE ~Produce(p)
    BY <1>1, <2>2, FifoStutter
    DEF Producer, WaitEmpty, WaitMutex, PostMutex, PostStored,
        EndProduceStored, EndProduceEmpty
  <2>. QED
    BY <2>1, <2>2
<1>2. ASSUME NEW c \in Consumers, Consumer(c) PROVE [Fifo!Next]_Fifo!vars
  <2>1. CASE Consume(c)
    BY <2>1, FifoGet DEF Fifo!Next
  <2>2. CASE ~Consume(c)
    BY <1>2, <2>2, FifoStutter
    DEF Consumer, WaitStored, WaitMutex, PostMutex, PostEmpty, EndConsumeStored
  <2>. QED
    BY <2>1, <2>2
<1>3. CASE JoinProducers
  BY <1>3, FifoStutter DEF JoinProducers
<1>4. CASE JoinConsumers
  BY <1>4, FifoStutter DEF JoinConsumers
<1>5. CASE UNCHANGED vars
  BY <1>5, FifoStutter DEF vars
<1>. QED
  BY <1>1, <1>2, <1>3, <1>4, <1>5 DEF Next, Terminated

\* Each item is taken once, and in the order of production: the buffer is a
\* bounded first-in, first-out queue.
THEOREM FifoRefinement == Spec => ImplementsFifo
<1>1. Spec => Init /\ [][Next]_vars
  BY DEF Spec
<1>2. ImplementsFifo <=> Fifo!Init /\ [][Fifo!Next]_Fifo!vars
  BY DEF ImplementsFifo, Fifo!Spec
<1>. QED
  BY <1>1, <1>2, Invariance, FifoInit, FifoStep, PTL
===============================================================================
