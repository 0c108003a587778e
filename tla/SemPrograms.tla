----------------------------- MODULE SemPrograms -----------------------------
(***************************************************************************)
(* Producers and one consumer on three semaphores,                         *)
(* Posix_semaphore/semaphore_test.cpp:                                     *)
(*   "named"    test_semaphore_named, one producer; the semaphores have    *)
(*              names, so that a run that is killed leaves them behind     *)
(*              with the values they had, and the next one opens those;    *)
(*   "unnamed"  test_semaphore_unnamed, the same with unnamed semaphores;  *)
(*   "many"     test_semaphore_unnamed_01, many producers that share their *)
(*              position, one consumer with an index of its own;           *)
(*   "double"   test_semaphore_unnamed_buffer, one producer fills blocks   *)
(*              from a file while the consumer prints others, without a    *)
(*              mutex; a mark ends the file.                               *)
(***************************************************************************)
EXTENDS Naturals, Sequences, FiniteSets

CONSTANTS
  Producers,   \* the threads of produce in "many"
  First,       \* the one that the other programs start
  BuffLen,     \* buff_len
  ItemsNum,    \* items_num
  MaxCrashes   \* bound: times the process is killed and run again

Names == {"mutex", "empty", "stored"}
Order == <<"mutex", "empty", "stored">>
Fresh == [n \in Names |-> IF n = "mutex" THEN 1 ELSE IF n = "empty" THEN BuffLen ELSE 0]
Slots == 0..BuffLen - 1
Taken == ItemsNum          \* -1
Zero == ItemsNum + 1       \* a slot that nobody wrote
EndMark == ItemsNum + 2    \* -10
Tests == {"named", "unnamed", "many", "double"}

VARIABLES
  test,      \* which of the programs runs
  left,      \* the semaphores whose names exist
  dirty,     \* those that a run left which was killed while its threads ran
  value,     \* the value of each semaphore
  stage,     \* what the main thread does
  step,      \* position of the semaphore it opens or unlinks next
  producer,  \* label of each producer
  consumer,  \* label of the consumer
  buff,      \* shared.buff
  total_produced,
  total_consumed,
  index,     \* i of the consumer
  crashes    \* times the process was killed

mainVars == <<left, dirty, stage, step, crashes>>
vars == <<test, mainVars, value, producer, consumer, buff, total_produced,
          total_consumed, index>>

Quiet ==
  /\ left = {} /\ dirty = {} /\ value = Fresh /\ crashes = 0
  /\ stage = "open" /\ step = 1 /\ producer = [p \in Producers |-> "absent"]
  /\ consumer = "absent" /\ buff = [s \in Slots |-> Zero]
  /\ total_produced = 0 /\ total_consumed = 0 /\ index = 0
Init == Quiet /\ test \in Tests
NotRun == Quiet /\ test = "none"

-----------------------------------------------------------------------------
(* The main thread *)

\* Sem_open with O_CREAT and without O_EXCL, or Sem_init
MainOpens ==
  /\ stage = "open" /\ test # "none" /\ step <= 3
  /\ LET n == Order[step] IN
     /\ value' = IF n \in left THEN value ELSE [value EXCEPT ![n] = Fresh[n]]
     /\ left' = IF test = "named" THEN left \cup {n} ELSE left
  /\ step' = step + 1
  /\ UNCHANGED <<test, dirty, stage, crashes, producer, consumer, buff,
                 total_produced, total_consumed, index>>

Creates(p) == test = "many" \/ p = First
MainCreates ==
  /\ stage = "open" /\ step = 4 /\ stage' = "run" /\ step' = 1
  /\ producer' = [p \in Producers |-> IF Creates(p) THEN "wait_empty" ELSE "absent"]
  /\ consumer' = "wait_stored"
  /\ UNCHANGED <<test, left, dirty, crashes, value, buff, total_produced,
                 total_consumed, index>>

ThreadsEnded == consumer = "done" /\ \A p \in Producers : producer[p] \in {"absent", "done"}
MainJoins ==
  /\ stage = "run" /\ ThreadsEnded
  /\ stage' = IF test = "named" THEN "unlink" ELSE "done"
  /\ UNCHANGED <<test, left, dirty, step, crashes, value, producer, consumer, buff,
                 total_produced, total_consumed, index>>

MainUnlinks ==
  /\ stage = "unlink"
  /\ left' = left \ {Order[step]} /\ dirty' = dirty \ {Order[step]}
  /\ IF step < 3 THEN step' = step + 1 /\ UNCHANGED stage ELSE step' = 1 /\ stage' = "done"
  /\ UNCHANGED <<test, crashes, value, producer, consumer, buff, total_produced,
                 total_consumed, index>>

\* The process is killed and run again: the named semaphores stay as they are.
Crash ==
  /\ test = "named" /\ stage # "done" /\ crashes < MaxCrashes
  /\ crashes' = crashes + 1 /\ dirty' = IF stage = "run" THEN left ELSE dirty
  /\ stage' = "open" /\ step' = 1 /\ producer' = [p \in Producers |-> "absent"]
  /\ consumer' = "absent" /\ buff' = [s \in Slots |-> Zero]
  /\ total_produced' = 0 /\ total_consumed' = 0 /\ index' = 0
  /\ UNCHANGED <<test, left, value>>

-----------------------------------------------------------------------------
(* Semaphores *)

Wait(n) == value[n] > 0 /\ value' = [value EXCEPT ![n] = @ - 1]
Post(n) == value' = [value EXCEPT ![n] = @ + 1]

-----------------------------------------------------------------------------
(* produce *)

ProducerGoto(p, from, to) == producer[p] = from /\ producer' = [producer EXCEPT ![p] = to]

ProducerWaits(p) ==
  /\ \/ ProducerGoto(p, "wait_empty", IF test = "double" THEN "put" ELSE "wait_mutex") /\ Wait("empty")
     \/ ProducerGoto(p, "wait_mutex", "put") /\ Wait("mutex")
  /\ UNCHANGED <<test, mainVars, consumer, buff, total_produced, total_consumed, index>>

\* With all the items made, the producers of "many" give the slot back and
\* that of "double" marks the end there.
Position == total_produced % BuffLen
\* Wrong on purpose: total_produced <= items_num.
ProducerPutsOneMore(p) ==
  /\ total_produced <= ItemsNum
  /\ ProducerGoto(p, "put", IF test = "double" THEN "post_stored" ELSE "post_mutex")
  /\ buff' = [buff EXCEPT ![Position] = total_produced]
  /\ total_produced' = total_produced + 1
  /\ UNCHANGED <<test, mainVars, value, consumer, total_consumed, index>>

ProducerPuts(p) ==
  /\ IF total_produced < ItemsNum
     THEN /\ ProducerGoto(p, "put", IF test = "double" THEN "post_stored" ELSE "post_mutex")
          /\ buff' = [buff EXCEPT ![Position] = total_produced]
          /\ total_produced' = total_produced + 1
     ELSE /\ ProducerGoto(p, "put", IF test = "double" THEN "post_mark" ELSE "give_back")
          /\ buff' = IF test = "double" THEN [buff EXCEPT ![Position] = EndMark] ELSE buff
          /\ UNCHANGED total_produced
  /\ UNCHANGED <<test, mainVars, value, consumer, total_consumed, index>>

Again == IF test \in {"named", "unnamed"} /\ total_produced = ItemsNum THEN "done" ELSE "wait_empty"
\* Wrong on purpose: a producer that leaves keeps the slot it reserved.
ProducerKeepsSlot(p) ==
  /\ \/ ProducerGoto(p, "post_mutex", "post_stored") /\ Post("mutex")
     \/ ProducerGoto(p, "post_stored", Again) /\ Post("stored")
     \/ ProducerGoto(p, "give_back", "done") /\ Post("mutex")
     \/ ProducerGoto(p, "post_mark", "done") /\ Post("stored")
  /\ UNCHANGED <<test, mainVars, consumer, buff, total_produced, total_consumed, index>>

ProducerPosts(p) ==
  /\ \/ ProducerGoto(p, "post_mutex", "post_stored") /\ Post("mutex")
     \/ ProducerGoto(p, "post_stored", Again) /\ Post("stored")
     \/ ProducerGoto(p, "give_back", "leave") /\ Post("empty")
     \/ ProducerGoto(p, "leave", "done") /\ Post("mutex")
     \/ ProducerGoto(p, "post_mark", "done") /\ Post("stored")
  /\ UNCHANGED <<test, mainVars, consumer, buff, total_produced, total_consumed, index>>

-----------------------------------------------------------------------------
(* consume *)

ConsumerGoto(from, to) == consumer = from /\ consumer' = to

ConsumerWaits ==
  /\ \/ ConsumerGoto("wait_stored", IF test = "double" THEN "take" ELSE "wait_mutex") /\ Wait("stored")
     \/ ConsumerGoto("wait_mutex", "take") /\ Wait("mutex")
  /\ UNCHANGED <<test, mainVars, producer, buff, total_produced, total_consumed, index>>

\* The consumer of "many" passes over a slot that holds nothing; that of
\* "double" ends at the mark.
Full == total_consumed < total_produced /\ buff[index % BuffLen] # Taken
ConsumerTakes ==
  /\ ConsumerGoto("take", IF test # "double" THEN "post_mutex"
                          ELSE IF buff[index % BuffLen] = EndMark THEN "done" ELSE "post_empty")
  /\ IF test = "many" /\ Full
     THEN /\ buff' = [buff EXCEPT ![index % BuffLen] = Taken]
          /\ total_consumed' = total_consumed + 1
     ELSE UNCHANGED <<buff, total_consumed>>
  /\ UNCHANGED <<test, mainVars, value, producer, total_produced, index>>

LastRound == test # "double" /\ index + 1 = ItemsNum
ConsumerPosts ==
  /\ \/ ConsumerGoto("post_mutex", "post_empty") /\ Post("mutex") /\ UNCHANGED index
     \/ /\ ConsumerGoto("post_empty", IF LastRound THEN "done" ELSE "wait_stored")
        /\ Post("empty") /\ index' = index + 1
  /\ UNCHANGED <<test, mainVars, producer, buff, total_produced, total_consumed>>

Main == MainOpens \/ MainCreates \/ MainJoins \/ MainUnlinks
Threads ==
  \/ \E p \in Producers : ProducerWaits(p) \/ ProducerPuts(p) \/ ProducerPosts(p)
  \/ ConsumerWaits \/ ConsumerTakes \/ ConsumerPosts

Next == Main \/ Threads \/ Crash

Spec == Init /\ [][Next]_vars

-----------------------------------------------------------------------------
(* Properties *)

TypeOK ==
  /\ test \in Tests \cup {"none"} /\ left \subseteq Names /\ dirty \subseteq left
  /\ value \in [Names -> Nat] /\ stage \in {"open", "run", "unlink", "done"} /\ step \in 1..4
  /\ producer \in [Producers -> {"absent", "wait_empty", "wait_mutex", "put", "post_mutex",
                                 "post_stored", "post_mark", "give_back", "leave", "done"}]
  /\ consumer \in {"absent", "wait_stored", "wait_mutex", "take", "post_mutex", "post_empty", "done"}
  /\ \A s \in Slots : buff[s] \in 0..EndMark
  /\ {total_produced, total_consumed, index} \subseteq 0..ItemsNum /\ crashes \in 0..MaxCrashes

\* Every item the consumer looks at is the one it expects in that slot, in
\* whatever order the producers ran, and the threads end with the semaphores
\* as they began: only semaphores left by a run that was killed while its threads ran
\* (semaphore_test.cpp:156-158 open them without O_EXCL) can break that, not
\* those of a run that was killed while it opened or unlinked them.  Until all
\* have ended there is one that can go on.  The block that is read from the
\* file is never the block that is printed.
Expected == IF test = "double" /\ index = ItemsNum THEN EndMark ELSE index
SameSlot == producer[First] = "put" /\ consumer = "take" /\ Position = index % BuffLen
Blocked(thread) ==
  \/ thread \in {"absent", "done"}
  \/ thread = "wait_empty" /\ value["empty"] = 0
  \/ thread = "wait_mutex" /\ value["mutex"] = 0
  \/ thread = "wait_stored" /\ value["stored"] = 0
IntactUnlessLeftDirty ==
  dirty = {} =>
    /\ consumer = "take" => buff[index % BuffLen] = Expected /\ (test = "many" => Full)
    /\ test = "double" => ~SameSlot
    /\ stage = "run" /\ Blocked(consumer) /\ (\A p \in Producers : Blocked(producer[p])) => ThreadsEnded
    /\ stage = "run" /\ ThreadsEnded =>
         CASE test = "many" -> value = Fresh /\ total_consumed = ItemsNum
           [] test = "double" -> index = ItemsNum
           [] OTHER -> value = Fresh
=============================================================================
