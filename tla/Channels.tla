------------------------------ MODULE Channels ------------------------------
(***************************************************************************)
(* The programs that talk through pipes, FIFOs and message queues, as they *)
(* are started from the menu of main.cpp: its user chooses one kind of     *)
(* program by its numbers, starts what belongs together, and each choice   *)
(* ends in exit.  The programs of different kinds share nothing.           *)
(***************************************************************************)
EXTENDS Naturals, Sequences, FiniteSets

CONSTANTS
  Clients,    \* the client processes
  Lines       \* bound: lines a client reads from its standard input

ASSUME ClientsAssumption == IsFiniteSet(Clients) /\ "public" \notin Clients
ASSUME LinesAssumption == Lines \in Nat \ {0}

\* Choices 18 to 23: System V message queues
VARIABLES program, exists, queue, service, held, client, mine, typed, child,
          childHeld, zombies, sigchld, merged
Msg == INSTANCE MsgService
\* Choices 5 and 6: one service, many clients, through FIFOs
VARIABLES fifoServer, requests, current, fifoClient, asked, present, pipe,
          writing, output, shared
Fifo == INSTANCE FifoService
\* Choices 0, 2 to 4, 7 and 8: two processes, one pipe or FIFO each way
VARIABLES pair, made, at, reader, writer, channel, line, answer, hand
Pair == INSTANCE FifoPair
\* Choices 10 and 11: a POSIX message queue
VARIABLES named, posted, mqService, mqClient, mqd, got
Mq == INSTANCE MqPair

msgVars == <<program, exists, queue, service, held, client, mine, typed, child,
             childHeld, zombies, sigchld, merged>>
fifoVars == <<fifoServer, requests, current, fifoClient, asked, present, pipe,
              writing, output, shared>>
pairVars == <<pair, made, at, reader, writer, channel, line, answer, hand>>
mqVars == <<named, posted, mqService, mqClient, mqd, got>>
vars == <<msgVars, fifoVars, pairVars, mqVars>>

Init ==
  \/ Msg!Init /\ Fifo!NotRun /\ Pair!NotRun /\ Mq!NotRun
  \/ Msg!NotRun /\ Fifo!Init /\ Pair!NotRun /\ Mq!NotRun
  \/ Msg!NotRun /\ Fifo!NotRun /\ Pair!Init /\ Mq!NotRun
  \/ Msg!NotRun /\ Fifo!NotRun /\ Pair!NotRun /\ Mq!Init

Next ==
  \/ Msg!Next /\ UNCHANGED <<fifoVars, pairVars, mqVars>>
  \/ Fifo!Next /\ UNCHANGED <<msgVars, pairVars, mqVars>>
  \/ Pair!Next /\ UNCHANGED <<msgVars, fifoVars, mqVars>>
  \/ Mq!Next /\ UNCHANGED <<msgVars, fifoVars, pairVars>>

Fairness == Msg!Fairness /\ Fifo!Fairness /\ Pair!Fairness /\ Mq!Fairness

Spec == Init /\ [][Next]_vars /\ Fairness

-----------------------------------------------------------------------------
(* Every variable of the four kinds of program has a value of its kind. *)
TypeOK == Msg!TypeOK /\ Fifo!TypeOK /\ Pair!TypeOK /\ Mq!TypeOK

(* System V queues: a client that waits has exactly its request or the      *)
(* answer to it on the way, however often a service takes its own answer    *)
(* back from the queue they share (msg_test.cpp:256-276, 454-478), and what *)
(* it takes off that queue is about the line it typed last.                 *)
OneMessageInFlight == Msg!OneMessageInFlight /\ Msg!OwnAnswer

(* A child of the forking service stays a zombie only when its SIGCHLD      *)
(* merged with another one (process_signal.cpp:585-591).                    *)
ZombiesOnlyFromMergedSignals == Msg!ZombiesOnlyFromMergedSignals

(* FIFO service: a request is answered once and completely, unless it was   *)
(* read together with another one (fifo_test.cpp:278-297); the service is   *)
(* killed or blocked in open (302) only after a client was interrupted; a   *)
(* client never leaves its loop by itself (388).                            *)
RequestsAccountedFor ==
  Fifo!RequestsAccountedFor /\ Fifo!OnlyInterruptsHarm /\ Fifo!ClientNeverDone

(* A client that misses the answer to its last line has lost its service    *)
(* (fifo_test.cpp:145-162, 177-185); on the POSIX queue it takes a message  *)
(* of an earlier run only from the queue that run left                      *)
(* (mqueue_test.cpp:334-350).                                               *)
AnswerMatchesLine == Pair!AnswerMatchesLine /\ Mq!StaleOnlyFromOldQueue

(* Nobody waits for ever: a client of "pair" or "echo" is answered, a FIFO  *)
(* client whose request was read alone is answered while none is            *)
(* interrupted, the client on the POSIX queue gets a message, the opens of  *)
(* a pair meet, and "quit" and the end of either process end the other,     *)
(* but for the parent of test_process_fifo (fifo_test.cpp:212).             *)
EveryoneGoesOn ==
  /\ Msg!ClientsAnswered /\ Msg!QuitEndsServer
  /\ Fifo!AloneIsAnswered /\ Mq!ClientGetsMessage
  /\ Pair!OpensMeet /\ Pair!BothEnd
=============================================================================
