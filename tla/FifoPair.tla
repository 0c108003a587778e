------------------------------ MODULE FifoPair ------------------------------
(***************************************************************************)
(* Two processes and a channel each way, pipe_FIFO/:                       *)
(*   "pipe"         test_process_pipe: two pipes shared over fork, one     *)
(*                  message each way;                                      *)
(*   "process"      test_process_fifo: the parent is the client of the     *)
(*                  child, over two FIFOs;                                 *)
(*   "independent"  test_fifo_service and test_fifo_client;                *)
(*   "mesg"         test_fifo_mesg_service and test_fifo_mesg_client, with *)
(*                  messages of my_mesg.cpp.                               *)
(* "up" carries what the client sends, "down" what the service answers.    *)
(* Channels are never full, and one Read returns one message: client and   *)
(* service take turns.  Either process may be killed at any time.          *)
(***************************************************************************)
EXTENDS Naturals, Sequences

CONSTANT Lines   \* bound: lines the client reads from its standard input

Programs == {"pipe", "process", "independent", "mesg"}
Channels == {"up", "down"}
Processes == {"client", "service"}
Other(p) == IF p = "client" THEN "service" ELSE "client"

VARIABLES
  pair,      \* which pair of programs runs
  made,      \* the FIFOs are in the file system
  at,        \* label of each process
  reader,    \* the processes that have each channel open for reading
  writer,    \* the processes that have each channel open for writing
  channel,   \* what each channel holds
  line,      \* number of the line the client typed last
  answer,    \* what the client got last: the number of a line, 0 for nothing
  hand       \* what the service is answering

vars == <<pair, made, at, reader, writer, channel, line, answer, hand>>

Ended(p) == at[p] \in {"done", "killed", "failed"}

Quiet == /\ pair \in Programs /\ made = (pair \in {"pipe", "process"})
         /\ channel = [f \in Channels |-> <<>>] /\ line = 0 /\ answer = 0 /\ hand = 0
\* Both ends of both pipes are open in both processes after fork.
Init == /\ Quiet
        /\ at = [p \in Processes |->
                   IF p = "service" /\ pair \in {"independent", "mesg"} THEN "make" ELSE "start"]
        /\ reader = [f \in Channels |-> IF pair = "pipe" THEN Processes ELSE {}]
        /\ writer = reader
NotRun == /\ Quiet /\ pair = "pipe" /\ at = [p \in Processes |-> "done"]
          /\ reader = [f \in Channels |-> {}] /\ writer = reader

-----------------------------------------------------------------------------
(* Opening and closing *)

Goto(p, label) == at' = [at EXCEPT ![p] = label]

\* open of one end blocks until the other end is open, or being opened: who
\* comes second lets the first go on too.
Wait(f) == IF f = "up" THEN "wait up" ELSE "wait down"
After(p, f) == IF f = "up" THEN "open down" ELSE IF p = "service" THEN "read" ELSE "type"
OpenEnd(p, f, other) ==
  IF other = {}
  THEN Goto(p, Wait(f))
  ELSE at' = [q \in Processes |->
                IF q = p \/ at[q] = Wait(f) THEN After(q, f) ELSE at[q]]

\* All the ends of a process that ends are closed.
CloseAll(p) == /\ reader' = [f \in Channels |-> reader[f] \ {p}]
               /\ writer' = [f \in Channels |-> writer[f] \ {p}]

\* write without a reader: SIGPIPE ends the process.
WriteOr(p, f, what, next) ==
  IF reader[f] \ {p} # {}
  THEN /\ channel' = [channel EXCEPT ![f] = Append(@, what)]
       /\ Goto(p, next) /\ UNCHANGED <<reader, writer>>
  ELSE Goto(p, "killed") /\ CloseAll(p) /\ UNCHANGED channel

\* read returns once there is something or nobody can write.
Readable(f) == channel[f] # <<>> \/ writer[f] = {}

-----------------------------------------------------------------------------
(* The services: fifo_service, mesg_service *)

\* creat_two_fifo
ServiceMake ==
  /\ at["service"] = "make" /\ made' = TRUE /\ Goto("service", "start")
  /\ UNCHANGED <<pair, reader, writer, channel, line, answer, hand>>

ServiceOpens ==
  /\ pair # "pipe"
  /\ \/ /\ at["service"] = "start" /\ reader' = [reader EXCEPT !["up"] = @ \cup {"service"}]
        /\ OpenEnd("service", "up", writer["up"]) /\ UNCHANGED writer
     \/ /\ at["service"] = "open down" /\ writer' = [writer EXCEPT !["down"] = @ \cup {"service"}]
        /\ OpenEnd("service", "down", reader["down"]) /\ UNCHANGED reader
  /\ UNCHANGED <<pair, made, channel, line, answer, hand>>

\* The service ends at the end of its input and at "quit".
ServiceReads ==
  /\ at["service"] = "read" /\ Readable("up")
  /\ IF channel["up"] = <<>> \/ Head(channel["up"]).quit
     THEN Goto("service", "done") /\ CloseAll("service") /\ UNCHANGED hand
     ELSE /\ hand' = Head(channel["up"]).n /\ Goto("service", "answer")
          /\ UNCHANGED <<reader, writer>>
  /\ channel' = [channel EXCEPT !["up"] = IF @ = <<>> THEN @ ELSE Tail(@)]
  /\ UNCHANGED <<pair, made, line, answer>>

ServiceAnswers ==
  /\ at["service"] = "answer"
  /\ WriteOr("service", "down", [n |-> hand, quit |-> FALSE], "read")
  /\ UNCHANGED <<pair, made, line, answer, hand>>

-----------------------------------------------------------------------------
(* The clients: fifo_client, mesg_client *)

ClientOpens ==
  /\ pair # "pipe"
  /\ \/ /\ at["client"] = "start"
        /\ IF made
           THEN /\ writer' = [writer EXCEPT !["up"] = @ \cup {"client"}]
                /\ OpenEnd("client", "up", reader["up"])
           ELSE Goto("client", "failed") /\ UNCHANGED writer
        /\ UNCHANGED reader
     \/ /\ at["client"] = "open down" /\ reader' = [reader EXCEPT !["down"] = @ \cup {"client"}]
        /\ OpenEnd("client", "down", writer["down"]) /\ UNCHANGED writer
  /\ UNCHANGED <<pair, made, channel, line, answer, hand>>

ClientTypes ==
  /\ at["client"] = "type" /\ line < Lines
  /\ line' = line + 1
  /\ \E quit \in BOOLEAN :
       WriteOr("client", "up", [n |-> line', quit |-> quit], IF quit THEN "quit" ELSE "receive")
  /\ UNCHANGED <<pair, made, answer, hand>>

\* End of the standard input
ClientEof ==
  /\ at["client"] = "type" /\ Goto("client", "eof")
  /\ UNCHANGED <<pair, made, reader, writer, channel, line, answer, hand>>

\* The client of fifo_client prints what it reads, or nothing, and goes on;
\* that of mesg_client leaves at the end of its input.
ClientReceives ==
  /\ at["client"] = "receive" /\ Readable("down")
  /\ answer' = IF channel["down"] = <<>> THEN 0 ELSE Head(channel["down"]).n
  /\ channel' = [channel EXCEPT !["down"] = IF @ = <<>> THEN @ ELSE Tail(@)]
  /\ Goto("client", IF channel["down"] = <<>> /\ pair = "mesg" THEN "eof" ELSE "type")
  /\ UNCHANGED <<pair, made, reader, writer, line, hand>>

\* waitpid of the child comes before Close; without a child, Close and unlink.
ClientCloses ==
  /\ at["client"] \in {"quit", "eof"}
  /\ pair = "process" => Ended("service")
  /\ CloseAll("client") /\ Goto("client", "done") /\ made' = FALSE
  /\ UNCHANGED <<pair, channel, line, answer, hand>>

-----------------------------------------------------------------------------
(* test_process_pipe: the parent is "client", the child "service" *)

Shut(ends, f, p) == [ends EXCEPT ![f] = @ \ {p}]

\* close(fd1[0]); write; close(fd1[1])
ParentWrites ==
  /\ pair = "pipe" /\ at["client"] = "start" /\ line' = 1
  /\ IF reader["up"] \ {"client"} # {}
     THEN /\ channel' = [channel EXCEPT !["up"] = <<[n |-> 1, quit |-> FALSE]>>]
          /\ Goto("client", "close down")
          /\ reader' = Shut(reader, "up", "client") /\ writer' = Shut(writer, "up", "client")
     ELSE Goto("client", "killed") /\ CloseAll("client") /\ UNCHANGED channel
  /\ UNCHANGED <<pair, made, answer, hand>>

ParentClosesDown ==
  /\ at["client"] = "close down" /\ Goto("client", "read down")
  /\ writer' = Shut(writer, "down", "client")
  /\ UNCHANGED <<pair, made, reader, channel, line, answer, hand>>

ParentReads ==
  /\ at["client"] = "read down" /\ Readable("down")
  /\ answer' = IF channel["down"] = <<>> THEN 0 ELSE channel["down"][1].n
  /\ channel' = [channel EXCEPT !["down"] = <<>>]
  /\ reader' = Shut(reader, "down", "client") /\ Goto("client", "wait")
  /\ UNCHANGED <<pair, made, writer, line, hand>>

ParentWaits ==
  /\ at["client"] = "wait" /\ Ended("service") /\ Goto("client", "done")
  /\ UNCHANGED <<pair, made, reader, writer, channel, line, answer, hand>>

\* Wrong on purpose: the child keeps its copy of the end the parent writes to.
ChildKeepsUp ==
  /\ pair = "pipe" /\ at["service"] = "start" /\ Goto("service", "read up")
  /\ UNCHANGED <<pair, made, reader, writer, channel, line, answer, hand>>

ChildClosesUp ==
  /\ pair = "pipe" /\ at["service"] = "start" /\ Goto("service", "read up")
  /\ writer' = Shut(writer, "up", "service")
  /\ UNCHANGED <<pair, made, reader, channel, line, answer, hand>>

ChildReads ==
  /\ at["service"] = "read up" /\ Readable("up")
  /\ hand' = IF channel["up"] = <<>> THEN 0 ELSE channel["up"][1].n
  /\ channel' = [channel EXCEPT !["up"] = <<>>]
  /\ reader' = [Shut(reader, "up", "service") EXCEPT !["down"] = @ \ {"service"}]
  /\ Goto("service", "write down")
  /\ UNCHANGED <<pair, made, writer, line, answer>>

ChildWrites ==
  /\ at["service"] = "write down"
  /\ channel' = IF reader["down"] = {} THEN channel
                ELSE [channel EXCEPT !["down"] = <<[n |-> 1, quit |-> FALSE]>>]
  /\ Goto("service", IF reader["down"] = {} THEN "killed" ELSE "done") /\ CloseAll("service")
  /\ UNCHANGED <<pair, made, line, answer, hand>>

-----------------------------------------------------------------------------

Killed(p) ==
  /\ ~Ended(p) /\ Goto(p, "killed") /\ CloseAll(p)
  /\ UNCHANGED <<pair, made, channel, line, answer, hand>>

Client == ClientOpens \/ ClientReceives \/ ClientCloses
            \/ ParentWrites \/ ParentClosesDown \/ ParentReads \/ ParentWaits
Service == ServiceMake \/ ServiceOpens \/ ServiceReads \/ ServiceAnswers
             \/ ChildClosesUp \/ ChildReads \/ ChildWrites

Next == Client \/ ClientTypes \/ ClientEof \/ Service \/ \E p \in Processes : Killed(p)

\* Both processes go on; nobody has to type and nobody is killed.
Fairness == WF_vars(Client) /\ WF_vars(Service)

Spec == Init /\ [][Next]_vars /\ Fairness

-----------------------------------------------------------------------------
(* Properties *)

Labels == {"make", "start", "wait up", "open down", "wait down", "read", "answer",
           "type", "receive", "quit", "eof", "close down", "read down", "wait",
           "read up", "write down", "done", "killed", "failed"}
Sent == [n : 1..Lines, quit : BOOLEAN]

TypeOK ==
  /\ pair \in Programs /\ made \in BOOLEAN /\ at \in [Processes -> Labels]
  /\ reader \in [Channels -> SUBSET Processes] /\ writer \in [Channels -> SUBSET Processes]
  /\ channel \in [Channels -> Seq(Sent)]
  /\ line \in 0..Lines /\ answer \in 0..Lines /\ hand \in 0..Lines

\* Client and service take turns (fifo_test.cpp:145-162, 177-185): whatever
\* the client reads answers the line it typed last, it misses an answer only
\* when the service is gone, and the channels never hold two messages.
AnswerMatchesLine ==
  /\ Len(channel["up"]) + Len(channel["down"]) <= 1
  /\ at["client"] \in {"type", "wait"} /\ answer # line => answer = 0 /\ Ended("service")

\* The two opens of the client and of the service meet in the same order
\* (fifo_test.cpp:199-207): neither waits for ever for the other in open.
Opening == {"wait up", "open down", "wait down"}
OpensMeet ==
  \A p \in Processes : at[p] \in Opening ~> (at[p] \notin Opening \/ Ended(Other(p)))

\* Each process learns of the end of the other.  A service or child that
\* reads ends after its client, however that ended; who waits for an answer
\* goes on; "quit" ends both, and so does the end of the input, except for
\* the parent of test_process_fifo, which waits for its child with the FIFO
\* the child reads from still open (fifo_test.cpp:212-215).
Serving == {"read", "answer", "read up", "write down"}
BothEnd ==
  /\ Ended("client") /\ at["service"] \in Serving ~> Ended("service")
  /\ at["client"] \in {"receive", "read down", "wait"} ~> at["client"] \notin {"receive", "read down", "wait"}
  /\ at["client"] = "quit" \/ (at["client"] = "eof" /\ pair # "process")
       ~> Ended("client") /\ Ended("service")
=============================================================================
