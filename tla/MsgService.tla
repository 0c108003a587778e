----------------------------- MODULE MsgService -----------------------------
(***************************************************************************)
(* The three services on System V message queues of                        *)
(* System_V_message_queue/msg_test.cpp and the clients that call them:     *)
(*   "pair"  test_msg_service and test_msg_client: one queue and one       *)
(*           message type (OneToOne) for requests and answers alike;       *)
(*   "echo"  test_msg_service_echo and test_msg_client_call: one queue,    *)
(*           the type of a message is the pid of its client, the service   *)
(*           takes any type;                                               *)
(*   "fork"  test_msg_service_fork and test_msg_client_fcall: the first    *)
(*           message of a client makes the service fork a child that       *)
(*           answers on a queue of that client's own.  The service reaps   *)
(*           its children in sig_chld.                                     *)
(* A process that finds its queue removed (EIDRM, EINVAL) or missing       *)
(* (ENOENT) ends in err_sys: its label is then "failed".  Queues are never *)
(* full: at most one message per client is in flight.                      *)
(***************************************************************************)
EXTENDS Naturals, Sequences, FiniteSets

CONSTANTS
  Clients,    \* the client processes
  Lines       \* bound: lines a client reads from its standard input

Programs == {"pair", "echo", "fork"}
Public == "public"                \* the queue of MSG_KEY
QueueIds == {Public} \cup Clients \* that of MSG_KEY + pid is its client

Pid(c) == <<"client", c>>
ChildPid(c) == <<"child", c>>
OneToOne == <<"one", "to one">>
Nobody == <<"no", "body">>
ServicePid == <<"the", "service">>
Pids == {Nobody, ServicePid} \cup {Pid(c) : c \in Clients} \cup {ChildPid(c) : c \in Clients}
Types == {OneToOne} \cup {Pid(c) : c \in Clients} \cup {ChildPid(c) : c \in Clients}

\* The text of a message is known by who typed it and as which line; what
\* the service writes over a "time" is "clock", and greetings are "hello".
Data == [by : Clients, n : 0..Lines,
         is : {"line", "time", "clock", "quit", "hello"}]
Messages == [type : Types, text : {"C", "S"}, peer : Pids, data : Data]

VARIABLES
  program,   \* which pair of programs runs
  exists,    \* the queues that exist
  queue,     \* their messages
  service,   \* label of the service
  held,      \* msgdata of the service
  client,    \* label of each client
  mine,      \* what each client received last
  typed,     \* lines each client has read
  child,     \* label of the child that serves each client
  childHeld, \* msgdata of the children
  zombies,   \* children that ended and were not waited for
  sigchld,   \* SIGCHLD is pending
  merged     \* SIGCHLDs raised while one was pending

vars == <<program, exists, queue, service, held, client, mine, typed, child,
          childHeld, zombies, sigchld, merged>>
childVars == <<child, childHeld, zombies, sigchld, merged>>
clientVars == <<client, mine, typed>>

None == [none |-> TRUE]

Quiet ==
  /\ program \in Programs
  /\ exists = {} /\ queue = [q \in QueueIds |-> <<>>] /\ held = None
  /\ mine = [c \in Clients |-> None] /\ typed = [c \in Clients |-> 0]
  /\ child = [c \in Clients |-> "none"] /\ childHeld = [c \in Clients |-> None]
  /\ zombies = 0 /\ sigchld = FALSE /\ merged = 0

Init ==
  /\ Quiet /\ service = "start"
  /\ client \in [Clients -> {"start", "absent"}]
  /\ IF program = "pair" THEN Cardinality({c \in Clients : client[c] = "start"}) = 1
                         ELSE \A c \in Clients : client[c] = "start"
NotRun ==
  /\ Quiet /\ program = "pair" /\ service = "done" /\ client = [c \in Clients |-> "absent"]

-----------------------------------------------------------------------------
(* Messages and queues *)

\* msgsnd
Put(q, m) == queue' = [queue EXCEPT ![q] = Append(@, m)]

\* Wrong on purpose: msgrcv with type 0.
TakesFirst(q, types, i) == i \in DOMAIN queue[q] /\ i = 1
\* msgrcv of the first message of one of the types: its position is i.
Takes(q, types, i) ==
  LET found == {k \in DOMAIN queue[q] : queue[q][k].type \in types}
  IN  i \in found /\ \A k \in found : i <= k
Without(s, i) == SubSeq(s, 1, i - 1) \o SubSeq(s, i + 1, Len(s))

\* msgctl(IPC_RMID)
Remove(q) == exists' = exists \ {q} /\ queue' = [queue EXCEPT ![q] = <<>>]

\* Wrong on purpose: type and peer are swapped.
AnswerSwapped(m, type, peer) ==
  [type |-> peer, text |-> "S", peer |-> type, data |-> m.data]
\* msg_data_set, and what a service does to the text "time"
Answer(m, type, peer) ==
  [type |-> type, text |-> "S", peer |-> peer,
   data |-> IF m.data.is = "time" THEN [m.data EXCEPT !.is = "clock"] ELSE m.data]

-----------------------------------------------------------------------------
(* The services *)

ServiceStart ==
  /\ service = "start"
  /\ service' = "receive" /\ exists' = exists \cup {Public}
  /\ UNCHANGED <<program, queue, held, clientVars, childVars>>

\* The forking service forks for a first message and receives again; the
\* others stop at "quit" and answer anything else.
ServiceReceive ==
  /\ service = "receive"
  /\ \E i \in DOMAIN queue[Public] :
       LET m == queue[Public][i] IN
       /\ Takes(Public, IF program = "pair" THEN {OneToOne} ELSE Types, i)
       /\ queue' = [queue EXCEPT ![Public] = Without(@, i)]
       /\ IF program # "fork"
          THEN /\ service' = IF m.data.is = "quit" THEN "remove" ELSE "answer"
               /\ held' = Answer(m, m.type, IF program = "pair" THEN Nobody ELSE ServicePid)
               /\ UNCHANGED <<child, childHeld>>
          ELSE IF m.text = "C"
          THEN /\ child' = [child EXCEPT ![m.peer[2]] = "greet"]
               /\ childHeld' = [childHeld EXCEPT ![m.peer[2]] = m]
               /\ UNCHANGED <<service, held>>
          ELSE UNCHANGED <<service, held, child, childHeld>>
  /\ UNCHANGED <<program, exists, clientVars, zombies, sigchld, merged>>

ServiceAnswer ==
  /\ service = "answer"
  /\ Put(Public, held) /\ service' = "receive" /\ held' = None
  /\ UNCHANGED <<program, exists, clientVars, childVars>>

ServiceRemove ==
  /\ service = "remove"
  /\ Remove(Public) /\ service' = "done" /\ held' = None
  /\ UNCHANGED <<program, clientVars, childVars>>

\* Wrong on purpose: the handler does not wait for any child.
ReapedNone(n) == n
\* sig_chld interrupts msgrcv, which returns an empty message.  Its loop
\* leaves at the first child that ended by itself.
Reaped(n) == IF n > 0 THEN n - 1 ELSE n
SigChld ==
  /\ sigchld /\ service = "receive"
  /\ sigchld' = FALSE /\ zombies' = Reaped(zombies)
  /\ UNCHANGED <<program, exists, queue, service, held, clientVars, child,
                 childHeld, merged>>

Service == ServiceStart \/ ServiceReceive \/ ServiceAnswer \/ ServiceRemove \/ SigChld

-----------------------------------------------------------------------------
(* The children of the forking service *)

\* A child that ends leaves a zombie and raises SIGCHLD.
ChildExit(c, label) ==
  /\ child' = [child EXCEPT ![c] = label]
  /\ zombies' = zombies + 1 /\ sigchld' = TRUE
  /\ merged' = merged + (IF sigchld THEN 1 ELSE 0)

\* The child fills in the answer it sends: to the peer of what it holds,
\* with itself as the new peer.
ChildSend(c) ==
  /\ child[c] \in {"greet", "answer"}
  /\ IF c \in exists
     THEN /\ Put(c, Answer(childHeld[c], childHeld[c].peer, ChildPid(c)))
          /\ child' = [child EXCEPT ![c] = "receive"]
          /\ UNCHANGED <<zombies, sigchld, merged>>
     ELSE ChildExit(c, "failed") /\ UNCHANGED queue
  /\ childHeld' = [childHeld EXCEPT ![c] = None]
  /\ UNCHANGED <<program, exists, service, held, clientVars>>

ChildReceive(c) ==
  /\ child[c] = "receive"
  /\ \/ /\ c \notin exists
        /\ ChildExit(c, "failed") /\ UNCHANGED <<queue, childHeld>>
     \/ \E i \in DOMAIN queue[c] :
          LET m == queue[c][i] IN
          /\ Takes(c, Types, i)
          /\ queue' = [queue EXCEPT ![c] = Without(@, i)]
          /\ IF m.data.is = "quit"
             THEN ChildExit(c, "done") /\ UNCHANGED childHeld
             ELSE /\ child' = [child EXCEPT ![c] = "answer"]
                  /\ childHeld' = [childHeld EXCEPT ![c] = m]
                  /\ UNCHANGED <<zombies, sigchld, merged>>
  /\ UNCHANGED <<program, exists, service, held, clientVars>>

Child(c) == ChildSend(c) \/ ChildReceive(c)

-----------------------------------------------------------------------------
(* The clients *)

ClientQueue(c) == IF program = "fork" THEN c ELSE Public
ClientType(c) == IF program = "pair" THEN OneToOne ELSE Pid(c)
Request(c, n, is) ==
  [type |-> ClientType(c), text |-> "C",
   peer |-> IF program = "fork" THEN Pid(c) ELSE Nobody,
   data |-> [by |-> c, n |-> n, is |-> is]]
ClientGoto(c, label) == client' = [client EXCEPT ![c] = label]

\* A client of the forking service creates its queue before its first message.
ClientStart(c) ==
  /\ client[c] = "start"
  /\ IF Public \notin exists
     THEN ClientGoto(c, "failed") /\ UNCHANGED <<exists, queue>>
     ELSE IF program = "fork"
          THEN /\ exists' = exists \cup {c} /\ Put(Public, Request(c, 0, "hello"))
               /\ ClientGoto(c, "receive")
          ELSE ClientGoto(c, "read") /\ UNCHANGED <<exists, queue>>
  /\ UNCHANGED <<program, service, held, mine, typed, childVars>>

\* The client of "echo" does not look for "quit".
AfterSend(is) ==
  IF is # "quit" \/ program = "echo" THEN "receive"
  ELSE IF program = "fork" THEN "remove" ELSE "quit"

ClientSend(c) ==
  /\ client[c] = "read" /\ typed[c] < Lines
  /\ typed' = [typed EXCEPT ![c] = @ + 1]
  /\ \E is \in {"line", "time", "quit"} :
       IF ClientQueue(c) \in exists
       THEN /\ Put(ClientQueue(c), Request(c, typed'[c], is))
            /\ ClientGoto(c, AfterSend(is))
       ELSE ClientGoto(c, "failed") /\ UNCHANGED queue
  /\ UNCHANGED <<program, exists, service, held, mine, childVars>>

\* At the end of its input the client of "pair" leaves; the others loop.
ClientEof(c) ==
  /\ program = "pair" /\ client[c] = "read" /\ ClientGoto(c, "done")
  /\ UNCHANGED <<program, exists, queue, service, held, mine, typed, childVars>>

ClientReceive(c) ==
  /\ client[c] = "receive"
  /\ \/ /\ ClientQueue(c) \notin exists
        /\ ClientGoto(c, "failed") /\ UNCHANGED <<queue, mine>>
     \/ \E i \in DOMAIN queue[ClientQueue(c)] :
          /\ Takes(ClientQueue(c), {ClientType(c)}, i)
          /\ mine' = [mine EXCEPT ![c] = queue[ClientQueue(c)][i]]
          /\ queue' = [queue EXCEPT ![ClientQueue(c)] = Without(@, i)]
          /\ ClientGoto(c, "read")
  /\ UNCHANGED <<program, exists, service, held, typed, childVars>>

ClientRemove(c) ==
  /\ client[c] = "remove" /\ Remove(c) /\ ClientGoto(c, "quit")
  /\ UNCHANGED <<program, service, held, mine, typed, childVars>>

Client(c) == ClientStart(c) \/ ClientSend(c) \/ ClientEof(c) \/ ClientReceive(c)
               \/ ClientRemove(c)

Next == Service \/ \E c \in Clients : Client(c) \/ Child(c)

\* Every process goes on; nobody has to type.  A client blocked in msgrcv is
\* handed the message as it is sent, so that it cannot be passed over for ever.
Fairness ==
  /\ WF_vars(Service)
  /\ \A c \in Clients : /\ WF_vars(Child(c))
                        /\ WF_vars(ClientStart(c)) /\ WF_vars(ClientRemove(c))
                        /\ SF_vars(ClientReceive(c))

Spec == Init /\ [][Next]_vars /\ Fairness
-----------------------------------------------------------------------------
(* Properties *)

TypeOK ==
  /\ program \in Programs /\ exists \subseteq QueueIds
  /\ queue \in [QueueIds -> Seq(Messages)]
  /\ service \in {"start", "receive", "answer", "remove", "done"}
  /\ held \in Messages \cup {None} /\ mine \in [Clients -> Messages \cup {None}]
  /\ client \in [Clients -> {"absent", "start", "read", "receive", "remove",
                            "quit", "done", "failed"}]
  /\ typed \in [Clients -> 0..Lines]
  /\ child \in [Clients -> {"none", "greet", "receive", "answer", "done", "failed"}]
  /\ childHeld \in [Clients -> Messages \cup {None}]
  /\ zombies \in 0..Cardinality(Clients) /\ sigchld \in BOOLEAN
  /\ merged \in 0..Cardinality(Clients)

\* The messages of client c that are in a queue or in the hands of a service.
InFlight(c) ==
  {m \in QueueIds \X (1..Cardinality(Clients) + 1) :
      m[2] \in DOMAIN queue[m[1]] /\ queue[m[1]][m[2]].data.by = c}
    \cup (IF held # None /\ held.data.by = c THEN {<<"service", 0>>} ELSE {})
    \cup (IF childHeld[c] # None THEN {<<"child", 0>>} ELSE {})

\* A request is never lost and never doubled, however often a service takes
\* its own answer back from the queue they share (msg_test.cpp:256-276, 454-478):
\* while its queue exists, a client that waits has exactly one message on its
\* way, the one it sent or the answer to it, and one that types has none.
OneMessageInFlight ==
  \A c \in Clients :
    /\ client[c] = "receive" /\ ClientQueue(c) \in exists => Cardinality(InFlight(c)) = 1
    /\ client[c] = "read" => InFlight(c) = {}

\* What a client takes off a queue it shares with others is about the line it
\* typed last: never another client's and never an answer to an earlier line.
OwnAnswer ==
  \A c \in Clients : client[c] = "read" /\ mine[c] # None
                       => mine[c].data.by = c /\ mine[c].data.n = typed[c]

\* sig_chld stops at the first child that ended by itself
\* (process_signal.cpp:585-591), so that a child whose SIGCHLD merged with
\* another one may stay a zombie; no other child does.
ZombiesOnlyFromMergedSignals ==
  zombies <= merged + (IF sigchld THEN 1 ELSE 0)

\* While the service of the queue they share runs, a client that waits is
\* answered, though the service may take its own answers back any number of times.
ClientsAnswered ==
  \A c \in Clients :
    program # "fork" /\ client[c] = "receive" ~> client[c] # "receive"

\* Who types "quit" ends its server: the service of "pair", its own child of "fork".
QuitEndsServer ==
  /\ program = "pair" /\ (\E c \in Clients : client[c] = "quit") ~> service = "done"
  /\ \A c \in Clients : program = "fork" /\ client[c] = "quit" ~> child[c] \in {"done", "failed"}

\* msg_test.cpp:402-406 draws the answers of the forking service reaching each
\* client in a queue of its own: a client that waits for its child is answered.
ChildAnswersClient ==
  \A c \in Clients :
    program = "fork" /\ client[c] = "receive" ~> client[c] # "receive"
=============================================================================
