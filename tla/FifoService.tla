---------------------------- MODULE FifoService ----------------------------
(***************************************************************************)
(* test_fifo_one_service and test_fifo_multiple_client of                  *)
(* pipe_FIFO/fifo_test.cpp: clients write "pid pathname" to the one FIFO   *)
(* of the service; the service reads a request, opens the FIFO of that     *)
(* client and copies the file there, then a byte 0.                        *)
(* A read returns everything the FIFO holds: two requests may come as one. *)
(* Clients never leave by themselves; they are interrupted, which leaves   *)
(* their FIFO in the file system.  Two different requests never make the   *)
(* name of a file that exists.  FIFOs are never full.                      *)
(***************************************************************************)
EXTENDS Naturals, Sequences

CONSTANT Clients

Files == {"found", "missing"}

VARIABLES
  fifoServer,   \* label of the service
  requests,     \* the FIFO of the service: one entry per write
  current,      \* the requests that the last read returned
  fifoClient,   \* label of each client
  asked,        \* the file each client asked for
  present,      \* the clients whose FIFO is in the file system
  pipe,         \* what the FIFO of each client holds
  writing,      \* the client whose FIFO the service has open
  output,       \* what each client has printed
  shared        \* the clients whose request was read together with another one

fifoServerVars == <<fifoServer, requests, current, writing, shared>>
vars == <<fifoServerVars, fifoClient, asked, present, pipe, output>>

Nobody == "nobody"

Quiet ==
  /\ requests = <<>> /\ current = <<>> /\ present = {} /\ shared = {}
  /\ asked = [c \in Clients |-> "nothing"] /\ writing = Nobody
  /\ pipe = [c \in Clients |-> <<>>] /\ output = [c \in Clients |-> <<>>]
Init == /\ Quiet /\ fifoServer = "start" /\ fifoClient = [c \in Clients |-> "start"]
\* The programs are not run at all.
NotRun == /\ Quiet /\ fifoServer = "absent" /\ fifoClient = [c \in Clients |-> "absent"]

-----------------------------------------------------------------------------
(* FIFOs *)

\* The service opened its FIFO O_RDWR, each client its own.
ServerReads == fifoServer \notin {"start", "absent", "killed"}
Readers(c) == IF fifoClient[c] \in {"request", "read"} THEN {c} ELSE {}
Writers(c) == Readers(c) \cup (IF writing = c THEN {"service"} ELSE {})

\* Write: without a reader SIGPIPE ends the writer.
ServerWrites(c, what, next) ==
  IF Readers(c) # {}
  THEN /\ pipe' = [pipe EXCEPT ![c] = Append(@, what)] /\ fifoServer' = next
  ELSE /\ fifoServer' = "killed" /\ UNCHANGED pipe

-----------------------------------------------------------------------------
(* The service *)

ServerStart ==
  /\ fifoServer = "start" /\ fifoServer' = "read"
  /\ UNCHANGED <<requests, current, writing, shared, fifoClient, asked, present, pipe, output>>

ServerRead ==
  /\ fifoServer = "read" /\ requests # <<>>
  /\ fifoServer' = "open" /\ current' = requests /\ requests' = <<>>
  /\ shared' = shared \cup (IF Len(requests) = 1 THEN {} ELSE {requests[i] : i \in DOMAIN requests})
  /\ UNCHANGED <<writing, fifoClient, asked, present, pipe, output>>

\* The pid is that of the first request, the pathname all the rest.  open of
\* a FIFO that nobody reads blocks; of one that is gone, it fails.
Asker == current[1]
FileFound == Len(current) = 1 /\ asked[Asker] = "found"
ServerOpen ==
  /\ fifoServer = "open"
  /\ Asker \in present => Readers(Asker) # {}
  /\ IF Asker \in present /\ FileFound
     THEN fifoServer' = "copy" /\ writing' = Asker
     ELSE fifoServer' = "read" /\ UNCHANGED writing
  /\ UNCHANGED <<requests, current, shared, fifoClient, asked, present, pipe, output>>

ServerCopy ==
  /\ fifoServer = "copy"
  /\ ServerWrites(Asker, "content", "finish")
  /\ UNCHANGED <<requests, current, writing, shared, fifoClient, asked, present, output>>

\* Wrong on purpose: the service closes the FIFO without the byte 0.
ServerFinishSilent ==
  /\ fifoServer = "finish" /\ fifoServer' = "read" /\ writing' = Nobody
  /\ UNCHANGED <<requests, current, shared, fifoClient, asked, present, pipe, output>>

ServerFinish ==
  /\ fifoServer = "finish"
  /\ ServerWrites(Asker, "end", "read") /\ writing' = Nobody
  /\ UNCHANGED <<requests, current, shared, fifoClient, asked, present, output>>

Server == ServerStart \/ ServerRead \/ ServerOpen \/ ServerCopy \/ ServerFinish

-----------------------------------------------------------------------------
(* The clients *)

ClientGoto(c, label) == fifoClient' = [fifoClient EXCEPT ![c] = label]

\* open of the FIFO of the service, then Mkfifo and open of its own.
ClientStart(c) ==
  /\ fifoClient[c] = "start"
  /\ IF fifoServer = "start"
     THEN ClientGoto(c, "failed") /\ UNCHANGED present
     ELSE ServerReads /\ ClientGoto(c, "request") /\ present' = present \cup {c}
  /\ UNCHANGED <<fifoServerVars, asked, pipe, output>>

ClientRequest(c) ==
  /\ fifoClient[c] = "request"
  /\ \E f \in Files : asked' = [asked EXCEPT ![c] = f]
  /\ IF ServerReads
     THEN requests' = Append(requests, c) /\ ClientGoto(c, "read")
     ELSE ClientGoto(c, "interrupted") /\ UNCHANGED requests
  /\ UNCHANGED <<fifoServer, current, writing, shared, present, pipe, output>>

\* Read returns 0, which ends the client, only when nobody can write.
ClientRead(c) ==
  /\ fifoClient[c] = "read"
  /\ pipe[c] # <<>> \/ Writers(c) = {}
  /\ output' = [output EXCEPT ![c] = @ \o pipe[c]]
  /\ pipe' = [pipe EXCEPT ![c] = <<>>]
  /\ ClientGoto(c, IF pipe[c] = <<>> THEN "done" ELSE "read")
  /\ present' = IF pipe[c] = <<>> THEN present \ {c} ELSE present
  /\ UNCHANGED <<fifoServerVars, asked>>

\* Ctrl-C: the FIFO stays in the file system.
ClientInterrupted(c) ==
  /\ fifoClient[c] \in {"request", "read"}
  /\ ClientGoto(c, "interrupted")
  /\ UNCHANGED <<fifoServerVars, asked, present, pipe, output>>

Client(c) == ClientStart(c) \/ ClientRequest(c) \/ ClientRead(c) \/ ClientInterrupted(c)

Next == Server \/ \E c \in Clients : Client(c)

\* The service and what a client does without its user go on.
Fairness == WF_vars(Server) /\ \A c \in Clients : WF_vars(ClientRead(c))

Spec == Init /\ [][Next]_vars /\ Fairness

-----------------------------------------------------------------------------
(* Properties *)

TypeOK ==
  /\ fifoServer \in {"absent", "start", "read", "open", "copy", "finish", "killed"}
  /\ requests \in Seq(Clients) /\ current \in Seq(Clients)
  /\ fifoClient \in [Clients -> {"absent", "start", "failed", "request", "read", "done", "interrupted"}]
  /\ asked \in [Clients -> Files \cup {"nothing"}]
  /\ present \subseteq Clients /\ shared \subseteq Clients
  /\ pipe \in [Clients -> Seq({"content", "end"})]
  /\ writing \in Clients \cup {Nobody}
  /\ output \in [Clients -> Seq({"content", "end"})]

Answer(c) == output[c] \o pipe[c]
Interrupted == \E c \in Clients : fifoClient[c] = "interrupted"
InHand(c) == fifoServer \in {"open", "copy", "finish"} /\ Asker = c

\* A client whose file exists and who is still there is answered once and
\* completely as soon as its request has left the service's hands, unless the
\* request was read together with another one (fifo_test.cpp:278-297).
RequestsAccountedFor ==
  \A c \in Clients :
    /\ Answer(c) \in {<<>>, <<"content">>, <<"content", "end">>}
    /\ Answer(c) # <<>> => asked[c] = "found"
    /\ (/\ fifoClient[c] = "read" /\ asked[c] = "found" /\ c \notin shared
        /\ ~InHand(c) /\ \A i \in DOMAIN requests : requests[i] # c)
       => Answer(c) = <<"content", "end">>

\* The service dies of SIGPIPE or blocks in the open of a client's FIFO
\* (fifo_test.cpp:302) only after a client was interrupted.
OnlyInterruptsHarm ==
  \/ Interrupted
  \/ fifoServer # "killed" /\ (fifoServer = "open" => Readers(Asker) # {})

\* A client holds its own FIFO open for writing (fifo_test.cpp:365, 388): it
\* never sees the end of the answer and never leaves its loop by itself.
ClientNeverDone == \A c \in Clients : fifoClient[c] # "done"

\* While no client is interrupted, every request is taken from the FIFO, and
\* one that is read alone for a file that exists is printed to the end.
AloneIsAnswered ==
  \A c \in Clients :
    (fifoClient[c] = "read" /\ asked[c] = "found")
      ~> (output[c] = <<"content", "end">> \/ c \in shared \/ Interrupted)
=============================================================================
