------------------------------ MODULE Processes ------------------------------
(***************************************************************************)
(* process/process_create_fork_exec_system_popen.cpp and the popen program  *)
(* of pipe_FIFO/pipe_test.cpp: fork, exec, and the lists of shell commands  *)
(* that process_system runs through system and popen_pclose through popen.  *)
(* A command is one step that ends in any way a command can; of its status  *)
(* is kept how it ended (a core dump or not, after a signal) and with what. *)
(***************************************************************************)
EXTENDS Integers, Sequences

CONSTANTS
  Codes,      \* exit codes of commands: 0, and some that mean failure
  SignalNos,  \* numbers of the signals that end a command
  Dumping     \* those of them that may leave a core dump

Status == [how : {"exited"}, with : Codes] \cup [how : {"signaled"}, with : SignalNos]
            \cup [how : {"dumped"}, with : Dumping]
Outcome(how, with) == [how |-> how, with |-> with]
\* pclose itself fails: the status of the shell could not be had.
NoStatus == Outcome("error", 0)
\* The word that system and pclose return: WIFEXITED, WEXITSTATUS, WTERMSIG take
\* it apart.  A core dump sets its bit 0x80; -1 stands for no status.
Word(status) ==
  CASE status.how = "exited" -> status.with * 256
    [] status.how = "signaled" -> status.with
    [] status.how = "dumped" -> status.with + 128
    [] status.how = "error" -> -1
\* exit keeps eight bits of its argument.
ExitCode(n) == n % 256

\* The lists of commands: the first is nullptr; a command may be in the background.
NoCommand == "nullptr"
process_system == <<NoCommand, "ls", "pwd", "echo", "echo", "test.sh", "test.o">>
popen_pclose == <<NoCommand, "ls", "pwd", "echo", "echo", "test.sh", "test.o", "test.sh &", "clash">>
test_popen_pclose ==
  <<NoCommand, "ls", "pwd", "echo", "echo", "test.sh", "test.sh &", "g++", "test.o", "clash">>
Commands == [system |-> process_system, popen |-> popen_pclose, pipe_popen |-> test_popen_pclose]

VARIABLES
  job,       \* the program
  number,    \* the command that is next
  main,      \* what the process does: goes on, or how it ended
  stream,    \* the FILE of popen: closed, open, or at its end
  results,   \* what was reported of each command
  forked,    \* the child of process_fork, service_fork, process_exec
  sockets    \* who has each socket of service_fork open

vars == <<job, number, main, stream, results, forked, sockets>>

Jobs == {"system", "unix_system", "popen", "pipe_popen", "fork", "exec", "service_fork"}
Runs == Outcome("runs", 0)
Exited(code) == Outcome("exited", code)

Quiet == number = 1 /\ stream = "closed" /\ results = <<>> /\ forked = "none"
Init ==
  /\ job \in Jobs /\ main = Runs /\ Quiet
  /\ sockets = [listen |-> IF job = "service_fork" THEN {"parent"} ELSE {},
                accept |-> IF job = "service_fork" THEN {"parent"} ELSE {}]
NotRun == job = "system" /\ main = Exited(0) /\ Quiet /\ sockets = [listen |-> {}, accept |-> {}]

-----------------------------------------------------------------------------
(* system: process_system_debug, unix_process_system *)

Running(jobs) == job \in jobs /\ main.how = "runs"
Command == Commands[job][number]
More == number <= Len(Commands[job])
Report(what) == results' = Append(results, what)

Skip ==
  /\ Running({"system", "popen", "pipe_popen"}) /\ More /\ stream = "closed" /\ Command = NoCommand
  /\ number' = number + 1 /\ Report(Outcome("nothing", 0))
  /\ UNCHANGED <<job, main, stream, forked, sockets>>

\* Whatever becomes of a command, the next one is run; -1 is fork's error.
System ==
  /\ Running({"system"}) /\ More /\ Command # NoCommand
  /\ number' = number + 1
  /\ \/ \E status \in Status : Report(Outcome(status.how, 0))
     \/ Report(Outcome("error", 0))
  /\ UNCHANGED <<job, main, stream, forked, sockets>>

\* unix_process_system: err_quit ends the process when fork failed.
UnixSystem ==
  /\ Running({"unix_system"})
  /\ \/ \E status \in Status : Report(status) /\ main' = Exited(0)
     \/ Report(Outcome("error", 0)) /\ main' = Exited(1)
  /\ UNCHANGED <<job, number, stream, forked, sockets>>

-----------------------------------------------------------------------------
(* popen: process_popen_pclose_debug *)

\* exit(EXIT_FAILURE) when there is no process for the shell
Popen ==
  /\ Running({"popen", "pipe_popen"}) /\ More /\ stream = "closed" /\ Command # NoCommand
  /\ \/ stream' = "open" /\ UNCHANGED main
     \/ main' = Exited(1) /\ UNCHANGED stream
  /\ UNCHANGED <<job, number, results, forked, sockets>>

\* fgets until the end of the output: nobody can write any more.
ReadToEnd ==
  /\ Running({"popen", "pipe_popen"}) /\ stream = "open" /\ stream' = "at end"
  /\ UNCHANGED <<job, number, main, results, forked, sockets>>

\* Wrong on purpose: only an error of pclose itself, ret < 0, stops the list.
PcloseGoesOn ==
  /\ Running({"popen", "pipe_popen"}) /\ stream = "at end" /\ stream' = "closed"
  /\ \E status \in Status \cup {NoStatus} :
       /\ Report(status)
       /\ IF Word(status) >= 0 THEN number' = number + 1 /\ UNCHANGED main
          ELSE main' = Exited(ExitCode(Word(status))) /\ UNCHANGED number
  /\ UNCHANGED <<job, forked, sockets>>

\* pclose waits for the shell; exit(ret) when it returns anything but 0.
Pclose ==
  /\ Running({"popen", "pipe_popen"}) /\ stream = "at end" /\ stream' = "closed"
  /\ \E status \in Status \cup {NoStatus} :
       /\ Report(status)
       /\ IF Word(status) = 0 THEN number' = number + 1 /\ UNCHANGED main
          ELSE main' = Exited(ExitCode(Word(status))) /\ UNCHANGED number
  /\ UNCHANGED <<job, forked, sockets>>

\* The last command is done: main returns 0.
Done ==
  /\ Running({"system", "popen", "pipe_popen"}) /\ ~More /\ main' = Exited(0)
  /\ UNCHANGED <<job, number, stream, results, forked, sockets>>

-----------------------------------------------------------------------------
(* fork and exec *)

\* The child of process_fork returns from it as its parent does.
process_fork ==
  /\ Running({"fork"})
  /\ \/ forked = "none" /\ forked' \in {"returns", "failed"} /\ UNCHANGED main
     \/ forked # "none" /\ main' = Exited(0) /\ UNCHANGED forked
  /\ UNCHANGED <<job, number, stream, results, sockets>>

\* execlp does not return, unless it fails: then the line after it is printed.
process_exec ==
  /\ Running({"exec"})
  /\ \/ \E status \in Status : Report(Outcome("replaced", 0)) /\ main' = status
     \/ Report(Outcome("line after exec", 0)) /\ main' = Exited(0)
  /\ UNCHANGED <<job, number, stream, forked, sockets>>

\* The child closes both sockets and exits, the parent closes the accepted one.
\* When fork fails, err_ret only reports.
service_fork ==
  /\ Running({"service_fork"})
  /\ \/ /\ forked = "none"
        /\ \/ forked' = "failed" /\ UNCHANGED sockets
           \/ forked' = "has listen" /\ sockets' = [s \in {"listen", "accept"} |-> sockets[s] \cup {"child"}]
     \/ /\ forked \notin {"none", "failed"} /\ "parent" \in sockets.accept
        /\ sockets' = [sockets EXCEPT !.accept = @ \ {"parent"}] /\ UNCHANGED forked
     \/ /\ forked = "has listen" /\ forked' = "has accept"
        /\ sockets' = [sockets EXCEPT !.listen = @ \ {"child"}]
     \/ /\ forked = "has accept" /\ forked' = "exited"
        /\ sockets' = [sockets EXCEPT !.accept = @ \ {"child"}]
  /\ UNCHANGED <<job, number, main, stream, results>>

-----------------------------------------------------------------------------

Next == Skip \/ System \/ UnixSystem \/ Popen \/ ReadToEnd \/ Pclose \/ Done
          \/ process_fork \/ process_exec \/ service_fork

\* The process goes on, and its commands end.
Fairness == WF_vars(Next)

Spec == Init /\ [][Next]_vars /\ Fairness

-----------------------------------------------------------------------------
(* Properties *)

TypeOK ==
  /\ job \in Jobs /\ number \in 1..11 /\ stream \in {"closed", "open", "at end"}
  /\ main.how \in {"runs", "exited", "signaled", "dumped"} /\ main.with \in 0..255
  /\ Len(results) <= 10
  /\ forked \in {"none", "failed", "returns", "has listen", "has accept", "exited"}
  /\ sockets.listen \subseteq {"parent", "child"} /\ sockets.accept \subseteq {"parent", "child"}

\* What exit(ret) leaves of the word tells how the command ended: 0 after a code
\* of its own, whichever it was; the signal's number if it was killed, plus 128
\* with a core dump; 255 when pclose failed, and only then.
ExitTells(status, code) ==
  /\ status.how = "exited" => code = 0 /\ status.with # 0
  /\ status.how = "signaled" => code = status.with
  /\ status.how = "dumped" => code = status.with + 128
  /\ status.how = "error" <=> code = 255
  /\ status.how \in {"exited", "signaled", "dumped", "error"}

\* popen's list stops at the first command that fails, with every stream
\* closed, and exits with what tells of it
\* (process_create_fork_exec_system_popen.cpp:546-559).
FailuresStopTheList ==
  job \in {"popen", "pipe_popen"} =>
    /\ \A i \in DOMAIN results :
         i < Len(results) => results[i] \in {Outcome("nothing", 0), Exited(0)}
    /\ main.how = "exited" /\ stream = "closed" /\ More /\ results # <<>>
         => \/ main.with = 1 /\ Len(results) = number - 1
            \/ Len(results) = number /\ ExitTells(results[number], main.with)

\* system's list is run to its end whatever the commands do (452-465).
SystemRunsAll == job = "system" /\ main.how = "exited" => Len(results) = Len(process_system) \/ results = <<>>

\* No more than the fork that failed keeps an accepted connection open: each
\* side closes its own copies once, and only the parent goes on listening.
ConnectionClosed ==
  job = "service_fork" =>
    /\ "parent" \in sockets.listen
    /\ forked = "failed" => sockets.accept = {"parent"}
    /\ forked = "exited" => "child" \notin sockets.listen \cup sockets.accept
=============================================================================
