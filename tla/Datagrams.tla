------------------------------ MODULE Datagrams ------------------------------
(***************************************************************************)
(* unix_I_O_FILE/IO_recvmsg_sendmsg.cpp and IO_recvfrom_sendto.cpp: one     *)
(* process sends with a helper of these files and another receives with     *)
(* its counterpart.                                                         *)
(*                                                                          *)
(* struct_msghdr_cmsghdr and its two variants leave in the caller's msghdr  *)
(* pointers to iovec_s and cmsg_control, which are their own locals.  When  *)
(* sendmsg or recvmsg uses them the frame is dead: each array may be intact *)
(* or overwritten.  The kernel answers an overwritten iovec with an error   *)
(* or copies the bytes elsewhere; an overwritten control header is refused, *)
(* or carries nothing, or holds what the next reader of it happens to find. *)
(***************************************************************************)
EXTENDS Integers, Sequences, FiniteSets

CONSTANTS
  Numbers,    \* send_all stops at this number (10 in the code)
  MaxMail     \* bound: messages sent

Exchanges == {"all", "descriptors", "flags", "seq_ts"}
Controls == {"none", "pktinfo", "other", "cut"}

VARIABLES
  exchange,   \* the pair of helpers
  number,     \* num of send_all; the messages sent by the others
  network,    \* the datagrams on their way: any may be delivered next, or lost
  printed,    \* what recv_all printed
  mail,       \* the messages of the socket, in order
  shut,       \* the sender has ended its stream
  sender, receiver,  \* "running", "exited" or "done"
  recvsize,      \* what the receiving helper returned
  info,       \* recv_fd or pktinfo after it: "unset", "none", "known" or "garbage"
  wild        \* an overwritten frame was used

vars == <<exchange, number, network, printed, mail, shut, sender, receiver, recvsize, info, wild>>

-----------------------------------------------------------------------------
(* send_all and recv_all *)

sendAllVars == <<exchange, mail, shut, recvsize, info, wild>>

send_all ==
  /\ exchange = "all" /\ sender = "running"
  /\ number' = number + 1
  /\ IF number' < Numbers
     THEN network' = network \cup {number'} /\ UNCHANGED sender
     ELSE network' = network \cup {0} /\ sender' = "done"       \* the empty datagram
  /\ UNCHANGED <<printed, receiver, sendAllVars>>

recv_all ==
  /\ exchange = "all" /\ receiver = "running"
  /\ \E n \in network :
       /\ network' = network \ {n}
       /\ IF n = 0 THEN receiver' = "done" /\ UNCHANGED printed
          ELSE printed' = Append(printed, n) /\ UNCHANGED receiver
  /\ UNCHANGED <<number, sender, sendAllVars>>

Lose ==
  /\ exchange = "all"
  /\ \E n \in network : network' = network \ {n}
  /\ UNCHANGED <<number, sender, receiver, printed, sendAllVars>>

-----------------------------------------------------------------------------
(* The frame of a helper after its return: as it was set, or overwritten *)

struct_msghdr_cmsghdr(Intact, Overwritten) ==
  (Intact /\ UNCHANGED wild) \/ (Overwritten /\ wild' = TRUE)
\* with room for in_pktinfo; with two buffers
struct_msghdr_cmsghdr_01(Intact, Overwritten) == struct_msghdr_cmsghdr(Intact, Overwritten)
struct_msghdr_cmsghdr_02(Intact, Overwritten) == struct_msghdr_cmsghdr(Intact, Overwritten)

-----------------------------------------------------------------------------
(* Sending a message *)

Post(control) == mail' = Append(mail, control) /\ UNCHANGED sender
err_sys == sender' = "exited" /\ UNCHANGED mail
senderVars == <<exchange, network, printed, shut, receiver, recvsize, info>>
MaySend(name) == exchange = name /\ sender = "running" /\ ~shut /\ number < MaxMail

write_fd ==
  struct_msghdr_cmsghdr(Post("descriptor"), Post("descriptor") \/ Post("none") \/ err_sys)
Write_fd ==
  /\ MaySend("descriptors") /\ number' = number + 1
  /\ write_fd \/ (err_sys /\ UNCHANGED wild)
  /\ UNCHANGED senderVars

\* The datagrams that carry packet information come from any sender; the kernel adds it.
Sendmsg_seq_ts ==
  /\ exchange \in {"flags", "seq_ts"} /\ MaySend(exchange) /\ number' = number + 1
  /\ struct_msghdr_cmsghdr_02(err_sys \/ \E control \in Controls : Post(control), err_sys)
  /\ UNCHANGED senderVars

Shutdown ==
  /\ exchange \in {"descriptors", "flags", "seq_ts"} /\ ~shut /\ shut' = TRUE
  /\ UNCHANGED <<exchange, number, network, printed, mail, sender, receiver, recvsize, info, wild>>

-----------------------------------------------------------------------------
(* Receiving one *)

Got(v, i) == recvsize' = v /\ info' = i /\ UNCHANGED receiver
Quit == receiver' = "exited" /\ recvsize' = -1 /\ UNCHANGED info
receiverVars == <<exchange, number, network, printed, shut, sender>>
Take(control) == mail # <<>> /\ control = Head(mail) /\ mail' = Tail(mail)
AtEnd == mail = <<>> /\ (shut \/ sender = "exited") /\ UNCHANGED mail

read_fd(control) == Got(1, IF control = "descriptor" THEN "known" ELSE "none")
Read_fd ==
  /\ exchange = "descriptors" /\ receiver = "running" /\ UNCHANGED receiverVars
  /\ \/ \E c \in {"descriptor", "none"} :
          /\ Take(c)
          /\ struct_msghdr_cmsghdr(read_fd(c),
                                   Quit \/ \E i \in {"none", "known", "garbage"} : Got(1, i))
     \/ AtEnd /\ Got(0, info) /\ UNCHANGED wild        \* recv_fd keeps its value
     \/ Quit /\ UNCHANGED <<mail, wild>>               \* recvmsg fails

\* pktinfo is asked for or not; without control data the helper returns -2.
recvmsg_flags(control, asked) ==
  IF control \in {"none", "cut"} \/ ~asked THEN Quit
  ELSE IF control = "pktinfo" THEN Got(1, "known") ELSE Quit
recvmsg_seq_ts(control, asked) ==
  IF control \in {"none", "cut"} THEN Quit
  ELSE Got(1, IF ~asked THEN "unset" ELSE IF control = "pktinfo" THEN "known" ELSE "none")

Receive(name, Helper(_, _), Frame(_, _)) ==
  /\ exchange = name /\ receiver = "running" /\ UNCHANGED receiverVars
  /\ \/ \E c \in Controls, asked \in BOOLEAN :
          Take(c) /\ Frame(Helper(c, asked), Quit \/ Got(1, "garbage"))
     \/ AtEnd /\ Got(0, info) /\ UNCHANGED wild
     \/ Quit /\ UNCHANGED <<mail, wild>>
Recvfrom_flags == Receive("flags", recvmsg_flags, struct_msghdr_cmsghdr_01)
Recvmsg_seq_ts == Receive("seq_ts", recvmsg_seq_ts, struct_msghdr_cmsghdr_02)

-----------------------------------------------------------------------------
Begin(name) ==
  /\ exchange = name /\ number = 0 /\ network = {} /\ printed = <<>> /\ mail = <<>>
  /\ shut = FALSE /\ sender = "running" /\ receiver = "running"
  /\ recvsize = 1 /\ info = "unset" /\ wild = FALSE
NotRun == Begin("none")
Init == \E name \in Exchanges : Begin(name)

Next ==
  \/ send_all \/ recv_all \/ Lose
  \/ Write_fd \/ Sendmsg_seq_ts \/ Shutdown
  \/ Read_fd \/ Recvfrom_flags \/ Recvmsg_seq_ts

Spec == Init /\ [][Next]_vars

-----------------------------------------------------------------------------
(* Every variable has a value of its kind. *)
TypeOK ==
  /\ exchange \in Exchanges \cup {"none"} /\ number \in 0..Numbers + MaxMail
  /\ network \subseteq 0..Numbers /\ printed \in Seq(1..Numbers)
  /\ mail \in Seq(Controls \cup {"descriptor"}) /\ shut \in BOOLEAN
  /\ {sender, receiver} \subseteq {"running", "exited", "done"}
  /\ recvsize \in {-1, 0, 1} /\ info \in {"unset", "none", "known", "garbage"} /\ wild \in BOOLEAN

(* recv_all stops only after send_all has sent its last datagram, and has   *)
(* printed nothing twice, whatever the network loses or reorders.  What the *)
(* helpers report of a message is garbage only when a dead frame was        *)
(* overwritten, and Recvfrom_flags never returns a length without having    *)
(* filled pktinfo: it ends the process instead.                             *)
ReportsAreReal ==
  /\ exchange = "all" /\ receiver = "done" => sender = "done"
  /\ \A i, j \in DOMAIN printed : i # j => printed[i] # printed[j]
  /\ info = "garbage" => wild
  /\ exchange = "flags" /\ recvsize > 0 /\ info # "unset" => info = "known" \/ wild
=============================================================================
