------------------------------- MODULE Streams -------------------------------
(***************************************************************************)
(* The helpers the programs read and write with: unix_I_O_FILE/             *)
(* IO_read_write.cpp, IO_recv_send.cpp, sctp_recvmsg_sendmsg.cpp,           *)
(* common_lib/stdin_input.cpp and common_lib/error_print.cpp.  One process  *)
(* calls one helper while a peer (or the user at the terminal) writes bytes *)
(* at its own pace and may close, break or reset the stream at any moment.  *)
(* An interrupted call that is simply repeated changes nothing and is a     *)
(* stuttering step.                                                         *)
(***************************************************************************)
EXTENDS Integers, Sequences, SequencesExt

CONSTANTS
  Size,       \* the buffer the caller passes, in bytes
  MaxBytes    \* bound: the bytes of one conversation

Bytes == {"c", "newline", "space"}
Readers == {"readline_slow", "Read", "Read_raw", "Recv", "pdapi_recvmsg",
            "std_cin", "get_Line", "name_host_serv", "port_host_serv", "hints_strtovec"}
Writers == {"Write", "Send"}

VARIABLES
  helper,     \* the helper called
  peer,       \* "open", "closed", "reset" or "broken"
  said,       \* every byte written to the stream
  stream,     \* those not read yet
  buffer,     \* what the caller gets, or what it writes
  junk,       \* bytes past the end of a full buffer were appended
  state,      \* "calling", "returned", "exited" or "killed"
  retval       \* the returned value

vars == <<helper, peer, said, stream, buffer, junk, state, retval>>

-----------------------------------------------------------------------------
(* Reporting: what the functions of error_print.cpp do with a value *)

err_sys(ret) == IF ret < 0 THEN "exited" ELSE "calling"
err_quit(ret) == IF ret < 0 THEN "exited" ELSE "calling"

-----------------------------------------------------------------------------
(* Text *)

Least(a, b) == IF a < b THEN a ELSE b
FirstBytes(s, n) == SubSeq(s, 1, n)
Rest(s, n) == SubSeq(s, n + 1, Len(s))
Blank(byte) == byte \in {"newline", "space"}
Letters(s) == SelectSeq(s, LAMBDA b : ~Blank(b))

\* The words of a line cut at the spaces; a word that is only a newline is left out.
strtovec(s) ==
  LET cut == {0, Len(s) + 1} \cup {i \in 1..Len(s) : s[i] = "space"}
      Words == {w \in cut \X cut : /\ w[2] > w[1] + 1
                                   /\ \A k \in cut : ~(w[1] < k /\ k < w[2])
                                   /\ SubSeq(s, w[1] + 1, w[2] - 1) # <<"newline">>}
      order == SetToSortSeq(Words, LAMBDA a, b : a[1] < b[1])
  IN [n \in 1..Len(order) |-> SubSeq(s, order[n][1] + 1, order[n][2] - 1)]

Return(v) == state' = "returned" /\ retval' = v
Fail(s) == state' = s /\ UNCHANGED retval
Calling(name) == helper = name /\ state = "calling"
Ended == peer # "open" /\ stream = <<>>
Take(n) == stream' = Rest(stream, n) /\ buffer' = buffer \o FirstBytes(stream, n)
Kept == UNCHANGED <<helper, peer, said>>

-----------------------------------------------------------------------------
(* Readers *)

\* readline_slow: one byte, until a newline or until numval is the buffer's size.
ReadlineByte ==
  /\ Calling("readline_slow") /\ Kept /\ UNCHANGED junk
  /\ LET numval == Len(buffer) + 1 IN
     \/ /\ numval >= Size /\ Return(numval) /\ UNCHANGED <<stream, buffer>>
     \/ /\ numval < Size /\ stream # <<>> /\ Take(1)
        /\ IF Head(stream) = "newline" THEN Return(numval) ELSE UNCHANGED <<state, retval>>
     \/ /\ numval < Size /\ Ended /\ UNCHANGED <<stream, buffer>>
        /\ Return(IF peer = "closed" THEN numval - 1 ELSE -1)

\* Wrong on purpose: a newline that is alone goes too.
StripAll(got) == IF Len(got) >= 1 /\ Last(got) = "newline" THEN Front(got) ELSE got

\* What Read keeps of the bytes it got: mode 1 takes a last newline away, unless it is alone.
Strip(got) ==
  IF Len(got) > 1 /\ Last(got) = "newline" THEN Front(got) ELSE got

\* Returned for a non-blocking descriptor.
NoDataYet == -1234

Read ==
  /\ state = "calling" /\ helper \in {"Read", "Read_raw"} /\ Kept /\ UNCHANGED junk
  /\ \/ /\ stream # <<>>
        /\ LET n == Least(Len(stream), Size - 1)
               kept == IF helper = "Read" THEN Strip(FirstBytes(stream, n)) ELSE FirstBytes(stream, n)
           IN stream' = Rest(stream, n) /\ buffer' = kept /\ Return(Len(kept))
     \/ /\ Ended /\ UNCHANGED <<stream, buffer>>
        /\ IF peer \in {"closed", "reset"} THEN Return(0) ELSE Fail(err_sys(-1))
     \/ stream = <<>> /\ peer = "open" /\ Return(NoDataYet) /\ UNCHANGED <<stream, buffer>>

Recv ==
  /\ Calling("Recv") /\ Kept /\ UNCHANGED junk
  /\ \/ /\ stream # <<>>
        /\ LET n == Least(Len(stream), Size) IN Take(n) /\ Return(n)
     \/ /\ Ended /\ UNCHANGED <<stream, buffer>>
        /\ IF peer = "closed" THEN Return(0) ELSE Fail(err_sys(-1))

\* The parts of one message, added up in retval; the newline stands for MSG_EOR.
\* A part that fills buf has no terminator, so buf_str may get what lies behind it.
\* In the loop err_sys looks at the sum and not at the part.
Part(n) ==
  /\ Take(n)
  /\ \/ UNCHANGED junk
     \/ n = Size /\ junk' = TRUE
pdapi_recvmsg ==
  /\ Calling("pdapi_recvmsg") /\ Kept
  /\ \/ /\ stream # <<>>
        /\ LET eor == SelectInSeq(stream, LAMBDA b : b = "newline")
               n == Least(Size, IF eor = 0 THEN Len(stream) ELSE eor)
           IN /\ Part(n) /\ retval' = retval + n
              /\ state' = IF stream[n] = "newline" THEN "returned" ELSE "calling"
     \/ /\ Ended /\ buffer = <<>> /\ UNCHANGED <<stream, buffer, junk>>
        /\ IF peer = "closed" THEN Return(0) ELSE Fail(err_sys(-1))
     \/ /\ Ended /\ buffer # <<>> /\ UNCHANGED <<stream, buffer, junk>>
        /\ IF peer = "closed" THEN UNCHANGED <<state, retval>>
           ELSE IF retval < 0 THEN Fail(err_sys(retval)) ELSE retval' = retval - 1 /\ UNCHANGED state

\* A word that cin >> can take: it has been delimited, not merely ended.
Word ==
  LET begin == SelectInSeq(stream, LAMBDA b : ~Blank(b))
      end == IF begin = 0 THEN 0
             ELSE SelectInSeq(SubSeq(stream, begin, Len(stream)), Blank)
  IN IF end = 0 THEN <<0, 0>> ELSE <<begin, begin + end - 2>>
TakeWord == stream' = Rest(stream, Word[2]) /\ buffer' = SubSeq(stream, Word[1], Word[2])
WordCut == peer # "open" /\ Word = <<0, 0>>       \* the input ends before the word does
std_cin ==
  /\ Calling("std_cin") /\ Kept /\ UNCHANGED junk
  /\ \/ Word # <<0, 0>> /\ TakeWord /\ Return(Word[2] - Word[1] + 1)
     \/ WordCut /\ stream' = <<>> /\ UNCHANGED buffer /\ \E v \in {0, -1} : Return(v)

\* name_host_serv and port_host_serv ask again for ever once the input has ended.
AskAgain == WordCut /\ stream # <<>> /\ stream' = <<>> /\ UNCHANGED <<buffer, state, retval>>
name_host_serv ==
  /\ Calling("name_host_serv") /\ Kept /\ UNCHANGED junk
  /\ \/ Word # <<0, 0>> /\ TakeWord /\ Return(Word[2] - Word[1] + 1)
     \/ AskAgain

\* std::stoi throws when the word is no number, and nobody catches it.
port_host_serv ==
  /\ Calling("port_host_serv") /\ Kept /\ UNCHANGED junk
  /\ \/ /\ Word # <<0, 0>> /\ TakeWord
        /\ Return(Word[2] - Word[1] + 1) \/ Fail("killed")
     \/ AskAgain

\* get_Line(nullptr, ...): a first newline is skipped, then a line read into a local string.
get_Line ==
  /\ Calling("get_Line") /\ Kept /\ UNCHANGED <<junk, buffer>>
  /\ LET line == IF stream # <<>> /\ Head(stream) = "newline" THEN Tail(stream) ELSE stream
         end == SelectInSeq(line, LAMBDA b : b = "newline")
     IN \/ end # 0 /\ stream' = Rest(line, end) /\ Return(0)
        \/ end = 0 /\ peer # "open" /\ stream' = <<>> /\ Return(-1)

hints_strtovec ==
  /\ Calling("hints_strtovec") /\ Kept
  /\ \/ /\ stream # <<>>
        /\ LET n == Least(Len(stream), Size)
               got == IF FirstBytes(stream, n) = <<"newline">> THEN <<"space">> ELSE FirstBytes(stream, n)
           IN /\ stream' = Rest(stream, n)
              /\ buffer' = FlattenSeq(strtovec(got))
              /\ Return(Len(strtovec(got)))
              /\ \/ UNCHANGED junk
                 \/ n = Size /\ junk' = TRUE
     \/ /\ Ended /\ UNCHANGED <<stream, buffer, junk>>
        /\ Fail(IF peer = "closed" THEN err_quit(-1) ELSE err_sys(-1))

-----------------------------------------------------------------------------
(* Writers: buffer is written to said; pptr is what has been written *)

Write ==
  /\ Calling("Write") /\ UNCHANGED <<helper, peer, buffer, junk, stream>>
  /\ \/ /\ peer = "open" /\ Len(said) < Len(buffer) /\ UNCHANGED <<state, retval>>
        /\ \E n \in 1..(Len(buffer) - Len(said)) :
             said' = said \o SubSeq(buffer, Len(said) + 1, Len(said) + n)
     \/ peer # "open" /\ Len(said) < Len(buffer) /\ Fail(err_sys(-1)) /\ UNCHANGED said
     \/ Len(said) = Len(buffer) /\ Return(Len(buffer)) /\ UNCHANGED said

Send ==
  /\ Calling("Send") /\ UNCHANGED <<helper, peer, buffer, junk, stream>>
  /\ \/ /\ peer = "open"
        /\ \E n \in 1..Len(buffer) : said' = FirstBytes(buffer, n) /\ Return(n)
     \/ peer # "open" /\ Fail(err_sys(-1)) /\ UNCHANGED said

-----------------------------------------------------------------------------
(* The peer and the user *)

Say(byte) ==
  /\ helper \in Readers /\ state = "calling" /\ peer = "open" /\ Len(said) < MaxBytes
  /\ said' = Append(said, byte) /\ stream' = Append(stream, byte)
  /\ UNCHANGED <<helper, peer, buffer, junk, state, retval>>

End(how) ==
  /\ state = "calling" /\ peer = "open" /\ peer' = how
  /\ UNCHANGED <<helper, said, stream, buffer, junk, state, retval>>

Start(name) ==
  /\ helper = name /\ peer = "open" /\ said = <<>> /\ stream = <<>>
  /\ buffer \in IF name \in Writers THEN {SubSeq(<<"c", "space", "newline", "c">>, 1, n) : n \in 1..Size}
                ELSE {<<>>}
  /\ junk = FALSE /\ state = "calling" /\ retval = 0

NotRun ==
  /\ helper = "none" /\ peer = "open" /\ said = <<>> /\ stream = <<>> /\ buffer = <<>>
  /\ junk = FALSE /\ state = "returned" /\ retval = 0

Init == \E name \in Readers \cup Writers : Start(name)

Next ==
  \/ ReadlineByte \/ Read \/ Recv \/ pdapi_recvmsg \/ std_cin \/ name_host_serv
  \/ port_host_serv \/ get_Line \/ hints_strtovec \/ Write \/ Send
  \/ \E byte \in Bytes : Say(byte)
  \/ \E how \in {"closed", "reset", "broken"} : End(how)

Spec == Init /\ [][Next]_vars

-----------------------------------------------------------------------------
(* Every variable has a retval of its kind. *)
TypeOK ==
  /\ helper \in Readers \cup Writers \cup {"none"}
  /\ peer \in {"open", "closed", "reset", "broken"}
  /\ said \in Seq(Bytes) /\ stream \in Seq(Bytes) /\ buffer \in Seq(Bytes)
  /\ junk \in BOOLEAN /\ state \in {"calling", "returned", "exited", "killed"} /\ retval \in Int

(* A reader's loop stops at a 0: readline_slow, Read and Recv return 0 only  *)
(* when the peer has ended and every byte has been taken, so no empty line  *)
(* is mistaken for the end of the input.                                    *)
ZeroMeansEnd ==
  state = "returned" /\ retval = 0 /\ helper \in {"readline_slow", "Read", "Read_raw", "Recv", "pdapi_recvmsg"}
    => Ended

(* What the caller gets, with the newline Read took away, and what is still  *)
(* in the stream are the bytes that were written, in their order; what Write *)
(* and Send put out is a beginning of the caller's bytes, all of them when   *)
(* Write returns.  The value is their number, except that readline_slow     *)
(* returns the size of a buffer it filled, pdapi_recvmsg counts -1 for every *)
(* failed part and Read of a non-blocking descriptor that has nothing yet   *)
(* returns -1234.                                                           *)
BytesInOrder ==
  /\ helper \in {"readline_slow", "Read_raw", "Recv", "pdapi_recvmsg"} => buffer \o stream = said
  /\ helper = "Read" => said \in {buffer \o stream, buffer \o <<"newline">> \o stream}
  /\ helper \in Writers => IsPrefix(said, buffer)
  /\ helper = "Write" /\ state = "returned" => said = buffer /\ retval = Len(buffer)
  /\ helper = "Send" /\ state = "returned" => retval = Len(said)
  /\ state = "returned" /\ helper \in {"Read", "Read_raw", "Recv"} =>
       retval = Len(buffer) \/ (retval = NoDataYet /\ buffer = <<>> /\ helper # "Recv")
  /\ state = "returned" /\ helper = "pdapi_recvmsg" => retval = Len(buffer) /\ (retval # 0 => Last(buffer) = "newline")
  /\ state = "returned" /\ helper = "readline_slow" /\ retval # -1 =>
       retval = IF Len(buffer) = Size - 1 /\ Last(buffer) # "newline" THEN Size ELSE Len(buffer)
  /\ state = "returned" /\ helper = "hints_strtovec" =>
       Letters(buffer) = Letters(FirstBytes(said, Len(said) - Len(stream))) /\ "space" \notin ToSet(buffer)
=============================================================================
