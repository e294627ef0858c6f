------------------------------- MODULE Lines -------------------------------
(***************************************************************************)
(* LineBuffer, which both ends of a connection use to turn a byte stream   *)
(* back into lines, and what the server answers to a line.  A buffer is    *)
(* the sequence of the bytes in it.                                        *)
(*                                                                         *)
(* A byte of a request is one of the few that framing tells apart, or a    *)
(* letter; the letter P is the whole of the command PING, and Q of QUIT.   *)
(***************************************************************************)
EXTENDS Integers, Sequences, SequencesExt

Byte == {"P", "Q", "\r", "\n"}

\* next_line finds something.
HasLine(s) == \E i \in 1..Len(s) : s[i] = "\n"

\* buffer_.find('\n')
Newline(s) == CHOOSE i \in 1..Len(s) : s[i] = "\n" /\ \A j \in 1..i - 1 : s[j] # "\n"

StripCr(l) == IF l # <<>> /\ Last(l) = "\r" THEN Front(l) ELSE l

\* Mutant: the newline itself is left in the buffer.
Bad_next_line(s) == [line |-> StripCr(SubSeq(s, 1, Newline(s) - 1)),
                     rest |-> SubSeq(s, Newline(s), Len(s))]

next_line(s) == [line |-> StripCr(SubSeq(s, 1, Newline(s) - 1)),
                 rest |-> SubSeq(s, Newline(s) + 1, Len(s))]

\* What parse_command and execute come to.
Reply(line) == CASE line = <<"P">> -> "+PONG"
                 [] line = <<"Q">> -> "+BYE"
                 [] OTHER -> "-ERR"

kTooLong == "-ERR too long"
=============================================================================
