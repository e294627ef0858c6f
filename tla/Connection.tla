----------------------------- MODULE Connection -----------------------------
(***************************************************************************)
(* Connection::serve and its LineBuffer: one client's bytes arrive in      *)
(* whatever pieces TCP makes of them, and are turned back into lines, each *)
(* of which is parsed, executed and answered.                              *)
(***************************************************************************)
EXTENDS Lines, FiniteSets

CONSTANTS kMaxLineBytes,    \* 65536 in the code
          kReadChunkBytes,  \* 16384 in the code
          MaxBytes          \* bound on what the client sends

ASSUME SizesAssumption == kMaxLineBytes \in Nat /\ kReadChunkBytes \in Nat \ {0} /\ MaxBytes \in Nat

VARIABLES sent,      \* history: every byte the client has sent
          arrived,   \* how many of them recv has returned
          eof,       \* the client has closed its end
          buffer,    \* buffer_
          pc,        \* where serve is
          handled,   \* history: the lines handle_line was given
          ends,      \* history: where in the stream each of them ended
          replies,   \* the replies sent
          commands_handled

vars == <<sent, arrived, eof, buffer, pc, handled, ends, replies, commands_handled>>

Init ==
    /\ sent = <<>> /\ arrived = 0 /\ eof = FALSE
    /\ buffer = <<>> /\ pc = "drain"
    /\ handled = <<>> /\ ends = <<>> /\ replies = <<>> /\ commands_handled = 0

-----------------------------------------------------------------------------
(* The client *)

Send(b) ==
    /\ ~eof /\ Len(sent) < MaxBytes
    /\ sent' = Append(sent, b)
    /\ UNCHANGED <<arrived, eof, buffer, pc, handled, ends, replies, commands_handled>>

Close ==
    /\ ~eof /\ eof' = TRUE
    /\ UNCHANGED <<sent, arrived, buffer, pc, handled, ends, replies, commands_handled>>

-----------------------------------------------------------------------------
(* Connection *)

\* Where serve goes once a line has been answered.  Mutants: QUIT does not end it;
\* one line for each read.
Bad_After_Stays(line) == "drain"
Bad_After_One(line) == IF Reply(line) = "+BYE" THEN "closed" ELSE "recv"
After(line) == IF Reply(line) = "+BYE" THEN "closed" ELSE "drain"

\* The next line is taken off the buffer and answered; QUIT, or a send that
\* fails, ends the connection.
HandleLine ==
    /\ pc = "drain" /\ HasLine(buffer)
    /\ LET line == next_line(buffer).line IN
       /\ buffer' = next_line(buffer).rest
       /\ handled' = Append(handled, line)
       /\ ends' = Append(ends, arrived - Len(buffer) + Newline(buffer))
       /\ commands_handled' = commands_handled + (IF Reply(line) # "-ERR" THEN 1 ELSE 0)
       /\ \/ /\ replies' = Append(replies, Reply(line))
             /\ pc' = After(line)
          \/ /\ eof
             /\ pc' = "closed" /\ UNCHANGED replies
    /\ UNCHANGED <<sent, arrived, eof>>

\* Mutant: there is no limit.
Bad_TooLong(s) == FALSE
TooLong(s) == Len(s) > kMaxLineBytes

\* No complete line is left.  Whether the client can still be told makes no
\* difference.
CheckLength ==
    /\ pc = "drain" /\ ~HasLine(buffer)
    /\ IF TooLong(buffer)
       THEN /\ pc' = "closed"
            /\ replies' = Append(replies, kTooLong) \/ (eof /\ UNCHANGED replies)
       ELSE pc' = "recv" /\ UNCHANGED replies
    /\ UNCHANGED <<sent, arrived, eof, buffer, handled, ends, commands_handled>>

\* recv returns some of what has been sent.
FillBuffer ==
    /\ pc = "recv"
    /\ \E n \in 1..kReadChunkBytes :
         /\ arrived + n <= Len(sent)
         /\ buffer' = buffer \o SubSeq(sent, arrived + 1, arrived + n)
         /\ arrived' = arrived + n
    /\ pc' = "drain"
    /\ UNCHANGED <<sent, eof, handled, ends, replies, commands_handled>>

\* recv returns zero at the end of the stream, or fails on a connection reset.
Disconnected ==
    /\ pc = "recv" /\ eof
    /\ pc' = "closed"
    /\ UNCHANGED <<sent, arrived, eof, buffer, handled, ends, replies, commands_handled>>

\* A signal interrupts recv, and serve goes round its loop once more.
Interrupted ==
    /\ pc = "recv"
    /\ pc' = "drain"
    /\ UNCHANGED <<sent, arrived, eof, buffer, handled, ends, replies, commands_handled>>

serve == HandleLine \/ CheckLength \/ FillBuffer \/ Disconnected \/ Interrupted

Closed == pc = "closed" /\ UNCHANGED vars

Next == serve \/ Close \/ Closed \/ \E b \in Byte : Send(b)

Spec == Init /\ [][Next]_vars

\* The worker's thread keeps running, and signals do not interrupt every recv that
\* has something to return.  No signal need ever come, and nothing is assumed of
\* the client.
FairSpec == Spec /\ WF_vars(HandleLine \/ CheckLength) /\ SF_vars(FillBuffer \/ Disconnected)

-----------------------------------------------------------------------------
(* Properties *)

\* Where the n-th line handled starts, less one; for n one past them, where the
\* buffer does.
Start(n) == IF n = 1 THEN 0 ELSE ends[n - 1]

\* However the stream was cut up, the lines handled are its lines, in order: each
\* goes from where the one before it ended to the next newline, less a carriage
\* return; and the buffer is what follows the last of them.
FramingIsExact ==
    /\ Len(ends) = Len(handled)
    /\ \A n \in 1..Len(ends) :
          /\ Start(n) < ends[n] /\ ends[n] <= arrived
          /\ sent[ends[n]] = "\n"
          /\ \A j \in Start(n) + 1..ends[n] - 1 : sent[j] # "\n"
          /\ handled[n] = StripCr(SubSeq(sent, Start(n) + 1, ends[n] - 1))
    /\ buffer = SubSeq(sent, Start(Len(ends) + 1) + 1, arrived)

\* Every line has its own reply, in order, but for one that could not be sent;
\* errors do not end the connection; nothing after QUIT is looked at.
OneReplyPerLine ==
    /\ \A n \in 1..Len(replies) :
          replies[n] = IF n <= Len(handled) THEN Reply(handled[n]) ELSE kTooLong
    /\ pc # "closed" => Len(replies) = Len(handled)
    /\ \A n \in 1..Len(handled) : handled[n] = <<"Q">> => n = Len(handled) /\ pc = "closed"

\* A client that never ends its line cannot make the server hold more than the
\* limit and one read.
BufferIsBounded == Len(buffer) <= kMaxLineBytes + kReadChunkBytes

\* A client that sends a batch of complete lines and waits gets them all
\* answered, or the connection closed on it: none is left waiting in the buffer.
NoLineIsStuck ==
    \A n \in 1..MaxBytes :
        Cardinality({j \in 1..Len(sent) : sent[j] = "\n"}) >= n ~> Len(handled) >= n \/ pc = "closed"
=============================================================================
