------------------------------ MODULE Session ------------------------------
(***************************************************************************)
(* The client program talking to a server's Connection over a pair of byte *)
(* streams with bounded buffers, down to the pieces in which send_all gets *)
(* its bytes out.  The server's half implements Connection, in which a     *)
(* line is answered in one step.                                           *)
(*                                                                         *)
(* A byte of a request is one of Connection's.  A reply is the sequence of *)
(* its text, taken as one byte, and its newline.  send accepts one byte at *)
(* a time, the finest of the pieces it may make; interrupted by a signal   *)
(* it accepts none and is called again, which changes nothing.             *)
(***************************************************************************)
EXTENDS Lines

CONSTANTS kMaxLineBytes, kReadChunkBytes,
          Requests,     \* the lines a user may type
          Window,       \* the bytes either stream holds, socket buffers included
          MaxRequests,  \* bound on the lines typed
          MaxBytes, None

VARIABLES client,            \* where the client's main is
          asked, printed,    \* history: the requests typed and the replies printed
          unsent,            \* what send_all has yet to send of a request
          received,          \* the client's LineBuffer, called replies there
          exit_code,
          sent, arrived,     \* history: the bytes sent to the server; how many it has read
          down,              \* the bytes on their way to the client
          admitted,          \* the server had room for the client
          server,            \* where serve is
          buffer,            \* the server's buffer_
          line, raw,         \* the line being answered; history: with its terminator
          out,               \* what send_all has yet to send of a reply
          handled, ends, replies, commands_handled  \* as in Connection

terminal == <<client, asked, printed, unsent, received, exit_code>>
answering == <<line, raw, out>>
history == <<handled, ends, replies>>
vars == <<terminal, sent, arrived, down, admitted, server, buffer, answering, history,
          commands_handled>>

\* Connection as this module implements it.  The line being answered is still in
\* its buffer, and a client that was not admitted is one nobody serves.
Answering == server = "reply"
C == INSTANCE Connection WITH
        eof <- client = "exited",
        buffer <- IF Answering THEN raw \o buffer ELSE buffer,
        pc <- IF ~admitted \/ server \in {"reply", "reject"} THEN "drain" ELSE server,
        commands_handled <- IF Answering /\ Reply(line) # "-ERR" THEN commands_handled - 1
                            ELSE commands_handled

kFull == "-ERR full"
Wire(reply) == <<reply, "\n">>

Init ==
    /\ client = "connect" /\ asked = <<>> /\ printed = <<>>
    /\ unsent = <<>> /\ received = <<>> /\ exit_code = None
    /\ sent = <<>> /\ arrived = 0 /\ down = <<>>
    /\ admitted = FALSE /\ server = "closed"
    /\ buffer = <<>> /\ line = None /\ raw = <<>> /\ out = <<>>
    /\ handled = <<>> /\ ends = <<>> /\ replies = <<>> /\ commands_handled = 0

-----------------------------------------------------------------------------
(* The client program *)

Exit(code) == client' = "exited" /\ exit_code' = code

\* connect_to tries one address after the other; the server admits the client, or
\* tells it that there is no room and closes.
Connect ==
    /\ client = "connect" /\ client' = "prompt"
    /\ \E room \in BOOLEAN :
         /\ admitted' = room
         /\ server' = IF room THEN "drain" ELSE "closed"
         /\ down' = IF room THEN <<>> ELSE Wire(kFull)
    /\ UNCHANGED <<asked, printed, unsent, received, exit_code, sent, arrived, buffer,
                   answering, history, commands_handled>>

ConnectFails ==
    /\ client = "connect"
    /\ Exit(1)
    /\ UNCHANGED <<asked, printed, unsent, received, sent, arrived, down, admitted, server,
                   buffer, answering, history, commands_handled>>

\* A line is typed; an empty one is not sent.
GetLine(request) ==
    /\ client = "prompt" /\ Len(asked) < MaxRequests /\ request # <<>>
    /\ asked' = Append(asked, request)
    /\ unsent' = Append(request, "\n")
    /\ client' = "send"
    /\ UNCHANGED <<printed, received, exit_code, sent, arrived, down, admitted, server,
                   buffer, answering, history, commands_handled>>

EndOfInput ==
    /\ client = "prompt"
    /\ Exit(0)
    /\ UNCHANGED <<asked, printed, unsent, received, sent, arrived, down, admitted, server,
                   buffer, answering, history, commands_handled>>

\* The user interrupts the program, wherever it is.
Interrupt ==
    /\ client \notin {"connect", "exited"}
    /\ Exit(130)
    /\ UNCHANGED <<asked, printed, unsent, received, sent, arrived, down, admitted, server,
                   buffer, answering, history, commands_handled>>

\* send_all; what is sent to a closed socket is lost.
ClientSends ==
    /\ client = "send" /\ unsent # <<>> /\ Len(sent) - arrived < Window
    /\ sent' = Append(sent, Head(unsent)) /\ unsent' = Tail(unsent)
    /\ UNCHANGED <<client, asked, printed, received, exit_code, arrived, down, admitted,
                   server, buffer, answering, history, commands_handled>>

ClientHasSent ==
    /\ client = "send" /\ unsent = <<>>
    /\ client' = "read"
    /\ UNCHANGED <<asked, printed, unsent, received, exit_code, sent, arrived, down, admitted,
                   server, buffer, answering, history, commands_handled>>

ClientSendFails ==
    /\ client = "send" /\ server = "closed"
    /\ Exit(1)
    /\ UNCHANGED <<asked, printed, unsent, received, sent, arrived, down, admitted, server,
                   buffer, answering, history, commands_handled>>

\* read_reply finds a line: it is printed, and +BYE ends the program.
PrintReply ==
    /\ client = "read" /\ HasLine(received)
    /\ LET reply == next_line(received).line IN
       /\ printed' = Append(printed, reply)
       /\ received' = next_line(received).rest
       /\ IF reply = <<"+BYE">> THEN Exit(0)
          ELSE client' = "prompt" /\ UNCHANGED exit_code
    /\ UNCHANGED <<asked, unsent, sent, arrived, down, admitted, server, buffer, answering,
                   history, commands_handled>>

ClientReceives ==
    /\ client = "read" /\ ~HasLine(received)
    /\ \E n \in 1..Len(down) :
         /\ received' = received \o SubSeq(down, 1, n)
         /\ down' = SubSeq(down, n + 1, Len(down))
    /\ UNCHANGED <<client, asked, printed, unsent, exit_code, sent, arrived, admitted, server,
                   buffer, answering, history, commands_handled>>

\* recv returns zero at the end of the stream; it fails when the server closed
\* without having read everything, which resets the connection.
ServerIsGone ==
    /\ client = "read" /\ ~HasLine(received)
    /\ server = "closed" /\ (down = <<>> \/ arrived < Len(sent))
    /\ Exit(1)
    /\ UNCHANGED <<asked, printed, unsent, received, sent, arrived, down, admitted, server,
                   buffer, answering, history, commands_handled>>

-----------------------------------------------------------------------------
(* The server: serve, with the send_all in handle_line in its own steps *)

HandleLine ==
    /\ server = "drain" /\ HasLine(buffer)
    /\ server' = "reply"
    /\ line' = next_line(buffer).line
    /\ raw' = SubSeq(buffer, 1, Newline(buffer))
    /\ buffer' = next_line(buffer).rest
    /\ commands_handled' = commands_handled + (IF Reply(line') # "-ERR" THEN 1 ELSE 0)
    /\ out' = Wire(Reply(line'))
    /\ UNCHANGED <<terminal, sent, arrived, down, admitted, history>>

CheckLength ==
    /\ server = "drain" /\ ~HasLine(buffer)
    /\ IF Len(buffer) > kMaxLineBytes
       THEN server' = "reject" /\ out' = Wire(kTooLong)
       ELSE server' = "recv" /\ UNCHANGED out
    /\ UNCHANGED <<terminal, sent, arrived, down, admitted, buffer, line, raw, history,
                   commands_handled>>

\* Mutant: what one call of send accepted is taken for everything.
Bad_Unsent(bytes) == <<>>
\* What is left for send_all's next round.
Unsent(bytes) == Tail(bytes)

ServerSends ==
    /\ out # <<>> /\ Len(down) < Window
    /\ down' = Append(down, Head(out)) /\ out' = Unsent(out)
    /\ UNCHANGED <<terminal, sent, arrived, admitted, server, buffer, line, raw, history,
                   commands_handled>>

\* The answer is out, or told is FALSE because the client is gone.
Answered(told) ==
    /\ line' = None /\ raw' = <<>> /\ out' = <<>>
    /\ IF server = "reply"
       THEN /\ handled' = Append(handled, line)
            /\ ends' = Append(ends, arrived - Len(buffer))
            /\ replies' = IF told THEN Append(replies, Reply(line)) ELSE replies
       ELSE /\ replies' = IF told THEN Append(replies, kTooLong) ELSE replies
            /\ UNCHANGED <<handled, ends>>
    /\ UNCHANGED <<terminal, sent, arrived, down, admitted, buffer, commands_handled>>

\* Mutant: QUIT does not end the connection.
Bad_After == IF server = "reply" THEN "drain" ELSE "closed"
\* Where serve goes when the answer is out.
After == IF server = "reply" /\ Reply(line) # "+BYE" THEN "drain" ELSE "closed"

ServerHasSent ==
    /\ server \in {"reply", "reject"} /\ out = <<>>
    /\ server' = After
    /\ Answered(TRUE)

ServerSendFails ==
    /\ server \in {"reply", "reject"} /\ out # <<>> /\ client = "exited"
    /\ server' = "closed"
    /\ Answered(FALSE)

FillBuffer ==
    /\ server = "recv"
    /\ \E n \in 1..kReadChunkBytes :
         /\ arrived + n <= Len(sent)
         /\ buffer' = buffer \o SubSeq(sent, arrived + 1, arrived + n)
         /\ arrived' = arrived + n
    /\ server' = "drain"
    /\ UNCHANGED <<terminal, sent, down, admitted, answering, history, commands_handled>>

Disconnected ==
    /\ server = "recv" /\ client = "exited"
    /\ server' = "closed"
    /\ UNCHANGED <<terminal, sent, arrived, down, admitted, buffer, answering, history,
                   commands_handled>>

\* recv is interrupted by a signal.
Interrupted ==
    /\ server = "recv"
    /\ server' = "drain"
    /\ UNCHANGED <<terminal, sent, arrived, down, admitted, buffer, answering, history,
                   commands_handled>>

-----------------------------------------------------------------------------
User == EndOfInput \/ Interrupt \/ \E request \in Requests : GetLine(request)

main == Connect \/ ConnectFails \/ ClientSends \/ ClientHasSent \/ ClientSendFails
        \/ PrintReply \/ ClientReceives \/ ServerIsGone

send_all == ServerSends \/ ServerHasSent \/ ServerSendFails

\* The program has ended, and so has the connection.
Over == client = "exited" /\ server = "closed" /\ UNCHANGED vars

Next == User \/ main \/ HandleLine \/ CheckLength \/ send_all
        \/ FillBuffer \/ Disconnected \/ Interrupted \/ Over

Spec == Init /\ [][Next]_vars

\* Both programs keep running, and signals do not interrupt every recv that has
\* something to return.  Nothing is assumed of the user.
FairSpec ==
    /\ Spec
    /\ WF_vars(main)
    /\ WF_vars(HandleLine \/ CheckLength \/ send_all)
    /\ SF_vars(FillBuffer \/ Disconnected)

-----------------------------------------------------------------------------
(* Properties *)

\* The client prints, for each request in its turn, the reply to that request, even
\* though nothing on the wire says which request a reply is for; only the last line
\* it prints may instead say why the server closes the connection.
RepliesMatchRequests ==
    \A n \in 1..Len(printed) :
       \/ printed[n] = <<Reply(StripCr(asked[n]))>>
       \/ n = Len(printed) /\ printed[n] \in {<<kTooLong>>, <<kFull>>}

\* Every request is answered, or the client learns that it will not be: client and
\* server never wait for each other, however small the buffers between them and
\* however a request or a reply is cut up.
RequestsAreSettled == client \in {"send", "read"} ~> client \in {"prompt", "exited"}

\* Answering in pieces is answering in one step: with its sends spread over time
\* the server still does what Connection does.
ImplementsConnection == C!Spec
=============================================================================
