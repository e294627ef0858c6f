----------------------------- MODULE MCSession -----------------------------
(* An instance of Session for TLC. *)
EXTENDS Session

\* A command, the command that ends it, a line that is refused, one that is too long
\* unless its newline arrives in time, one with a carriage return, and none.
Typed == {<<"P">>, <<"Q">>, <<"P", "P">>, <<"P", "P", "P">>, <<"P", "\r">>, <<>>}
=============================================================================
