----------------------------- MODULE MCCommands -----------------------------
(* Instances of Commands for TLC. *)
EXTENDS Commands, TLC

Keys == {<<"a">>, <<"b">>}
Values == {<<"x">>}

Numbers == (<<"-1">> :> -1) @@ (<<"0">> :> 0) @@ (<<"1">> :> 1) @@ (<<"2">> :> 2)
LowerCase == ("set" :> "SET") @@ ("get" :> "GET") @@ ("ping" :> "PING")

\* Every command as it should be, every kind of TTL, 2 being over the maximum, and
\* too few and too many arguments.
Commanded ==
    {<<v, " ", "a">> : v \in {"GET", "DEL", "EXISTS", "TTL"}}
    \cup {<<v>> : v \in {"ping", "SAVE", "LOAD", "QUIT", "DELETE", "BOGUS"}}
    \cup {<<"SET", " ", k, " ", "x", " ", n>> : k \in {"a", "b"}, n \in {"-1", "0", "1", "2", "x"}}
    \cup {<<"set", " ", k, "\t", "x">> : k \in {"a", "b"}}
    \cup {<<"DELETE", " ", "b">>, <<"SET", " ", "a">>, <<"PING", " ", "a">>,
          <<"SET", " ", "a", " ", "x", " ", "1", " ", "1">>}

\* Every way to space up to two words.
Spaced == UNION {[1..n -> {" ", "get", "a"}] : n \in 0..3}

Texts == Commanded \cup Spaced
=============================================================================
