------------------------------ MODULE Commands ------------------------------
(***************************************************************************)
(* parse_command and execute: the lines a client sends become commands on  *)
(* the cache, and results become replies.                                  *)
(*                                                                         *)
(* A line is a sequence of characters, and a token a part of one.  What is *)
(* never taken apart, such as the letters of a verb, counts as one         *)
(* character.                                                              *)
(*                                                                         *)
(* One Cache stands for the ShardedCache, each of whose single-key calls   *)
(* is one on the key's shard.  SAVE and LOAD take one step each here: what *)
(* happens during them is the subject of Persistence.                      *)
(***************************************************************************)
EXTENDS SnapshotOps, FiniteSets

CONSTANTS Line,            \* the lines that clients send
          Upper,           \* the lower-case characters, with their upper-case forms
          Number,          \* the tokens that from_chars reads to their end, with their values
          MsPerSecond,     \* 1000 in the code
          kMaxTtlSeconds,
          ClockMax,        \* the last instant a time_point can hold
          Capacity, MaxTime

ASSUME UnitsAssumption == MsPerSecond \in Nat \ {0} /\ kMaxTtlSeconds \in Nat

VARIABLES cache, now,
          enabled,       \* the server has a snapshot path
          file,          \* the snapshot, None if there is none
          line, reply    \* the line being handled and the reply to it, None when there is none

vars == <<cache, now, enabled, file, line, reply>>

-----------------------------------------------------------------------------
(* parse_command *)

is_separator(c) == c \in {" ", "\t"}

\* Where the word that starts at i ends.  Mutant: one character early.
Bad_WordEnd(text, i) ==
    CHOOSE j \in i..Len(text) : j + 1 >= Len(text) \/ is_separator(text[j + 1])
WordEnd(text, i) ==
    CHOOSE j \in i..Len(text) :
        /\ j = Len(text) \/ is_separator(text[j + 1])
        /\ \A k \in i..j : ~is_separator(text[k])

tokenize(text) ==
    LET From[i \in 1..Len(text) + 1] ==
            IF i > Len(text) THEN <<>>
            ELSE IF is_separator(text[i]) THEN From[i + 1]
            ELSE <<SubSeq(text, i, WordEnd(text, i))>> \o From[WordEnd(text, i) + 1]
    IN  From[1]

to_upper(token) ==
    [i \in DOMAIN token |-> IF token[i] \in DOMAIN Upper THEN Upper[token[i]] ELSE token[i]]

fail(error) == [ok |-> FALSE, error |-> error]

succeed(type, key, value, seconds) ==
    [ok |-> TRUE, type |-> type, key |-> key, value |-> value, ttl |-> seconds]

parse_integer(token) == IF token \in DOMAIN Number THEN Number[token] ELSE None

parse_key_only(type, tokens) ==
    IF Len(tokens) # 2 THEN fail("wrong number of arguments")
    ELSE succeed(type, tokens[2], None, None)

parse_no_args(type, tokens) ==
    IF Len(tokens) # 1 THEN fail("wrong number of arguments")
    ELSE succeed(type, None, None, None)

\* Mutant: any number of seconds will do.
Bad_TtlTooLarge(seconds) == FALSE
TtlTooLarge(seconds) == seconds > kMaxTtlSeconds

parse_set(tokens) ==
    IF Len(tokens) \notin {3, 4} THEN fail("wrong number of arguments")
    ELSE IF Len(tokens) = 3 THEN succeed("SET", tokens[2], tokens[3], None)
    ELSE LET seconds == parse_integer(tokens[4]) IN
         IF seconds = None THEN fail("invalid TTL")
         ELSE IF seconds < 0 THEN fail("TTL must not be negative")
         ELSE IF TtlTooLarge(seconds) THEN fail("TTL too large")
         ELSE succeed("SET", tokens[2], tokens[3], seconds)

parse_command(text) ==
    LET tokens == tokenize(text)
        verb == to_upper(Head(tokens))
        Is(names) == \E name \in names : verb = <<name>>
    IN  CASE tokens = <<>> -> fail("empty command")
          [] tokens # <<>> /\ Is({"SET"}) -> parse_set(tokens)
          [] tokens # <<>> /\ Is({"GET", "EXISTS", "TTL"}) -> parse_key_only(verb[1], tokens)
          [] tokens # <<>> /\ Is({"DELETE", "DEL"}) -> parse_key_only("DELETE", tokens)
          [] tokens # <<>> /\ Is({"PING", "SAVE", "LOAD", "QUIT"}) -> parse_no_args(verb[1], tokens)
          [] OTHER -> fail("unknown command")

\* The result for every line, so that TLC works it out once.
Parse == [text \in Line |-> parse_command(text)]

-----------------------------------------------------------------------------
(* execute *)

reply_error(error) == [tag |-> "-ERR", what |-> error]
reply_value(v) == [tag |-> "=", what |-> v]
reply_integer(n) == [tag |-> ":", what |-> n]
Plain(text) == [tag |-> text, what |-> None]   \* +OK, +PONG, +BYE, +NOEXPIRE and the nil _

\* Milliseconds to seconds, rounded up.  Mutant: rounded down.
Bad_Seconds(ms) == ms \div MsPerSecond
Seconds(ms) == (ms + MsPerSecond - 1) \div MsPerSecond

OneIf(b) == IF b THEN 1 ELSE 0

\* What a command that has nothing to do with files leaves.
execute(c, command, t) ==
    LET k == command.key IN
    CASE command.type = "SET" ->
            [cache |-> IF command.ttl = None THEN set(c, k, command.value)
                       ELSE set_ttl(c, k, command.value, command.ttl * MsPerSecond, t),
             reply |-> Plain("+OK")]
      [] command.type = "GET" ->
            LET got == get(c, k, t) IN
            [cache |-> got.cache,
             reply |-> IF got.ret # None THEN reply_value(got.ret) ELSE Plain("_")]
      [] command.type = "DELETE" ->
            LET erased == erase(c, k, t) IN
            [cache |-> erased.cache, reply |-> reply_integer(OneIf(erased.ret))]
      [] command.type = "EXISTS" ->
            [cache |-> c, reply |-> reply_integer(OneIf(contains(c, k, t)))]
      [] command.type = "TTL" ->
            LET info == ttl(c, k, t) IN
            [cache |-> info.cache,
             reply |-> CASE info.ret.state = "Missing" -> Plain("_")
                         [] info.ret.state = "Persistent" -> Plain("+NOEXPIRE")
                         [] OTHER -> reply_integer(Seconds(info.ret.remaining))]
      [] OTHER ->
            [cache |-> c, reply |-> Plain(IF command.type = "PING" THEN "+PONG" ELSE "+BYE")]

-----------------------------------------------------------------------------
Init ==
    /\ cache = New(Capacity) /\ now = 0
    /\ enabled \in BOOLEAN /\ file = None
    /\ line = None /\ reply = None

wall_clock_ms == now \div TicksPerMs

Execute(command) ==
    /\ command.type \notin {"SAVE", "LOAD"}
    /\ LET done == execute(cache, command, now) IN cache' = done.cache /\ reply' = done.reply
    /\ UNCHANGED file

\* SAVE and LOAD without a snapshot path, or with one that cannot be written, or a
\* file that makes no sense.
SnapshotFails(command) ==
    /\ command.type \in {"SAVE", "LOAD"}
    /\ enabled /\ command.type = "LOAD" => file # None
    /\ reply' = reply_error(IF enabled THEN "failed" ELSE "persistence is not enabled")
    /\ UNCHANGED <<cache, file>>

Save(command) ==
    /\ enabled /\ command.type = "SAVE"
    /\ LET copy == export_entries(cache, now) IN
       /\ file' = [saved_at |-> wall_clock_ms,
                   records |-> [i \in 1..Len(copy) |-> Written(copy[i])]]
       /\ reply' = reply_integer(Len(copy))
    /\ UNCHANGED cache

\* There is no file, or none that can be opened, which is nothing to complain about.
LoadNothing(command) ==
    /\ enabled /\ command.type = "LOAD"
    /\ reply' = reply_integer(0)
    /\ UNCHANGED <<cache, file>>

\* The records are stored from the last to the first.
Load(command) ==
    /\ enabled /\ file # None /\ command.type = "LOAD"
    /\ LET elapsed == elapsed_ms(file.saved_at, wall_clock_ms)
           Stored(r, c) == Restore(c, r, elapsed, now) IN
       /\ cache' = FoldRight(Stored, file.records, cache)
       /\ reply' = reply_integer(Len(SelectSeq(file.records, LAMBDA r : Survives(r, elapsed))))
    /\ UNCHANGED file

\* A line that cannot be parsed is answered with the reason.
handle_line(text) ==
    LET parsed == Parse[text] IN
    /\ line = None /\ line' = text
    /\ IF parsed.ok
       THEN \/ Execute(parsed) \/ SnapshotFails(parsed) \/ Save(parsed)
            \/ LoadNothing(parsed) \/ Load(parsed)
       ELSE reply' = reply_error(parsed.error) /\ UNCHANGED <<cache, file>>
    /\ UNCHANGED <<now, enabled>>

\* The reply is sent, and serve goes on to the next line.
Sent ==
    /\ line # None
    /\ line' = None /\ reply' = None
    /\ UNCHANGED <<cache, now, enabled, file>>

Tick ==
    /\ line = None /\ now < MaxTime
    /\ now' = now + 1
    /\ UNCHANGED <<cache, enabled, file, line, reply>>

Next == Tick \/ Sent \/ \E text \in Line : handle_line(text)

Spec == Init /\ [][Next]_vars

-----------------------------------------------------------------------------
(* Properties *)

\* The line being handled is a command of one of these types.
Asks(types) == line # None /\ Parse[line].ok /\ Parse[line].type \in types

\* Where a line's words start.
Starts == {i \in 1..Len(line) : ~is_separator(line[i]) /\ (i = 1 \/ is_separator(line[i - 1]))}

\* However words are spaced, and wherever the line ends, the tokens are the maximal
\* runs of characters that are no separators, all of them and in their order.
TokensAreTheWords ==
    line # None =>
    LET tokens == tokenize(line) IN
    /\ Len(tokens) = Cardinality(Starts)
    /\ \A i \in Starts :
          LET word == tokens[Cardinality(Starts \cap 1..i)]
              next == i + Len(word) IN
          /\ word = SubSeq(line, i, next - 1)
          /\ \A c \in ToSet(word) : ~is_separator(c)
          /\ next = Len(line) + 1 \/ is_separator(line[next])

\* The seconds that TTL reports are the time the key has left, rounded up: less
\* than a second more than the truth, and never a whole millisecond short of it.
TtlReplyIsTight ==
    Asks({"TTL"}) /\ reply.tag = ":" =>
        LET left == cache.entries[Slot(cache, Parse[line].key)].expires_at - now
            said == reply.what * MsPerSecond * TicksPerMs
        IN  said - MsPerSecond * TicksPerMs < left /\ left < said + TicksPerMs

\* The number that SAVE replies is how many keys could be read at that moment, and
\* LOAD claims no more keys than can be read of those in the snapshot, whatever has
\* expired or changed since it was taken.
SnapshotRepliesAreTrue ==
    line # None /\ reply.tag = ":" =>
        /\ Asks({"SAVE"}) => reply.what = Cardinality({k \in Key : Visible(cache, k, now)})
        /\ Asks({"LOAD"}) /\ file # None =>
              reply.what <= Cardinality({i \in 1..Len(file.records) :
                                            Visible(cache, file.records[i].key, now)})

\* No deadline is past what the clock can represent, whatever TTLs clients send and
\* however often they save and load: the sum that makes it never overflows.
DeadlinesFitTheClock ==
    \A i \in 1..Len(cache.entries) :
        cache.entries[i].expires_at # None => cache.entries[i].expires_at <= ClockMax
=============================================================================
