-------------------------- MODULE ConnectionProofs --------------------------
(***************************************************************************)
(* For every stream of bytes, however recv cuts it up, and for every limit *)
(* and read size: framing is exact, every line has its reply, and the      *)
(* buffer is bounded.                                                      *)
(***************************************************************************)
EXTENDS Connection, SequenceTheorems, WellFoundedInduction, TLAPS

Answers == {"+PONG", "+BYE", "-ERR", kTooLong}

\* The variables hold values of their types.
TypeOK ==
    /\ sent \in Seq(Byte) /\ arrived \in 0..Len(sent) /\ eof \in BOOLEAN
    /\ buffer \in Seq(Byte) /\ pc \in {"drain", "recv", "closed"}
    /\ handled \in Seq(Seq(Byte)) /\ ends \in Seq(Nat) /\ replies \in Seq(Answers)

\* recv is only called when the buffer holds no more than the limit.
ReadsAreChecked == pc = "recv" => Len(buffer) <= kMaxLineBytes

IInv == TypeOK /\ FramingIsExact /\ OneReplyPerLine /\ ReadsAreChecked /\ BufferIsBounded

-----------------------------------------------------------------------------
(* Sequences *)

\* A set of positions has a first.
LEMMA FirstPosition ==
    ASSUME NEW T \in SUBSET Nat, T # {}
    PROVE  \E x \in T : \A y \in T : ~(y < x)
<1>1. PICK x \in T : \A y \in T : ~(<<y, x>> \in OpToRel(<, Nat))
  BY NatLessThanWellFounded, WFMin
<1> QED
  BY <1>1 DEF OpToRel

\* LineBuffer finds the first newline.
LEMMA NewlineProperties ==
    ASSUME NEW s \in Seq(Byte), HasLine(s)
    PROVE  /\ Newline(s) \in 1..Len(s) /\ s[Newline(s)] = "\n"
           /\ \A j \in 1..Newline(s) - 1 : s[j] # "\n"
<1> DEFINE T == {n \in 1..Len(s) : s[n] = "\n"}
<1>1. T \in SUBSET Nat /\ T # {}
  BY DEF HasLine
<1>2. PICK x \in T : \A y \in T : ~(y < x)
  BY <1>1, FirstPosition
<1>3. \A j \in 1..x - 1 : s[j] # "\n"
  BY <1>2
<1> QED
  BY <1>2, <1>3 DEF Newline

\* A piece of a stream.
LEMMA Piece ==
    ASSUME NEW S, NEW s \in Seq(S), NEW a \in Nat, NEW b \in 0..Len(s), a <= b
    PROVE  /\ SubSeq(s, a + 1, b) \in Seq(S) /\ Len(SubSeq(s, a + 1, b)) = b - a
           /\ \A n \in 1..b - a : SubSeq(s, a + 1, b)[n] = s[a + n]
<1>1. \A n \in a + 1..b : s[n] \in S
  BY ElementOfSeq
<1>2. /\ SubSeq(s, a + 1, b) \in Seq(S)
      /\ Len(SubSeq(s, a + 1, b)) = IF a + 1 <= b THEN b - (a + 1) + 1 ELSE 0
      /\ \A n \in 1..b - (a + 1) + 1 : SubSeq(s, a + 1, b)[n] = s[a + 1 + n - 1]
  BY <1>1, SubSeqProperties
<1>3. b - (a + 1) + 1 = b - a /\ \A n \in 1..b - a : a + 1 + n - 1 = a + n
  OBVIOUS
<1> QED
  BY <1>2, <1>3

\* A piece of a piece is a piece.
LEMMA PieceOfPiece ==
    ASSUME NEW S, NEW s \in Seq(S), NEW a \in Nat, NEW b \in 0..Len(s), a <= b,
           NEW c \in Nat, NEW d \in 0..b - a, c <= d
    PROVE  SubSeq(SubSeq(s, a + 1, b), c + 1, d) = SubSeq(s, (a + c) + 1, a + d)
<1> DEFINE p == SubSeq(s, a + 1, b)
           q == SubSeq(p, c + 1, d)
           r == SubSeq(s, (a + c) + 1, a + d)
<1>1. p \in Seq(S) /\ Len(p) = b - a /\ \A n \in 1..b - a : p[n] = s[a + n]
  BY Piece
<1>2. r \in Seq(S) /\ Len(r) = (a + d) - (a + c) /\ \A n \in 1..(a + d) - (a + c) : r[n] = s[(a + c) + n]
  <2>1. a + c \in Nat /\ a + d \in 0..Len(s) /\ a + c <= a + d
    OBVIOUS
  <2> QED
    BY <2>1, Piece
<1> HIDE DEF p, r
<1>3. q \in Seq(S) /\ Len(q) = d - c /\ \A n \in 1..d - c : q[n] = p[c + n]
  <2>1. d \in 0..Len(p)
    BY <1>1
  <2> QED
    BY <1>1, <2>1, Piece
<1> HIDE DEF q
<1>4. ASSUME NEW n \in 1..d - c
      PROVE  q[n] = r[n]
  <2>1. c + n \in 1..b - a /\ n \in 1..(a + d) - (a + c) /\ a + (c + n) = (a + c) + n
    OBVIOUS
  <2> QED
    BY <1>1, <1>2, <1>3, <2>1
<1>5. Len(q) = Len(r) /\ Len(q) = d - c
  BY <1>2, <1>3
<1>6. q = r
  BY <1>2, <1>3, <1>4, <1>5, SeqEqual
<1> QED
  BY <1>6 DEF p, q, r

\* Two pieces that follow each other make one.
LEMMA PiecesJoin ==
    ASSUME NEW S, NEW s \in Seq(S), NEW a \in Nat, NEW b \in Nat, NEW c \in 0..Len(s),
           a <= b, b <= c
    PROVE  SubSeq(s, a + 1, b) \o SubSeq(s, b + 1, c) = SubSeq(s, a + 1, c)
<1> DEFINE p == SubSeq(s, a + 1, b)
           q == SubSeq(s, b + 1, c)
           r == SubSeq(s, a + 1, c)
<1>1. p \in Seq(S) /\ Len(p) = b - a /\ \A n \in 1..b - a : p[n] = s[a + n]
  BY Piece
<1>2. q \in Seq(S) /\ Len(q) = c - b /\ \A n \in 1..c - b : q[n] = s[b + n]
  BY Piece
<1>3. r \in Seq(S) /\ Len(r) = c - a /\ \A n \in 1..c - a : r[n] = s[a + n]
  BY Piece
<1> HIDE DEF p, q, r
<1>4. /\ p \o q \in Seq(S) /\ Len(p \o q) = c - a
      /\ \A n \in 1..c - a : (p \o q)[n] = IF n <= b - a THEN p[n] ELSE q[n - (b - a)]
  <2>1. /\ p \o q \in Seq(S) /\ Len(p \o q) = Len(p) + Len(q)
        /\ \A n \in 1..Len(p) + Len(q) :
              (p \o q)[n] = IF n <= Len(p) THEN p[n] ELSE q[n - Len(p)]
    BY <1>1, <1>2, ConcatProperties
  <2>2. Len(p) + Len(q) = c - a
    BY <1>1, <1>2
  <2> QED
    BY <1>1, <2>1, <2>2
<1>5. ASSUME NEW n \in 1..c - a
      PROVE  (p \o q)[n] = r[n]
  <2>1. CASE n <= b - a
    <3>1. n \in 1..b - a
      BY <2>1
    <3> QED
      BY <1>1, <1>3, <1>4, <2>1, <3>1
  <2>2. CASE ~(n <= b - a)
    <3>1. n - (b - a) \in 1..c - b /\ b + (n - (b - a)) = a + n
      BY <2>2
    <3> QED
      BY <1>2, <1>3, <1>4, <2>2, <3>1
  <2> QED
    BY <2>1, <2>2
<1>6. p \o q = r
  BY <1>3, <1>4, <1>5, SeqEqual
<1> QED
  BY <1>6 DEF p, q, r

\* What arrives later does not change a piece.
LEMMA PieceOfLonger ==
    ASSUME NEW S, NEW s \in Seq(S), NEW x \in S, NEW a \in Nat, NEW b \in 0..Len(s), a <= b
    PROVE  SubSeq(Append(s, x), a + 1, b) = SubSeq(s, a + 1, b)
<1> DEFINE t == Append(s, x)
<1>1. t \in Seq(S) /\ Len(t) = Len(s) + 1 /\ \A n \in 1..Len(s) : t[n] = s[n]
  BY AppendProperties
<1> HIDE DEF t
<1>2. /\ SubSeq(t, a + 1, b) \in Seq(S) /\ Len(SubSeq(t, a + 1, b)) = b - a
      /\ \A n \in 1..b - a : SubSeq(t, a + 1, b)[n] = t[a + n]
  BY <1>1, Piece
<1>3. /\ SubSeq(s, a + 1, b) \in Seq(S) /\ Len(SubSeq(s, a + 1, b)) = b - a
      /\ \A n \in 1..b - a : SubSeq(s, a + 1, b)[n] = s[a + n]
  BY Piece
<1>4. \A n \in 1..b - a : SubSeq(t, a + 1, b)[n] = SubSeq(s, a + 1, b)[n]
  BY <1>1, <1>2, <1>3
<1>5. SubSeq(t, a + 1, b) = SubSeq(s, a + 1, b)
  BY <1>2, <1>3, <1>4, SeqEqual
<1> QED
  BY <1>5 DEF t

\* Taking a carriage return off a line leaves a line.
LEMMA StripCrType ==
    ASSUME NEW l \in Seq(Byte)
    PROVE  StripCr(l) \in Seq(Byte)
<1>1. CASE l # <<>> /\ Last(l) = "\r"
  <2>1. Len(l) - 1 \in 0..Len(l)
    BY <1>1, EmptySeq
  <2>2. SubSeq(l, 0 + 1, Len(l) - 1) \in Seq(Byte)
    BY <2>1, Piece
  <2> QED
    BY <1>1, <2>2 DEF StripCr, Front
<1>2. CASE ~(l # <<>> /\ Last(l) = "\r")
  BY <1>2 DEF StripCr
<1> QED
  BY <1>1, <1>2

-----------------------------------------------------------------------------
\* The invariant holds when the connection is accepted.
LEMMA InitIInv == Init => IInv
<1> SUFFICES ASSUME Init PROVE IInv
  OBVIOUS
<1>1. TypeOK
  <2>1. <<>> \in Seq(Byte) /\ Len(<<>>) = 0
    OBVIOUS
  <2>2. <<>> \in Seq(Seq(Byte))
    OBVIOUS
  <2>3. <<>> \in Seq(Nat) /\ <<>> \in Seq(Answers)
    OBVIOUS
  <2> QED
    <3>1. sent \in Seq(Byte) /\ buffer \in Seq(Byte) /\ handled \in Seq(Seq(Byte))
          /\ ends \in Seq(Nat) /\ replies \in Seq(Answers)
      BY <2>1, <2>2, <2>3, Zenon DEF Init
    <3>2. arrived \in 0..Len(sent)
      BY <2>1 DEF Init
    <3>3. eof \in BOOLEAN /\ pc \in {"drain", "recv", "closed"}
      BY DEF Init
    <3> QED
      BY <3>1, <3>2, <3>3 DEF TypeOK
<1>2. SubSeq(sent, 1, 0) = <<>>
  BY DEF Init
<1>3. FramingIsExact
  BY <1>2 DEF Init, FramingIsExact, Start
<1>4. OneReplyPerLine /\ ReadsAreChecked
  BY DEF Init, OneReplyPerLine, ReadsAreChecked
<1>5. BufferIsBounded
  BY SizesAssumption DEF Init, BufferIsBounded
<1> QED
  BY <1>1, <1>3, <1>4, <1>5 DEF IInv

\* Where the bytes in the buffer start in the stream, less one.
Base == Start(Len(ends) + 1)

\* The buffer is what has arrived since the last line ended.
LEMMA BufferProperties ==
    ASSUME TypeOK, FramingIsExact
    PROVE  /\ Base \in 0..arrived /\ buffer = SubSeq(sent, Base + 1, arrived)
           /\ Len(buffer) = arrived - Base
           /\ \A n \in 1..Len(buffer) : buffer[n] = sent[Base + n]
<1>1. Len(ends) \in Nat
  BY DEF TypeOK
<1>2. Base \in 0..arrived
  <2>1. CASE Len(ends) = 0
    BY <2>1 DEF TypeOK, Base, Start
  <2>2. CASE Len(ends) # 0
    <3>1. Len(ends) \in 1..Len(ends) /\ Len(ends) + 1 # 1 /\ (Len(ends) + 1) - 1 = Len(ends)
      BY <1>1, <2>2
    <3>2. Base = ends[Len(ends)]
      BY <3>1 DEF Base, Start
    <3> QED
      BY <3>1, <3>2 DEF TypeOK, FramingIsExact
  <2> QED
    BY <2>1, <2>2
<1>3. buffer = SubSeq(sent, Base + 1, arrived)
  BY DEF FramingIsExact, Base
<1>4. arrived \in 0..Len(sent) /\ Base \in Nat /\ Base <= arrived
  BY <1>2 DEF TypeOK
<1>5. Len(buffer) = arrived - Base /\ \A n \in 1..arrived - Base : buffer[n] = sent[Base + n]
  BY <1>3, <1>4, Piece DEF TypeOK
<1> QED
  BY <1>2, <1>3, <1>5

\* The client sends another byte.
LEMMA SendIInv ==
    ASSUME IInv, NEW b \in Byte, Send(b)
    PROVE  IInv'
<1> USE DEF IInv
<1>1. sent' = Append(sent, b) /\ UNCHANGED <<arrived, eof, buffer, pc, handled, ends, replies>>
  BY DEF Send
<1>2. /\ sent' \in Seq(Byte) /\ Len(sent') = Len(sent) + 1
      /\ \A n \in 1..Len(sent) : sent'[n] = sent[n]
  BY <1>1, AppendProperties DEF TypeOK
<1>3. TypeOK'
  BY <1>1, <1>2 DEF TypeOK
<1>4. \A n : Start(n)' = Start(n)
  BY <1>1 DEF Start
<1>5. ASSUME NEW a \in Nat, NEW z \in 0..arrived, a <= z
      PROVE  SubSeq(sent', a + 1, z) = SubSeq(sent, a + 1, z)
  <2>1. z \in 0..Len(sent)
    BY <1>5 DEF TypeOK
  <2> QED
    BY <1>1, <1>5, <2>1, PieceOfLonger DEF TypeOK
<1>6. buffer' = SubSeq(sent', Start(Len(ends) + 1) + 1, arrived)
  <2>1. Base \in 0..arrived /\ buffer = SubSeq(sent, Base + 1, arrived)
    BY BufferProperties
  <2>2. Base \in Nat /\ arrived \in 0..arrived /\ Base <= arrived
    BY <2>1 DEF TypeOK
  <2> QED
    BY <1>1, <1>5, <2>1, <2>2 DEF Base
<1>7. ASSUME NEW n \in 1..Len(ends)
      PROVE  /\ sent'[ends[n]] = "\n"
             /\ \A j \in Start(n) + 1..ends[n] - 1 : sent'[j] # "\n"
             /\ handled[n] = StripCr(SubSeq(sent', Start(n) + 1, ends[n] - 1))
  <2>1. Start(n) \in Nat /\ ends[n] \in Nat
    <3>1. CASE n = 1
      BY <3>1 DEF TypeOK, Start
    <3>2. CASE n # 1
      <4>1. n - 1 \in 1..Len(ends)
        BY <3>2 DEF TypeOK
      <4> QED
        BY <3>2, <4>1 DEF TypeOK, Start
    <3> QED
      BY <3>1, <3>2
  <2>2. Start(n) < ends[n] /\ ends[n] <= arrived /\ arrived <= Len(sent)
    BY DEF FramingIsExact, TypeOK
  <2>3. ends[n] - 1 \in 0..arrived /\ Start(n) <= ends[n] - 1
    BY <2>1, <2>2, SMTT(60) DEF TypeOK
  <2>4. SubSeq(sent', Start(n) + 1, ends[n] - 1) = SubSeq(sent, Start(n) + 1, ends[n] - 1)
    BY <1>5, <2>1, <2>3
  <2>5. ends[n] \in 1..Len(sent) /\ \A j \in Start(n) + 1..ends[n] - 1 : j \in 1..Len(sent)
    BY <2>1, <2>2, SMTT(60) DEF TypeOK
  <2> QED
    BY <1>2, <2>4, <2>5 DEF FramingIsExact
<1>8. FramingIsExact'
  BY <1>1, <1>4, <1>6, <1>7 DEF FramingIsExact
<1>9. OneReplyPerLine' /\ ReadsAreChecked' /\ BufferIsBounded'
  BY <1>1 DEF OneReplyPerLine, ReadsAreChecked, BufferIsBounded
<1> QED
  BY <1>3, <1>8, <1>9

\* recv brings the next piece of the stream.
LEMMA FillIInv ==
    ASSUME IInv, FillBuffer
    PROVE  IInv'
<1> USE DEF IInv
<1>1. PICK n \in 1..kReadChunkBytes :
        /\ arrived + n <= Len(sent)
        /\ buffer' = buffer \o SubSeq(sent, arrived + 1, arrived + n)
        /\ arrived' = arrived + n
  BY DEF FillBuffer
<1>2. pc = "recv" /\ pc' = "drain" /\ UNCHANGED <<sent, eof, handled, ends, replies>>
  BY DEF FillBuffer
<1>3. /\ Base \in 0..arrived /\ buffer = SubSeq(sent, Base + 1, arrived)
      /\ Len(buffer) = arrived - Base
  BY BufferProperties
<1>4. /\ n \in Nat /\ Base \in Nat /\ arrived \in Nat /\ arrived + n \in 0..Len(sent)
      /\ Base <= arrived /\ arrived <= arrived + n /\ Base <= arrived + n
  BY <1>1, <1>3, SizesAssumption DEF TypeOK
<1>5. buffer' = SubSeq(sent, Base + 1, arrived + n)
  BY <1>1, <1>3, <1>4, PiecesJoin DEF TypeOK
<1>6. buffer' \in Seq(Byte) /\ Len(buffer') = (arrived + n) - Base
  BY <1>4, <1>5, Piece DEF TypeOK
<1>7. TypeOK'
  BY <1>1, <1>2, <1>4, <1>6 DEF TypeOK
<1>8. \A m : Start(m)' = Start(m)
  BY <1>2 DEF Start
<1>9. \A m \in 1..Len(ends) : ends[m] <= arrived'
  <2>1. ASSUME NEW m \in 1..Len(ends)
        PROVE  ends[m] \in Nat /\ ends[m] <= arrived
    BY SMTT(60) DEF FramingIsExact, TypeOK
  <2> QED
    BY <1>1, <1>4, <2>1
<1>10. buffer' = SubSeq(sent, Start(Len(ends) + 1) + 1, arrived')
  BY <1>1, <1>5 DEF Base
<1>11. FramingIsExact'
  BY <1>2, <1>8, <1>9, <1>10 DEF FramingIsExact
<1>12. OneReplyPerLine' /\ ReadsAreChecked'
  BY <1>2 DEF OneReplyPerLine, ReadsAreChecked
<1>13. BufferIsBounded'
  <2>1. Len(buffer) <= kMaxLineBytes /\ n <= kReadChunkBytes /\ Len(buffer') = Len(buffer) + n
    BY <1>1, <1>2, <1>3, <1>4, <1>6, SizesAssumption DEF ReadsAreChecked
  <2> QED
    BY <1>3, <1>4, <2>1, SizesAssumption DEF BufferIsBounded
<1> QED
  BY <1>7, <1>11, <1>12, <1>13

\* serve looks at the buffer, waits, or gives up; the stream and the lines stay.
LEMMA WaitIInv ==
    ASSUME IInv, CheckLength \/ Disconnected \/ Interrupted \/ Close \/ UNCHANGED vars
    PROVE  IInv'
<1> USE DEF IInv
<1>1. /\ UNCHANGED <<sent, arrived, buffer, handled, ends>>
      /\ eof' \in {eof, TRUE}
      /\ \/ UNCHANGED <<pc, replies>>
         \/ pc # "closed" /\ UNCHANGED replies
            /\ (pc' = "closed" \/ pc' = "drain" \/ (pc' = "recv" /\ Len(buffer) <= kMaxLineBytes))
         \/ pc # "closed" /\ pc' = "closed" /\ replies' = Append(replies, kTooLong)
  <2>1. CASE CheckLength
    <3>1. Len(buffer) \in Nat /\ kMaxLineBytes \in Nat
      BY SizesAssumption DEF TypeOK
    <3> QED
      BY <2>1, <3>1 DEF CheckLength, TooLong
  <2>2. CASE Disconnected \/ Interrupted
    BY <2>2 DEF Disconnected, Interrupted
  <2>3. CASE Close \/ UNCHANGED vars
    BY <2>3 DEF Close, vars
  <2> QED
    BY <2>1, <2>2, <2>3
<1>2. kTooLong \in Answers
  BY DEF Answers
<1>3. replies' = Append(replies, kTooLong) =>
         /\ replies' \in Seq(Answers) /\ Len(replies') = Len(replies) + 1
         /\ \A n \in 1..Len(replies) : replies'[n] = replies[n]
         /\ replies'[Len(replies) + 1] = kTooLong
  BY <1>2, AppendProperties DEF TypeOK
<1>4. TypeOK'
  BY <1>1, <1>3 DEF TypeOK
<1>5. \A m : Start(m)' = Start(m)
  BY <1>1 DEF Start
<1>6. FramingIsExact'
  BY <1>1, <1>5 DEF FramingIsExact
<1>7. OneReplyPerLine'
  <2>1. CASE UNCHANGED <<pc, replies>>
    BY <1>1, <2>1 DEF OneReplyPerLine
  <2>2. CASE pc # "closed" /\ UNCHANGED replies
    BY <1>1, <2>2 DEF OneReplyPerLine
  <2>3. CASE pc # "closed" /\ pc' = "closed" /\ replies' = Append(replies, kTooLong)
    <3>1. Len(replies) = Len(handled) /\ Len(handled) \in Nat
      BY <2>3 DEF OneReplyPerLine, TypeOK
    <3>2. ASSUME NEW n \in 1..Len(replies')
          PROVE  replies'[n] = IF n <= Len(handled) THEN Reply(handled[n]) ELSE kTooLong
      <4>1. CASE n <= Len(handled)
        <5>1. n \in 1..Len(replies)
          BY <3>1, <4>1, <1>3, <2>3
        <5> QED
          BY <1>3, <2>3, <4>1, <5>1 DEF OneReplyPerLine
      <4>2. CASE ~(n <= Len(handled))
        <5>1. n = Len(replies) + 1
          BY <1>3, <2>3, <3>1, <4>2
        <5> QED
          BY <1>3, <2>3, <4>2, <5>1
      <4> QED
        BY <4>1, <4>2
    <3>3. \A n \in 1..Len(handled) : handled[n] # <<"Q">>
      BY <2>3 DEF OneReplyPerLine
    <3> QED
      BY <1>1, <2>3, <3>2, <3>3 DEF OneReplyPerLine
  <2> QED
    BY <1>1, <2>1, <2>2, <2>3
<1>8. ReadsAreChecked' /\ BufferIsBounded'
  BY <1>1 DEF ReadsAreChecked, BufferIsBounded
<1> QED
  BY <1>4, <1>6, <1>7, <1>8

\* The replies there are, and which of them ends the connection.
LEMMA ReplyProperties ==
    ASSUME NEW l
    PROVE  Reply(l) \in Answers /\ (l = <<"Q">> => Reply(l) = "+BYE")
<1>1. <<"P">> # <<"Q">>
  OBVIOUS
<1> QED
  BY <1>1 DEF Reply, Answers

\* serve takes a line off the buffer and answers it.
LEMMA HandleIInv ==
    ASSUME IInv, HandleLine
    PROVE  IInv'
<1> USE DEF IInv
<1> DEFINE n == Newline(buffer)
           line == next_line(buffer).line
           end == Base + n
<1>1. /\ pc = "drain" /\ HasLine(buffer)
      /\ buffer' = next_line(buffer).rest /\ handled' = Append(handled, line)
      /\ ends' = Append(ends, arrived - Len(buffer) + n)
      /\ \/ replies' = Append(replies, Reply(line)) /\ pc' = After(line)
         \/ pc' = "closed" /\ UNCHANGED replies
      /\ UNCHANGED <<sent, arrived, eof>>
  BY DEF HandleLine
<1>2. /\ n \in 1..Len(buffer) /\ buffer[n] = "\n"
      /\ \A j \in 1..n - 1 : buffer[j] # "\n"
  BY <1>1, NewlineProperties DEF TypeOK
<1>3. line = StripCr(SubSeq(buffer, 1, n - 1)) /\ buffer' = SubSeq(buffer, n + 1, Len(buffer))
  BY <1>1 DEF next_line, n, line
<1> HIDE DEF n, line
<1>4. /\ Base \in 0..arrived /\ buffer = SubSeq(sent, Base + 1, arrived)
      /\ Len(buffer) = arrived - Base
      /\ \A j \in 1..Len(buffer) : buffer[j] = sent[Base + j]
  BY BufferProperties
<1>5. /\ Base \in Nat /\ arrived \in Nat /\ arrived <= Len(sent) /\ arrived \in 0..Len(sent) /\ Len(buffer) \in Nat
      /\ n \in Nat /\ n >= 1 /\ n <= arrived - Base /\ Base <= arrived
  BY <1>2, <1>4 DEF TypeOK
<1>6. ends' = Append(ends, end) /\ end \in Nat /\ end <= arrived /\ Base < end
  <2>1. arrived - Len(buffer) + n = end
    BY <1>4, <1>5
  <2>2. end \in Nat /\ end <= arrived /\ Base < end
    BY <1>5
  <2> QED
    BY <1>1, <2>1, <2>2, Zenon
<1>7. line = StripCr(SubSeq(sent, Base + 1, end - 1))
  <2>1. 0 \in Nat /\ n - 1 \in 0..arrived - Base /\ 0 <= n - 1
    BY <1>5
  <2>2. SubSeq(SubSeq(sent, Base + 1, arrived), 0 + 1, n - 1) = SubSeq(sent, (Base + 0) + 1, Base + (n - 1))
    BY <1>5, <2>1, PieceOfPiece DEF TypeOK
  <2>3. 0 + 1 = 1 /\ (Base + 0) + 1 = Base + 1 /\ Base + (n - 1) = end - 1
    BY <1>5
  <2> QED
    BY <1>3, <1>4, <2>2, <2>3
<1>8. buffer' = SubSeq(sent, end + 1, arrived)
  <2>1. arrived - Base \in 0..arrived - Base /\ n <= arrived - Base
    BY <1>5
  <2>2. SubSeq(SubSeq(sent, Base + 1, arrived), n + 1, arrived - Base)
          = SubSeq(sent, (Base + n) + 1, Base + (arrived - Base))
    BY <1>5, <2>1, PieceOfPiece DEF TypeOK
  <2>3. Base + (arrived - Base) = arrived
    BY <1>5
  <2> QED
    BY <1>3, <1>4, <2>2, <2>3
<1>9. sent[end] = "\n" /\ \A j \in Base + 1..end - 1 : sent[j] # "\n"
  <2>1. sent[end] = "\n"
    BY <1>2, <1>4
  <2>2. ASSUME NEW j \in Base + 1..end - 1
        PROVE  sent[j] # "\n"
    <3>1. j - Base \in 1..n - 1 /\ j - Base \in 1..Len(buffer) /\ Base + (j - Base) = j
      BY <1>4, <1>5
    <3> QED
      BY <1>2, <1>4, <3>1
  <2> QED
    BY <2>1, <2>2
<1> HIDE DEF end
<1>10. /\ ends' \in Seq(Nat) /\ Len(ends') = Len(ends) + 1 /\ Len(ends) \in Nat
       /\ \A m \in 1..Len(ends) : ends'[m] = ends[m]
       /\ ends'[Len(ends) + 1] = end
  BY <1>6, AppendProperties DEF TypeOK
<1>11. line \in Seq(Byte)
  <2>1. end - 1 \in 0..Len(sent) /\ Base <= end - 1
    BY <1>5, <1>6
  <2>2. SubSeq(sent, Base + 1, end - 1) \in Seq(Byte)
    BY <1>5, <2>1, Piece DEF TypeOK
  <2> QED
    BY <1>7, <2>2, StripCrType
<1>12. /\ handled' \in Seq(Seq(Byte)) /\ Len(handled') = Len(handled) + 1 /\ Len(handled) \in Nat
       /\ \A m \in 1..Len(handled) : handled'[m] = handled[m]
       /\ handled'[Len(handled) + 1] = line
  BY <1>1, <1>11, AppendProperties DEF TypeOK
<1>13. Len(ends) = Len(handled)
  BY DEF FramingIsExact
<1>14. buffer' \in Seq(Byte) /\ Len(buffer') = arrived - end
  <2>1. sent \in Seq(Byte)
    BY DEF TypeOK
  <2>2. /\ SubSeq(sent, end + 1, arrived) \in Seq(Byte)
        /\ Len(SubSeq(sent, end + 1, arrived)) = arrived - end
    BY <1>5, <1>6, <2>1, Piece
  <2> QED
    BY <1>8, <2>2, Zenon
<1>15. Reply(line) \in Answers /\ (line = <<"Q">> => Reply(line) = "+BYE")
  BY ReplyProperties
<1>16. replies' = Append(replies, Reply(line)) =>
         /\ replies' \in Seq(Answers) /\ Len(replies') = Len(replies) + 1
         /\ \A m \in 1..Len(replies) : replies'[m] = replies[m]
         /\ replies'[Len(replies) + 1] = Reply(line)
  BY <1>15, AppendProperties DEF TypeOK
<1>17. After(line) = (IF Reply(line) = "+BYE" THEN "closed" ELSE "drain")
  BY DEF After
<1>18. TypeOK'
  BY <1>1, <1>10, <1>12, <1>14, <1>16, <1>17 DEF TypeOK
<1>19. FramingIsExact'
  <2>1. \A m \in 1..Len(ends) + 1 : Start(m)' = Start(m)
    <3>1. \A m \in 1..Len(ends) + 1 : m # 1 => m - 1 \in 1..Len(ends)
      BY <1>10
    <3> QED
      BY <1>10, <3>1 DEF Start
  <2>2. ASSUME NEW m, m = Len(ends) + 1
        PROVE  Start(m)' = Base
    BY <1>10, <2>1, <2>2 DEF Base
  <2>4. ASSUME NEW m \in 1..Len(ends')
        PROVE  /\ Start(m)' < ends'[m] /\ ends'[m] <= arrived'
               /\ sent'[ends'[m]] = "\n"
               /\ \A j \in Start(m)' + 1..ends'[m] - 1 : sent'[j] # "\n"
               /\ handled'[m] = StripCr(SubSeq(sent', Start(m)' + 1, ends'[m] - 1))
    <3>1. CASE m \in 1..Len(ends)
      <4>1. Start(m)' = Start(m) /\ ends'[m] = ends[m] /\ handled'[m] = handled[m]
        BY <1>10, <1>12, <1>13, <2>1, <3>1
      <4> QED
        BY <1>1, <3>1, <4>1 DEF FramingIsExact
    <3>2. CASE m = Len(ends) + 1
      <4>1. Start(m)' = Base /\ ends'[m] = end /\ handled'[m] = line
        BY <1>10, <1>12, <1>13, <2>2, <3>2
      <4> QED
        BY <1>1, <1>6, <1>7, <1>9, <4>1
    <3> QED
      BY <1>10, <3>1, <3>2
  <2>3. (buffer = SubSeq(sent, Start(Len(ends) + 1) + 1, arrived))'
    <3>1. Len(ends') + 1 # 1 /\ (Len(ends') + 1) - 1 = Len(ends) + 1
      BY <1>10
    <3>2. (Start(Len(ends) + 1))' = end
      BY <1>10, <3>1 DEF Start
    <3> QED
      BY <1>1, <1>8, <3>2
  <2>5. Len(ends') = Len(handled')
    BY <1>10, <1>12, <1>13
  <2> QED
    BY <2>3, <2>4, <2>5 DEF FramingIsExact
<1>20. OneReplyPerLine'
  <2>1. Len(replies) = Len(handled) /\ \A m \in 1..Len(handled) : handled[m] # <<"Q">>
    BY <1>1 DEF OneReplyPerLine
  <2>2. ASSUME NEW m \in 1..Len(replies')
        PROVE  replies'[m] = IF m <= Len(handled') THEN Reply(handled'[m]) ELSE kTooLong
    <3>1. CASE m \in 1..Len(replies)
      <4>1. replies'[m] = replies[m] /\ handled'[m] = handled[m] /\ m <= Len(handled) /\ m <= Len(handled')
        BY <1>1, <1>12, <1>16, <2>1, <3>1
      <4> QED
        BY <3>1, <4>1 DEF OneReplyPerLine
    <3>2. CASE m = Len(replies) + 1 /\ replies' = Append(replies, Reply(line))
      BY <1>12, <1>16, <2>1, <3>2
    <3> QED
      BY <1>1, <1>12, <1>16, <2>1, <3>1, <3>2
  <2>3. pc' # "closed" => Len(replies') = Len(handled')
    BY <1>1, <1>12, <1>16, <2>1
  <2>4. ASSUME NEW m \in 1..Len(handled'), handled'[m] = <<"Q">>
        PROVE  m = Len(handled') /\ pc' = "closed"
    <3>1. m \notin 1..Len(handled)
      BY <1>12, <2>1, <2>4
    <3>2. m = Len(handled) + 1
      BY <1>12, <3>1
    <3> QED
      BY <1>1, <1>12, <1>15, <1>17, <2>4, <3>2
  <2> QED
    BY <2>2, <2>3, <2>4 DEF OneReplyPerLine
<1>21. ReadsAreChecked'
  BY <1>1, <1>17 DEF ReadsAreChecked
<1>22. BufferIsBounded'
  <2>1. Len(buffer') <= Len(buffer) /\ Len(buffer') \in Nat
    BY <1>4, <1>5, <1>6, <1>14
  <2> QED
    BY <1>5, <2>1, SizesAssumption DEF BufferIsBounded
<1> QED
  BY <1>18, <1>19, <1>20, <1>21, <1>22

\* The invariant is inductive.
LEMMA NextIInv == IInv /\ [Next]_vars => IInv'
  BY SendIInv, FillIInv, WaitIInv, HandleIInv DEF Next, serve, Closed

LEMMA Inductive == Spec => []IInv
  BY InitIInv, NextIInv, PTL DEF Spec

-----------------------------------------------------------------------------
\* However recv cuts up the stream, the lines handled are exactly its lines.
THEOREM FramingTheorem == Spec => []FramingIsExact
  BY Inductive, PTL DEF IInv

\* Every line is answered once and in order, and nothing after QUIT is looked at.
THEOREM ReplyTheorem == Spec => []OneReplyPerLine
  BY Inductive, PTL DEF IInv

\* The buffer never holds more than the limit and one read.
THEOREM BoundTheorem == Spec => []BufferIsBounded
  BY Inductive, PTL DEF IInv
=============================================================================
