-------------------------- MODULE ConnectionProofs --------------------------
(***************************************************************************)
(* The writer of a connection never sleeps while a message waits, nothing  *)
(* is lost on the way until the connection fails, and the other end sees a *)
(* FIFO channel whatever happens; a dial is given up early only with a     *)
(* message stranded.  All of it for every set of messages, any number of   *)
(* them and of endpoints.                                                  *)
(***************************************************************************)
EXTENDS AsioClient, FoldProofs

\* WriterIsAwake with the types that its preservation needs
WriterInvariant ==
  /\ posted \in Seq(Messages)
  /\ queue \in Seq(Messages)
  /\ WriterIsAwake

\* WriteNext leaves the writer awake exactly when q holds a message.
LEMMA WriteNextWakes ==
  ASSUME NEW q, WriteNext(q)
  PROVE  /\ q # <<>> <=> writing' # "None"
         /\ writing' = "None" => unsent' = <<>>
BY DEF WriteNext

\* Each posted lambda, write handler and failure keeps the invariant.
LEMMA WriterStep ==
  ASSUME WriterInvariant, [Next]_vars
  PROVE  WriterInvariant'
<1> USE DEF WriterInvariant, WriterIsAwake
<1>1. ASSUME NEW m \in Messages, Send(m)
      PROVE  WriterInvariant'
  BY <1>1 DEF Send
<1>2. CASE RunPosted
  <2>1. /\ posted' \in Seq(Messages)
        /\ queue' \in Seq(Messages)
        /\ queue' # <<>>
    BY <1>2 DEF RunPosted
  <2>2. CASE queue = <<>>
    BY <1>2, <2>1, <2>2, WriteNextWakes DEF RunPosted
  <2>3. CASE queue # <<>>
    BY <1>2, <2>1, <2>3 DEF RunPosted
  <2> QED
    BY <2>2, <2>3
<1>3. CASE Transmit
  BY <1>3 DEF Transmit
<1>4. CASE Written
  <2>1. CASE writing = "Header" /\ Len(Head(queue).body) > 0
    BY <1>4, <2>1 DEF Written
  <2>2. CASE ~(writing = "Header" /\ Len(Head(queue).body) > 0)
    <3>1. queue' = Tail(queue) /\ WriteNext(queue')
      BY <1>4, <2>2 DEF Written
    <3>2. queue' \in Seq(Messages)
      BY <1>4, <3>1 DEF Written
    <3> QED
      BY <1>4, <3>1, <3>2, WriteNextWakes DEF Written
  <2> QED
    BY <2>1, <2>2
<1>5. CASE WriteFails
  BY <1>5 DEF WriteFails
<1>6. CASE ReadingThread
  BY <1>6 DEF ReadingThread, HeaderRead, BodyRead, ReadFails, sender
<1>7. CASE Failure
  BY <1>7 DEF Failure, CloseSender, CloseReceiver, Reset, sender
<1>8. CASE UNCHANGED vars
  BY <1>8 DEF vars, sender
<1> QED
  BY <1>1, <1>2, <1>3, <1>4, <1>5, <1>6, <1>7, <1>8 DEF Next, SendingThread

\* As long as the socket of the sending end is open, a message that waits in
\* m_qMessagesOut has a write outstanding that will get to it, and the write
\* that is outstanding is of the message at its front.
THEOREM WriterAlwaysAwake == Spec => []WriterIsAwake
<1>1. Init => WriterInvariant
  BY DEF Init, WriterInvariant, WriterIsAwake
<1>2. WriterInvariant /\ [Next]_vars => WriterInvariant'
  BY WriterStep
<1>3. WriterInvariant => WriterIsAwake
  BY DEF WriterInvariant
<1> QED
  BY <1>1, <1>2, <1>3, PTL DEF Spec

-----------------------------------------------------------------------------
(* What the messages look like on the stream                               *)

Cells == {HeaderOf(m) : m \in Messages} \cup UNION {Range(m.body) : m \in Messages}

Encodings(msgs) == [i \in 1..Len(msgs) |-> Encode(msgs[i])]

LEMMA MessageFacts ==
  ASSUME NEW m \in Messages
  PROVE  /\ m = [type |-> m.type, body |-> m.body]
         /\ m.body \in Seq(Cells) /\ Len(m.body) \in Nat
         /\ HeaderOf(m) \in Cells
         /\ Encode(m) \in Seq(Cells) /\ Encode(m) = <<HeaderOf(m)>> \o m.body
  <1>1. HeaderOf(m) \in Cells /\ Range(m.body) \subseteq Cells
    BY DEF Cells
  <1>2. m = [type |-> m.type, body |-> m.body] /\ m.body \in Seq(Range(m.body))
    BY MessagesAssumption
  <1>3. m.body \in Seq(Cells)
    BY <1>1, <1>2, SeqMonotonic
  <1>4. <<HeaderOf(m)>> \in Seq(Cells)
    BY <1>1
  <1>5. Encode(m) \in Seq(Cells)
    <2> DEFINE h == <<HeaderOf(m)>>
               b == m.body
    <2>1. h \in Seq(Cells) /\ b \in Seq(Cells)
      BY <1>3, <1>4
    <2> HIDE DEF h, b
    <2>2. h \o b \in Seq(Cells)
      BY <2>1, ConcatProperties
    <2> QED
      BY <2>2 DEF h, b, Encode
  <1> QED
    BY <1>1, <1>2, <1>3, <1>5, LenProperties DEF Encode

LEMMA OneCell ==
  ASSUME NEW c \in Cells
  PROVE  <<c>> \in Seq(Cells)
  OBVIOUS

LEMMA OneHeader ==
  ASSUME NEW m \in Messages
  PROVE  <<HeaderOf(m)>> \in Seq(Cells)
  BY MessageFacts, OneCell

LEMMA EncodingsFacts ==
  ASSUME NEW msgs \in Seq(Messages)
  PROVE  /\ Encodings(msgs) \in Seq(Seq(Cells))
         /\ Len(Encodings(msgs)) = Len(msgs)
         /\ Stream(msgs) = FlattenSeq(Encodings(msgs))
  <1>1. Len(msgs) \in Nat /\ \A i \in 1..Len(msgs) : msgs[i] \in Messages
    BY LenProperties
  <1>2. \A i \in 1..Len(msgs) : Encode(msgs[i]) \in Seq(Cells)
    BY <1>1, MessageFacts
  <1> QED
    BY <1>1, <1>2 DEF Encodings, Stream

LEMMA StreamType ==
  ASSUME NEW msgs \in Seq(Messages)
  PROVE  Stream(msgs) \in Seq(Cells)
  BY EncodingsFacts, FlattenType

LEMMA StreamNothing == Stream(<<>>) = <<>>
  <1>1. Len(<<>>) = 0
    OBVIOUS
  <1>2. Encodings(<<>>) = <<>>
    BY <1>1 DEF Encodings
  <1> QED
    BY <1>2, FlattenNothing DEF Stream, Encodings

\* The stream of two groups of messages is that of the one, then of the other.
LEMMA StreamConcat ==
  ASSUME NEW s \in Seq(Messages), NEW t \in Seq(Messages)
  PROVE  Stream(s \o t) = Stream(s) \o Stream(t)
  <1> DEFINE e == Encodings(s)
             d == Encodings(t)
  <1>1. /\ s \o t \in Seq(Messages) /\ Len(s \o t) = Len(s) + Len(t)
        /\ Len(s) \in Nat /\ Len(t) \in Nat
        /\ \A i \in 1..Len(s) + Len(t) :
             (s \o t)[i] = IF i <= Len(s) THEN s[i] ELSE t[i - Len(s)]
    BY ConcatProperties, LenProperties
  <1>2. /\ e \in Seq(Seq(Cells)) /\ Len(e) = Len(s)
        /\ d \in Seq(Seq(Cells)) /\ Len(d) = Len(t)
        /\ \A i \in 1..Len(s) : e[i] = Encode(s[i])
        /\ \A i \in 1..Len(t) : d[i] = Encode(t[i])
    BY EncodingsFacts DEF Encodings
  <1>3. Stream(s) = FlattenSeq(e) /\ Stream(t) = FlattenSeq(d)
    BY EncodingsFacts
  <1> DEFINE c == Encodings(s \o t)
  <1>4. /\ c \in Seq(Seq(Cells)) /\ Len(c) = Len(s) + Len(t)
        /\ Stream(s \o t) = FlattenSeq(c)
        /\ \A i \in 1..Len(s) + Len(t) : c[i] = Encode((s \o t)[i])
    <2>1. Stream(s \o t) = FlattenSeq(c) /\ c \in Seq(Seq(Cells))
      BY <1>1, EncodingsFacts
    <2>2. c = [i \in 1..(Len(s) + Len(t)) |-> Encode((s \o t)[i])]
      BY <1>1 DEF Encodings
    <2> HIDE DEF c
    <2> QED
      BY <1>1, <2>1, <2>2
  <1> HIDE DEF e, d, c
  <1>5. c = e \o d
    <2> DEFINE W == Seq(Cells)
    <2>0. e \in Seq(W) /\ d \in Seq(W)
      BY <1>2
    <2> HIDE DEF W
    <2>1. /\ e \o d \in Seq(W) /\ Len(e \o d) = Len(s) + Len(t)
          /\ \A i \in 1..Len(s) + Len(t) :
               (e \o d)[i] = IF i <= Len(s) THEN e[i] ELSE d[i - Len(s)]
      <3>1. /\ e \o d \in Seq(W) /\ Len(e \o d) = Len(e) + Len(d)
            /\ \A i \in 1..Len(e) + Len(d) :
                 (e \o d)[i] = IF i <= Len(e) THEN e[i] ELSE d[i - Len(e)]
        BY <2>0, ConcatProperties
      <3> QED
        BY <1>2, <3>1
    <2>2. ASSUME NEW i \in 1..Len(s) + Len(t) PROVE c[i] = (e \o d)[i]
      <3>1. c[i] = Encode((s \o t)[i])
        BY <1>4
      <3>2. CASE i <= Len(s)
        <4>1. i \in 1..Len(s)
          BY <1>1, <3>2
        <4>2. (e \o d)[i] = Encode(s[i]) /\ (s \o t)[i] = s[i]
          BY <1>1, <1>2, <2>1, <3>2, <4>1
        <4> QED
          BY <3>1, <4>2
      <3>3. CASE ~(i <= Len(s))
        <4>1. i - Len(s) \in 1..Len(t)
          BY <1>1, <3>3
        <4>2. (e \o d)[i] = Encode(t[i - Len(s)]) /\ (s \o t)[i] = t[i - Len(s)]
          BY <1>1, <1>2, <2>1, <3>3, <4>1
        <4> QED
          BY <3>1, <4>2
      <3> QED
        BY <3>2, <3>3
    <2>3. c \in Seq(W)
      BY <1>4 DEF W
    <2> QED
      BY <1>4, <2>1, <2>2, <2>3, SeqEqual
  <1> QED
    BY <1>2, <1>3, <1>4, <1>5, FlattenConcat

LEMMA StreamOne ==
  ASSUME NEW m \in Messages
  PROVE  Stream(<<m>>) = Encode(m)
  <1>1. Encode(m) \in Seq(Cells) /\ <<>> \in Seq(Seq(Cells))
    BY MessageFacts, EmptySeq
  <1>2. FlattenSeq(Append(<<>>, Encode(m))) = FlattenSeq(<<>>) \o Encode(m)
    BY <1>1, FlattenAppend
  <1>3. Encodings(<<m>>) = Append(<<>>, Encode(m))
    BY DEF Encodings
  <1> QED
    BY <1>1, <1>2, <1>3, FlattenNothing, ConcatEmptySeq DEF Stream, Encodings

LEMMA StreamAppend ==
  ASSUME NEW msgs \in Seq(Messages), NEW m \in Messages
  PROVE  Stream(Append(msgs, m)) = Stream(msgs) \o Encode(m)
  <1>1. <<m>> \in Seq(Messages) /\ Append(msgs, m) = msgs \o <<m>>
    BY AppendIsConcat
  <1> QED
    BY <1>1, StreamConcat, StreamOne

LEMMA StreamFirst ==
  ASSUME NEW msgs \in Seq(Messages), msgs # <<>>
  PROVE  /\ Head(msgs) \in Messages /\ Tail(msgs) \in Seq(Messages)
         /\ Stream(msgs) = Encode(Head(msgs)) \o Stream(Tail(msgs))
  <1>1. /\ Head(msgs) \in Messages /\ Tail(msgs) \in Seq(Messages)
        /\ msgs = <<Head(msgs)>> \o Tail(msgs)
    OBVIOUS
  <1>2. <<Head(msgs)>> \in Seq(Messages)
    BY <1>1
  <1> QED
    BY <1>1, <1>2, StreamConcat, StreamOne

-----------------------------------------------------------------------------
(* What the reading end makes of it                                        *)

SameCells(w, t, v, r) == w \o t = v \o r

LEMMA ConsParts ==
  ASSUME NEW V, NEW w \in Seq(V), NEW t \in Seq(V), NEW c \in V, NEW r \in Seq(V),
         SameCells(w, t, <<c>>, r), w # <<>>
  PROVE  Head(w) = c /\ SameCells(Tail(w), t, <<>>, r)
  <1>1. /\ Head(w) \in V /\ Tail(w) \in Seq(V) /\ w = <<Head(w)>> \o Tail(w)
        /\ <<Head(w)>> \in Seq(V) /\ <<c>> \in Seq(V)
    OBVIOUS
  <1>2. w \o t = <<Head(w)>> \o (Tail(w) \o t) /\ Tail(w) \o t \in Seq(V)
    BY <1>1, ConcatAssociative, ConcatProperties
  <1>3. Head(<<Head(w)>> \o (Tail(w) \o t)) = Head(w) /\ Head(<<c>> \o r) = c
    BY <1>1, <1>2
  <1>4. Tail(<<Head(w)>> \o (Tail(w) \o t)) = Tail(w) \o t /\ Tail(<<c>> \o r) = r
    BY <1>1, <1>2
  <1>5. <<>> \o r = r
    OBVIOUS
  <1> QED
    BY <1>2, <1>3, <1>4, <1>5 DEF SameCells

\* When no message is partly read, the stream goes on with the header of the
\* first message that has not arrived.
LEMMA HeaderFits ==
  ASSUME NEW rest \in Seq(Messages), NEW w \in Seq(Cells), NEW t \in Seq(Cells),
         w \o t = Stream(rest), w # <<>>
  PROVE  /\ rest # <<>>
         /\ Head(w) = HeaderOf(Head(rest))
         /\ Tail(w) \o t = Head(rest).body \o Stream(Tail(rest))
  <1>1. rest # <<>>
    BY StreamNothing, ConcatEqualIffEmpty
  <1>2. /\ Head(rest) \in Messages /\ Tail(rest) \in Seq(Messages)
        /\ Stream(rest) = Encode(Head(rest)) \o Stream(Tail(rest))
    BY <1>1, StreamFirst
  <1> DEFINE h == HeaderOf(Head(rest))
             b == Head(rest).body
             r == Stream(Tail(rest))
  <1>3. h \in Cells /\ b \in Seq(Cells) /\ r \in Seq(Cells)
        /\ Encode(Head(rest)) = <<h>> \o b
    BY <1>2, MessageFacts, StreamType
  <1>4. Stream(rest) = (<<h>> \o b) \o r
    BY <1>2, <1>3
  <1> HIDE DEF h, b, r
  <1>5. <<h>> \in Seq(Cells) /\ b \o r \in Seq(Cells)
    BY <1>3, ConcatProperties
  <1>6. Regroup(<<h>>, b, r)
    BY <1>3, <1>5, Associative, Zenon
  <1>7. SameCells(w, t, <<h>>, b \o r)
    BY <1>4, <1>6 DEF Regroup, SameCells
  <1>8. Head(w) = h /\ Tail(w) \o t = b \o r
    <2>1. Head(w) = h /\ SameCells(Tail(w), t, <<>>, b \o r)
      BY <1>3, <1>5, <1>7, ConsParts
    <2>2. <<>> \o (b \o r) = b \o r
      BY <1>5
    <2> QED
      BY <2>1, <2>2 DEF SameCells
  <1> QED
    BY <1>1, <1>8 DEF h, b, r

LEMMA PrefixParts ==
  ASSUME NEW V, NEW w \in Seq(V), NEW t \in Seq(V), NEW b \in Seq(V), NEW r \in Seq(V),
         w \o t = b \o r, Len(w) = Len(b)
  PROVE  w = b /\ t = r
  <1>1. w = b
    <2>1. \A i \in 1..Len(w) : (w \o t)[i] = w[i] /\ (b \o r)[i] = b[i]
      BY ConcatProperties, LenProperties
    <2> QED
      BY <2>1, SeqEqual
  <1>2. t = r
    BY <1>1, ConcatSimplifications
  <1> QED
    BY <1>1, <1>2

\* When a header has been read, the stream goes on with the body it announces.
LEMMA BodyFits ==
  ASSUME NEW rest \in Seq(Messages), NEW w \in Seq(Cells), NEW t \in Seq(Cells),
         NEW h, <<h>> \o (w \o t) = Stream(rest), h.size <= Len(w)
  PROVE  /\ rest # <<>>
         /\ h = HeaderOf(Head(rest))
         /\ SubSeq(w, 1, h.size) = Head(rest).body
         /\ SubSeq(w, h.size + 1, Len(w)) \o t = Stream(Tail(rest))
  <1>1. rest # <<>>
    BY StreamNothing
  <1>2. /\ Head(rest) \in Messages /\ Tail(rest) \in Seq(Messages)
        /\ Stream(rest) = Encode(Head(rest)) \o Stream(Tail(rest))
    BY <1>1, StreamFirst
  <1> DEFINE g == HeaderOf(Head(rest))
             b == Head(rest).body
             r == Stream(Tail(rest))
  <1>3. g \in Cells /\ b \in Seq(Cells) /\ r \in Seq(Cells) /\ Len(b) \in Nat
        /\ Encode(Head(rest)) = <<g>> \o b /\ g.size = Len(b)
    BY <1>2, MessageFacts, StreamType DEF HeaderOf
  <1>4. Stream(rest) = (<<g>> \o b) \o r
    BY <1>2, <1>3
  <1> HIDE DEF g, b, r
  <1>5. <<g>> \in Seq(Cells) /\ b \o r \in Seq(Cells) /\ w \o t \in Seq(Cells)
    BY <1>3, ConcatProperties
  <1>6. Regroup(<<g>>, b, r)
    BY <1>3, <1>5, Associative, Zenon
  <1>7. <<h>> \o (w \o t) = <<g>> \o (b \o r)
    BY <1>4, <1>6 DEF Regroup
  <1>8. h = g /\ w \o t = b \o r
    <2>1. Head(<<h>> \o (w \o t)) = h /\ Head(<<g>> \o (b \o r)) = g
      BY <1>5
    <2>2. Tail(<<h>> \o (w \o t)) = w \o t /\ Tail(<<g>> \o (b \o r)) = b \o r
      BY <1>5, SMTT(30)
    <2> QED
      BY <1>7, <2>1, <2>2
  <1> DEFINE n == h.size
             u == SubSeq(w, 1, n)
             v == SubSeq(w, n + 1, Len(w))
  <1>9. n \in 0..Len(w) /\ n = Len(b)
    BY <1>3, <1>8, LenProperties
  <1>10. u \in Seq(Cells) /\ v \in Seq(Cells) /\ Len(u) = n /\ w = u \o v
    BY <1>9, SplitFirst
  <1> HIDE DEF n, u, v
  <1>11. Regroup(u, v, t)
    BY <1>10, Associative, Zenon
  <1>12. u \o (v \o t) = b \o r /\ v \o t \in Seq(Cells)
    BY <1>8, <1>10, <1>11, ConcatProperties DEF Regroup
  <1>13. u = b /\ v \o t = r
    BY <1>3, <1>9, <1>10, <1>12, PrefixParts
  <1> QED
    BY <1>1, <1>8, <1>13 DEF g, b, r, n, u, v

-----------------------------------------------------------------------------
(* What the sending end has still to write                                 *)

\* Remaining, as a function of the writer's state
Left(w, u, q) ==
  CASE w = "Header" -> u \o Head(q).body \o Stream(Tail(q))
    [] w = "Body"   -> u \o Stream(Tail(q))
    [] OTHER        -> Stream(q)

WriterState(w, u, q) ==
  /\ w \in {"None", "Header", "Body"} /\ u \in Seq(Cells) /\ q \in Seq(Messages)
  /\ w # "None" => q # <<>>

LEMMA LeftCases ==
  \A u, q :
    /\ Left("Header", u, q) = (u \o Head(q).body) \o Stream(Tail(q))
    /\ Left("Body", u, q) = u \o Stream(Tail(q))
    /\ Left("None", u, q) = Stream(q)
  BY DEF Left

LEMMA FrontFacts ==
  ASSUME NEW w, NEW u, NEW q, WriterState(w, u, q), w # "None"
  PROVE  /\ Head(q) \in Messages /\ Tail(q) \in Seq(Messages)
         /\ Head(q).body \in Seq(Cells) /\ Stream(Tail(q)) \in Seq(Cells)
         /\ Stream(q) = Encode(Head(q)) \o Stream(Tail(q))
         /\ w = "Header" => Left(w, u, q) = u \o (Head(q).body \o Stream(Tail(q)))
  <1>1. q \in Seq(Messages) /\ q # <<>> /\ u \in Seq(Cells)
    BY DEF WriterState
  <1>2. /\ Head(q) \in Messages /\ Tail(q) \in Seq(Messages)
        /\ Stream(q) = Encode(Head(q)) \o Stream(Tail(q))
    BY <1>1, StreamFirst
  <1>3. Head(q).body \in Seq(Cells) /\ Stream(Tail(q)) \in Seq(Cells)
    BY <1>2, MessageFacts, StreamType
  <1>4. Regroup(u, Head(q).body, Stream(Tail(q)))
    BY <1>1, <1>3, Associative, Zenon
  <1>5. Left("Header", u, q) = (u \o Head(q).body) \o Stream(Tail(q))
    BY LeftCases, Zenon
  <1> QED
    BY <1>2, <1>3, <1>4, <1>5 DEF Regroup

LEMMA LeftType ==
  ASSUME NEW w, NEW u, NEW q, WriterState(w, u, q)
  PROVE  Left(w, u, q) \in Seq(Cells)
  <1>1. q \in Seq(Messages) /\ u \in Seq(Cells) /\ w \in {"None", "Header", "Body"}
    BY DEF WriterState
  <1>2. CASE w = "None"
    BY <1>1, <1>2, LeftCases, StreamType
  <1>3. CASE w # "None"
    <2> DEFINE b == Head(q).body
               r == Stream(Tail(q))
    <2>1. b \in Seq(Cells) /\ r \in Seq(Cells)
      BY <1>3, FrontFacts
    <2>2. w = "Header" => Left(w, u, q) = u \o (b \o r)
      BY <1>3, FrontFacts
    <2>3. w = "Body" => Left(w, u, q) = u \o r
      BY LeftCases
    <2> HIDE DEF b, r
    <2>4. u \o r \in Seq(Cells) /\ b \o r \in Seq(Cells)
      BY <1>1, <2>1, ConcatProperties
    <2>5. u \o (b \o r) \in Seq(Cells)
      BY <1>1, <2>4, ConcatProperties
    <2> QED
      BY <1>1, <1>3, <2>2, <2>3, <2>4, <2>5
  <1> QED
    BY <1>2, <1>3

\* Nothing is left out when the write of a header is followed by that of the
\* body, or a write begins.
LEMMA LeftBody ==
  ASSUME NEW u, NEW q, WriterState("Header", <<>>, q)
  PROVE  /\ Left("Header", <<>>, q) = Left("Body", Head(q).body, q)
         /\ Head(q).body = <<>> => Left("Header", <<>>, q) = Stream(Tail(q))
  <1> DEFINE b == Head(q).body
             r == Stream(Tail(q))
  <1>1. b \in Seq(Cells) /\ r \in Seq(Cells) /\ Left("Header", <<>>, q) = <<>> \o (b \o r)
    BY FrontFacts
  <1>2. Left("Body", b, q) = b \o r
    BY LeftCases
  <1> HIDE DEF b, r
  <1>3. b \o r \in Seq(Cells)
    BY <1>1, ConcatProperties
  <1>4. <<>> \o (b \o r) = b \o r /\ <<>> \o r = r
    BY <1>1, <1>3, ConcatEmptySeq
  <1> QED
    BY <1>1, <1>2, <1>4 DEF b, r

LEMMA LeftNext ==
  ASSUME NEW q \in Seq(Messages), q # <<>>
  PROVE  Left("Header", <<HeaderOf(Head(q))>>, q) = Stream(q)
  <1>1. /\ Head(q) \in Messages
        /\ Stream(q) = Encode(Head(q)) \o Stream(Tail(q))
    BY StreamFirst
  <1>2. Encode(Head(q)) = <<HeaderOf(Head(q))>> \o Head(q).body
    BY <1>1, MessageFacts
  <1>3. Left("Header", <<HeaderOf(Head(q))>>, q)
          = (<<HeaderOf(Head(q))>> \o Head(q).body) \o Stream(Tail(q))
    BY LeftCases, Zenon
  <1> QED
    BY <1>1, <1>2, <1>3

\* A message that joins the queue is written after what is left.
LEMMA LeftAppend ==
  ASSUME NEW w, NEW u, NEW q, WriterState(w, u, q), NEW m \in Messages
  PROVE  Left(w, u, Append(q, m)) = Left(w, u, q) \o Encode(m)
  <1>1. q \in Seq(Messages) /\ u \in Seq(Cells) /\ w \in {"None", "Header", "Body"}
        /\ Encode(m) \in Seq(Cells)
    BY MessageFacts DEF WriterState
  <1>2. CASE w = "None"
    <2>1. Left(w, u, Append(q, m)) = Stream(Append(q, m)) /\ Left(w, u, q) = Stream(q)
      BY <1>2, LeftCases
    <2> QED
      BY <1>1, <2>1, StreamAppend
  <1>3. CASE w # "None"
    <2> DEFINE b == Head(q).body
               r == Stream(Tail(q))
               e == Encode(m)
               p == Append(q, m)
    <2>1. b \in Seq(Cells) /\ r \in Seq(Cells) /\ Tail(q) \in Seq(Messages)
      BY <1>3, FrontFacts
    <2>2. q # <<>>
      BY <1>3 DEF WriterState
    <2>3. Head(p) = Head(q) /\ Tail(p) = Append(Tail(q), m)
      BY <1>1, <2>2, HeadTailAppend
    <2>4. Stream(Tail(p)) = r \o e
      BY <2>1, <2>3, StreamAppend
    <2>5. w = "Header" => /\ Left(w, u, p) = (u \o b) \o (r \o e)
                          /\ Left(w, u, q) = (u \o b) \o r
      <3>1. Left("Header", u, p) = (u \o Head(p).body) \o Stream(Tail(p))
        BY LeftCases, Zenon
      <3>2. Left("Header", u, q) = (u \o b) \o r
        BY LeftCases, Zenon
      <3> QED
        BY <2>3, <2>4, <3>1, <3>2
    <2>6. w = "Body" => Left(w, u, p) = u \o (r \o e) /\ Left(w, u, q) = u \o r
      <3>1. Left("Body", u, p) = u \o Stream(Tail(p)) /\ Left("Body", u, q) = u \o r
        BY LeftCases, Zenon
      <3> QED
        BY <2>4, <3>1
    <2> HIDE DEF b, r, e
    <2>7. e \in Seq(Cells) /\ u \o b \in Seq(Cells)
      BY <1>1, <2>1, ConcatProperties DEF e
    <2>8. Regroup(u \o b, r, e) /\ Regroup(u, r, e)
      BY <1>1, <2>1, <2>7, Associative, Zenon
    <2>9. w = "Header" \/ w = "Body"
      BY <1>1, <1>3
    <2> QED
      BY <2>5, <2>6, <2>8, <2>9 DEF Regroup, e
  <1> QED
    BY <1>2, <1>3

\* What the stream takes of the buffer is no longer left.
LEMMA LeftTransmit ==
  ASSUME NEW w, NEW u, NEW q, WriterState(w, u, q), w # "None", u # <<>>
  PROVE  /\ Left(w, u, q) = <<Head(u)>> \o Left(w, Tail(u), q)
         /\ WriterState(w, Tail(u), q) /\ Head(u) \in Cells
  <1>1. u \in Seq(Cells) /\ w \in {"None", "Header", "Body"}
    BY DEF WriterState
  <1>2. /\ Head(u) \in Cells /\ <<Head(u)>> \in Seq(Cells) /\ Tail(u) \in Seq(Cells)
        /\ u = <<Head(u)>> \o Tail(u)
    BY <1>1
  <1>3. WriterState(w, Tail(u), q)
    BY <1>2 DEF WriterState
  <1> DEFINE c == <<Head(u)>>
             v == Tail(u)
             b == Head(q).body
             r == Stream(Tail(q))
  <1>4. b \in Seq(Cells) /\ r \in Seq(Cells)
    BY FrontFacts
  <1>5. w = "Header" => Left(w, u, q) = u \o (b \o r) /\ Left(w, v, q) = v \o (b \o r)
    BY <1>3, FrontFacts
  <1>6. w = "Body" => Left(w, u, q) = u \o r /\ Left(w, v, q) = v \o r
    <2>1. Left("Body", u, q) = u \o r /\ Left("Body", v, q) = v \o r
      BY LeftCases, Zenon
    <2> QED
      BY <2>1
  <1>7. u = c \o v /\ c \in Seq(Cells) /\ v \in Seq(Cells)
    BY <1>2
  <1> HIDE DEF c, v, b, r
  <1>8. b \o r \in Seq(Cells)
    BY <1>4, ConcatProperties
  <1>9. Regroup(c, v, b \o r) /\ Regroup(c, v, r)
    BY <1>4, <1>7, <1>8, Associative, Zenon
  <1>10. Left(w, u, q) = c \o Left(w, v, q)
    BY <1>1, <1>5, <1>6, <1>7, <1>9 DEF Regroup
  <1> QED
    BY <1>2, <1>3, <1>10 DEF c, v

-----------------------------------------------------------------------------
(* What is on its way                                                      *)

\* What has been read of a message, p, what the stream holds, w, and what
\* follows it, t, are the stream of rest.
OnTheWay(p, w, t, rest) == p \o (w \o t) = Stream(rest)

WayState(p, w, t, rest) ==
  /\ p \in Seq(Cells) /\ w \in Seq(Cells) /\ t \in Seq(Cells) /\ rest \in Seq(Messages)
  /\ OnTheWay(p, w, t, rest)

LEMMA WayFacts ==
  ASSUME NEW p, NEW w, NEW t, NEW rest, WayState(p, w, t, rest)
  PROVE  /\ p \in Seq(Cells) /\ w \in Seq(Cells) /\ t \in Seq(Cells)
         /\ rest \in Seq(Messages)
         /\ p \o (w \o t) = Stream(rest)
  BY DEF WayState, OnTheWay

\* Another message is sent.
LEMMA WaySend ==
  ASSUME NEW p, NEW w, NEW t, NEW rest, WayState(p, w, t, rest), NEW m \in Messages
  PROVE  WayState(p, w, t \o Encode(m), Append(rest, m))
  <1> DEFINE e == Encode(m)
  <1>1. /\ p \in Seq(Cells) /\ w \in Seq(Cells) /\ t \in Seq(Cells)
        /\ rest \in Seq(Messages) /\ e \in Seq(Cells)
        /\ p \o (w \o t) = Stream(rest)
    BY WayFacts, MessageFacts
  <1>2. Stream(Append(rest, m)) = Stream(rest) \o e /\ Append(rest, m) \in Seq(Messages)
    BY <1>1, StreamAppend, AppendProperties
  <1> HIDE DEF e
  <1>3. w \o t \in Seq(Cells) /\ t \o e \in Seq(Cells)
    BY <1>1, ConcatProperties
  <1>4. Regroup(p, w \o t, e) /\ Regroup(w, t, e)
    BY <1>1, <1>3, Associative, Zenon
  <1>5. p \o (w \o (t \o e)) = Stream(Append(rest, m))
    BY <1>1, <1>2, <1>4 DEF Regroup
  <1> QED
    BY <1>1, <1>2, <1>3, <1>5 DEF WayState, OnTheWay, e

\* The stream takes a cell.
LEMMA WayTransmit ==
  ASSUME NEW p, NEW w, NEW t, NEW rest, WayState(p, w, t, rest),
         NEW c \in Cells, NEW v \in Seq(Cells), t = <<c>> \o v
  PROVE  WayState(p, Append(w, c), v, rest)
  <1> DEFINE d == <<c>>
  <1>1. /\ p \in Seq(Cells) /\ w \in Seq(Cells) /\ rest \in Seq(Messages)
        /\ p \o (w \o (d \o v)) = Stream(rest)
        /\ d \in Seq(Cells)
    <2>1. /\ p \in Seq(Cells) /\ w \in Seq(Cells) /\ rest \in Seq(Messages)
          /\ p \o (w \o t) = Stream(rest)
      BY WayFacts
    <2>2. <<c>> \in Seq(Cells)
      OBVIOUS
    <2> QED
      BY <2>1, <2>2
  <1>2. Append(w, c) = w \o d /\ Append(w, c) \in Seq(Cells)
    BY <1>1, AppendIsConcat, AppendProperties
  <1> HIDE DEF d
  <1>3. Regroup(w, d, v)
    BY <1>1, Associative, Zenon
  <1>4. p \o (Append(w, c) \o v) = Stream(rest)
    BY <1>1, <1>2, <1>3 DEF Regroup
  <1> QED
    BY <1>1, <1>2, <1>4 DEF WayState, OnTheWay

\* What the stream holds is lost from some cell on.
LEMMA WayReset ==
  ASSUME NEW p, NEW w, NEW t, NEW rest, WayState(p, w, t, rest), NEW n \in 0..Len(w)
  PROVE  WayState(p, SubSeq(w, 1, n), SubSeq(w, n + 1, Len(w)) \o t, rest)
  <1> DEFINE u == SubSeq(w, 1, n)
             v == SubSeq(w, n + 1, Len(w))
  <1>1. /\ p \in Seq(Cells) /\ w \in Seq(Cells) /\ t \in Seq(Cells)
        /\ rest \in Seq(Messages)
        /\ p \o (w \o t) = Stream(rest)
    BY WayFacts
  <1>2. u \in Seq(Cells) /\ v \in Seq(Cells) /\ w = u \o v
    BY <1>1, SplitFirst
  <1> HIDE DEF u, v
  <1>3. Regroup(u, v, t) /\ v \o t \in Seq(Cells)
    BY <1>1, <1>2, Associative, ConcatProperties
  <1>4. p \o (u \o (v \o t)) = Stream(rest)
    BY <1>1, <1>2, <1>3 DEF Regroup
  <1> QED
    BY <1>1, <1>2, <1>3, <1>4 DEF WayState, OnTheWay, u, v

\* A header is read.
LEMMA WayHeader ==
  ASSUME NEW w, NEW t, NEW rest, WayState(<<>>, w, t, rest), w # <<>>
  PROVE  /\ rest # <<>> /\ Head(rest) \in Messages
         /\ Head(w) = HeaderOf(Head(rest)) /\ Head(w) \in Cells
         /\ WayState(<<Head(w)>>, Tail(w), t, rest)
         /\ Head(w).size = 0 =>
              Head(rest).body = <<>> /\ WayState(<<>>, Tail(w), t, Tail(rest))
  <1>1. /\ w \in Seq(Cells) /\ t \in Seq(Cells) /\ rest \in Seq(Messages)
        /\ <<>> \o (w \o t) = Stream(rest)
    BY WayFacts
  <1>2. w \o t = Stream(rest)
    <2>1. w \o t \in Seq(Cells)
      BY <1>1, ConcatProperties
    <2>2. <<>> \o (w \o t) = w \o t
      BY <2>1, ConcatEmptySeq
    <2> QED
      BY <1>1, <2>2
  <1>3. /\ rest # <<>> /\ Head(w) = HeaderOf(Head(rest))
        /\ Tail(w) \o t = Head(rest).body \o Stream(Tail(rest))
    BY <1>1, <1>2, HeaderFits
  <1>4. /\ Head(rest) \in Messages /\ Tail(rest) \in Seq(Messages)
        /\ Stream(Tail(rest)) \in Seq(Cells)
    BY <1>1, <1>3, StreamFirst, StreamType
  <1>5. /\ Head(w) \in Cells /\ Tail(w) \in Seq(Cells) /\ <<Head(w)>> \in Seq(Cells)
        /\ w = <<Head(w)>> \o Tail(w)
    BY <1>1
  <1>6. WayState(<<Head(w)>>, Tail(w), t, rest)
    <2> DEFINE c == <<Head(w)>>
               v == Tail(w)
    <2>1. c \in Seq(Cells) /\ v \in Seq(Cells) /\ w = c \o v
      BY <1>5
    <2> HIDE DEF c, v
    <2>2. Regroup(c, v, t)
      BY <1>1, <2>1, Associative, Zenon
    <2>3. c \o (v \o t) = Stream(rest)
      BY <1>2, <2>1, <2>2 DEF Regroup
    <2> QED
      BY <1>1, <2>1, <2>3 DEF WayState, OnTheWay, c, v
  <1>7. ASSUME Head(w).size = 0
        PROVE  Head(rest).body = <<>> /\ WayState(<<>>, Tail(w), t, Tail(rest))
    <2>1. Head(rest).body = <<>>
      <3>1. Len(Head(rest).body) = 0
        BY <1>3, <1>7 DEF HeaderOf
      <3>2. Head(rest).body \in Seq(Cells)
        BY <1>4, MessageFacts
      <3> QED
        BY <3>1, <3>2, EmptySeq
    <2>2. Tail(w) \o t = Stream(Tail(rest))
      BY <1>3, <1>4, <2>1, ConcatEmptySeq
    <2>3. <<>> \o (Tail(w) \o t) = Stream(Tail(rest))
      BY <1>4, <2>2, ConcatEmptySeq
    <2>4. <<>> \in Seq(Cells)
      BY EmptySeq
    <2> QED
      BY <1>1, <1>4, <1>5, <2>1, <2>3, <2>4 DEF WayState, OnTheWay
  <1> QED
    BY <1>3, <1>4, <1>5, <1>6, <1>7

\* A body is read.
LEMMA WayBody ==
  ASSUME NEW h, NEW w, NEW t, NEW rest, WayState(<<h>>, w, t, rest), h.size <= Len(w)
  PROVE  /\ rest # <<>> /\ Head(rest) \in Messages
         /\ h = HeaderOf(Head(rest))
         /\ SubSeq(w, 1, h.size) = Head(rest).body
         /\ WayState(<<>>, SubSeq(w, h.size + 1, Len(w)), t, Tail(rest))
  <1>1. /\ w \in Seq(Cells) /\ t \in Seq(Cells) /\ rest \in Seq(Messages)
        /\ <<h>> \o (w \o t) = Stream(rest)
    BY WayFacts
  <1>2. /\ rest # <<>> /\ h = HeaderOf(Head(rest))
        /\ SubSeq(w, 1, h.size) = Head(rest).body
        /\ SubSeq(w, h.size + 1, Len(w)) \o t = Stream(Tail(rest))
    BY <1>1, BodyFits
  <1>3. /\ Head(rest) \in Messages /\ Tail(rest) \in Seq(Messages)
        /\ Stream(Tail(rest)) \in Seq(Cells)
    BY <1>1, <1>2, StreamFirst, StreamType
  <1>4. h.size \in 0..Len(w)
    <2>1. h.size \in Nat
      BY <1>2, <1>3, MessageFacts DEF HeaderOf
    <2> QED
      BY <1>1, <2>1, LenProperties
  <1>5. SubSeq(w, h.size + 1, Len(w)) \in Seq(Cells)
    BY <1>1, <1>4, SplitFirst
  <1>6. <<>> \o (SubSeq(w, h.size + 1, Len(w)) \o t) = Stream(Tail(rest))
    BY <1>2, <1>3, ConcatEmptySeq
  <1>7. <<>> \in Seq(Cells)
    BY EmptySeq
  <1> QED
    BY <1>1, <1>2, <1>3, <1>5, <1>6, <1>7 DEF WayState, OnTheWay

-----------------------------------------------------------------------------
(* Nothing is lost                                                         *)

FlowTypes ==
  /\ TypeOK
  /\ unsent \in Seq(Cells) /\ wire \in Seq(Cells)
  /\ temp = [type |-> temp.type, body |-> temp.body, size |-> temp.size]

\* rest is what has not arrived.  While the other end reads, the stream holds
\* a part of it that goes on with t; until the connection fails, t is what the
\* writer has left and what was posted.
Flowing(rest, t) ==
  /\ rest \in Seq(Messages) /\ sent = received \o rest
  /\ reading # "None" \/ ~Failed => WayState(PartlyRead, wire, t, rest)
  /\ ~Failed => t = Remaining \o Stream(posted)

FlowInvariant ==
  /\ WriterInvariant
  /\ FlowTypes
  /\ ~receiver_open => cut \/ ~sender_open
  /\ \E rest, t : Flowing(rest, t)

LEMMA RemainingIsLeft ==
  /\ Remaining = Left(writing, unsent, queue)
  /\ Remaining' = Left(writing', unsent', queue')
  BY DEF Remaining, Left

LEMMA WriterFacts ==
  ASSUME WriterInvariant, FlowTypes
  PROVE  WriterState(writing, unsent, queue)
  BY DEF WriterInvariant, WriterIsAwake, FlowTypes, TypeOK, WriterState

LEMMA FlowSend ==
  ASSUME FlowInvariant, NEW m \in Messages, Send(m)
  PROVE  FlowInvariant'
<1>1. PICK rest, t : Flowing(rest, t)
  BY DEF FlowInvariant
<1>2. /\ sent' = Append(sent, m) /\ posted' = Append(posted, m)
      /\ UNCHANGED <<queue, writing, unsent, sender_open, wire, cut, receiver>>
  BY DEF Send
<1>3. WriterInvariant /\ FlowTypes /\ WriterInvariant'
  BY <1>2 DEF FlowInvariant, WriterInvariant, WriterIsAwake
<1>4. FlowTypes'
  BY <1>2, <1>3 DEF FlowTypes, TypeOK, receiver
<1>5. (~receiver_open => cut \/ ~sender_open)'
  BY <1>2 DEF FlowInvariant, receiver
<1>6. PartlyRead' = PartlyRead /\ Failed' = Failed
  BY <1>2 DEF PartlyRead, Failed, receiver
<1>7. Append(rest, m) \in Seq(Messages) /\ sent' = received' \o Append(rest, m)
  <2>1. rest \in Seq(Messages) /\ received \in Seq(Messages) /\ sent = received \o rest
    BY <1>1, <1>3 DEF Flowing, FlowTypes, TypeOK
  <2>2. received' = received
    BY <1>2 DEF receiver
  <2> QED
    BY <1>2, <2>1, <2>2
<1>8. (reading # "None" \/ ~Failed)'
        => WayState(PartlyRead', wire', t \o Encode(m), Append(rest, m))
  <2>1. UNCHANGED <<reading, wire>>
    BY <1>2 DEF receiver
  <2>2. ASSUME reading # "None" \/ ~Failed
        PROVE  WayState(PartlyRead, wire, t \o Encode(m), Append(rest, m))
    <3>1. WayState(PartlyRead, wire, t, rest)
      BY <1>1, <2>2 DEF Flowing
    <3> QED
      BY <3>1, WaySend
  <2> QED
    BY <1>6, <2>1, <2>2
<1>9. ~Failed' => t \o Encode(m) = (Remaining \o Stream(posted))'
  <2>1. Remaining' = Remaining /\ Remaining \in Seq(Cells)
    BY <1>2, <1>3, WriterFacts, LeftType, RemainingIsLeft
  <2>2. posted \in Seq(Messages) /\ Stream(posted) \in Seq(Cells)
    BY <1>3, StreamType DEF WriterInvariant
  <2>3. Stream(posted') = Stream(posted) \o Encode(m) /\ Encode(m) \in Seq(Cells)
    BY <1>2, <2>2, StreamAppend, MessageFacts
  <2>4. Regroup(Remaining, Stream(posted), Encode(m))
    BY <2>1, <2>2, <2>3, Associative, Zenon
  <2>5. ~Failed => t = Remaining \o Stream(posted)
    BY <1>1 DEF Flowing
  <2>6. Stream(posted)' = Stream(posted')
    BY DEF Stream
  <2> HIDE DEF Stream
  <2> QED
    BY <1>6, <2>1, <2>3, <2>4, <2>5, <2>6 DEF Regroup
<1>10. Flowing(Append(rest, m), t \o Encode(m))'
  BY <1>7, <1>8, <1>9 DEF Flowing
<1> QED
  BY <1>3, <1>4, <1>5, <1>10 DEF FlowInvariant

\* The writer moves on: what it has left with what is posted stays the same,
\* or begins with the cell that the stream takes.
WriterMoves ==
  /\ UNCHANGED <<sent, sender_open, cut, receiver>>
  /\ posted' \in Seq(Messages) /\ queue' \in Seq(Messages)
  /\ writing' \in {"None", "Header", "Body"} /\ unsent' \in Seq(Cells)
  /\ (Remaining \o Stream(posted))' \in Seq(Cells)
  /\ \/ /\ UNCHANGED wire
        /\ ~Failed => (Remaining \o Stream(posted))' = Remaining \o Stream(posted)
     \/ /\ ~Failed
        /\ \E c \in Cells :
             /\ wire' = Append(wire, c)
             /\ Remaining \o Stream(posted) = <<c>> \o (Remaining \o Stream(posted))'

LEMMA FlowWriter ==
  ASSUME FlowInvariant, WriterInvariant', WriterMoves
  PROVE  FlowInvariant'
<1>1. PICK rest, t : Flowing(rest, t)
  BY DEF FlowInvariant
<1>2. /\ UNCHANGED <<sent, sender_open, cut, reading, temp, receiver_open, received>>
      /\ posted' \in Seq(Messages) /\ queue' \in Seq(Messages)
      /\ writing' \in {"None", "Header", "Body"} /\ unsent' \in Seq(Cells)
  BY DEF WriterMoves, receiver
<1>3. PartlyRead' = PartlyRead /\ Failed' = Failed
  BY <1>2 DEF PartlyRead, Failed
<1>4. FlowTypes
  BY DEF FlowInvariant
<1>5. (~receiver_open => cut \/ ~sender_open)'
  BY <1>2 DEF FlowInvariant
<1>6. PICK v \in Seq(Cells) : v = (Remaining \o Stream(posted))'
  BY DEF WriterMoves
<1>7. CASE UNCHANGED wire
           /\ (~Failed => (Remaining \o Stream(posted))' = Remaining \o Stream(posted))
  <2>1. FlowTypes'
    BY <1>2, <1>4, <1>7 DEF FlowTypes, TypeOK
  <2>2. rest \in Seq(Messages) /\ sent' = received' \o rest
    BY <1>1, <1>2 DEF Flowing
  <2>3. (reading # "None" \/ ~Failed)' => WayState(PartlyRead', wire', t, rest)
    BY <1>1, <1>2, <1>3, <1>7 DEF Flowing
  <2>4. ~Failed' => t = (Remaining \o Stream(posted))'
    BY <1>1, <1>3, <1>7 DEF Flowing
  <2>5. Flowing(rest, t)'
    BY <2>2, <2>3, <2>4 DEF Flowing
  <2> QED
    BY <1>5, <2>1, <2>5 DEF FlowInvariant
<1>8. ASSUME ~Failed, NEW c \in Cells, wire' = Append(wire, c),
             Remaining \o Stream(posted) = <<c>> \o v
      PROVE  FlowInvariant'
  <2>1. FlowTypes'
    BY <1>2, <1>4, <1>8 DEF FlowTypes, TypeOK
  <2>2. rest \in Seq(Messages) /\ sent' = received' \o rest
    BY <1>1, <1>2 DEF Flowing
  <2>3. t = <<c>> \o v /\ WayState(PartlyRead, wire, t, rest)
    BY <1>1, <1>8 DEF Flowing
  <2>4. WayState(PartlyRead', wire', v, rest)
    BY <1>3, <1>6, <1>8, <2>3, WayTransmit
  <2>5. Flowing(rest, v)'
    BY <1>6, <2>2, <2>4 DEF Flowing
  <2> QED
    BY <1>5, <2>1, <2>5 DEF FlowInvariant
<1>9. CASE /\ ~Failed
           /\ \E c \in Cells :
                /\ wire' = Append(wire, c)
                /\ Remaining \o Stream(posted) = <<c>> \o (Remaining \o Stream(posted))'
  <2>1. PICK c \in Cells :
          /\ wire' = Append(wire, c)
          /\ Remaining \o Stream(posted) = <<c>> \o (Remaining \o Stream(posted))'
    BY <1>9
  <2>2. Remaining \o Stream(posted) = <<c>> \o v
    BY <1>6, <2>1
  <2> QED
    BY <1>8, <1>9, <2>1, <2>2
<1> QED
  BY <1>7, <1>9 DEF WriterMoves

\* A failure of either end, or a connection that is reset
Breaks ==
  /\ UNCHANGED <<sent, received, temp, posted, queue>>
  /\ writing' \in {"None", writing} /\ unsent' \in {<<>>, unsent}
  /\ reading' \in {"None", reading}
  /\ \E n \in 0..Len(wire) : wire' = SubSeq(wire, 1, n)
  /\ sender_open' \in BOOLEAN /\ receiver_open' \in BOOLEAN /\ cut' \in BOOLEAN
  /\ cut' \/ ~sender_open'

LEMMA FlowBreaks ==
  ASSUME FlowInvariant, WriterInvariant', Breaks
  PROVE  FlowInvariant'
<1>1. PICK rest, t : Flowing(rest, t)
  BY DEF FlowInvariant
<1>2. PICK n \in 0..Len(wire) : wire' = SubSeq(wire, 1, n)
  BY DEF Breaks
<1>3. FlowTypes /\ <<>> \in Seq(Cells) /\ wire \in Seq(Cells)
  BY EmptySeq DEF FlowInvariant, FlowTypes
<1>4. wire' \in Seq(Cells)
  BY <1>2, <1>3, SplitFirst
<1>5. FlowTypes' /\ Failed'
  BY <1>3, <1>4 DEF Breaks, FlowTypes, TypeOK, Failed
<1>6. (~receiver_open => cut \/ ~sender_open)'
  BY DEF Breaks
<1> DEFINE v == SubSeq(wire, n + 1, Len(wire)) \o t
<1>7. reading' # "None" => WayState(PartlyRead', wire', v, rest)
  <2>1. reading' # "None" => UNCHANGED <<reading, temp>>
    BY DEF Breaks
  <2>2. reading' # "None" => PartlyRead' = PartlyRead
    BY <2>1 DEF PartlyRead
  <2>3. reading' # "None" => WayState(PartlyRead, wire, t, rest)
    BY <1>1, <2>1 DEF Flowing
  <2>4. reading' # "None" => WayState(PartlyRead, SubSeq(wire, 1, n), v, rest)
    BY <2>3, WayReset
  <2> QED
    BY <1>2, <2>2, <2>4
<1>8. rest \in Seq(Messages) /\ sent' = received' \o rest
  BY <1>1 DEF Flowing, Breaks
<1>9. PICK u : u = v
  OBVIOUS
<1> HIDE DEF v
<1>10. Flowing(rest, u)'
  BY <1>5, <1>7, <1>8, <1>9 DEF Flowing
<1> QED
  BY <1>5, <1>6, <1>10 DEF FlowInvariant

\* The steps of the sending thread
LEMMA WriterMovesOn ==
  ASSUME FlowInvariant, WriterInvariant', RunPosted \/ Transmit \/ Written
  PROVE  WriterMoves
<1>1. /\ WriterInvariant /\ FlowTypes
      /\ posted \in Seq(Messages) /\ queue \in Seq(Messages)
      /\ unsent \in Seq(Cells) /\ writing \in {"None", "Header", "Body"}
      /\ WriterState(writing, unsent, queue)
  BY WriterFacts DEF FlowInvariant, WriterInvariant, FlowTypes, TypeOK
<1>2. /\ Remaining = Left(writing, unsent, queue) /\ Remaining \in Seq(Cells)
      /\ Remaining' = Left(writing', unsent', queue')
      /\ Stream(posted) \in Seq(Cells)
  BY <1>1, RemainingIsLeft, LeftType, StreamType
<1>3. <<>> \in Seq(Cells)
  BY EmptySeq
<1>4. (Remaining \o Stream(posted))' = Remaining' \o Stream(posted')
  BY DEF Stream
<1>5. CASE Transmit
  <2>1. /\ unsent # <<>> /\ sender_open /\ ~cut
        /\ wire' = Append(wire, Head(unsent)) /\ unsent' = Tail(unsent)
        /\ UNCHANGED <<posted, queue, writing, sender_open, sent, cut, receiver>>
    BY <1>5 DEF Transmit
  <2>2. writing # "None" /\ ~Failed
    BY <1>1, <2>1 DEF WriterInvariant, WriterIsAwake, FlowInvariant, Failed
  <2>3. /\ Remaining = <<Head(unsent)>> \o Remaining'
        /\ WriterState(writing, unsent', queue) /\ Head(unsent) \in Cells
    BY <1>1, <1>2, <2>1, <2>2, LeftTransmit
  <2>4. Remaining' \in Seq(Cells) /\ <<Head(unsent)>> \in Seq(Cells) /\ unsent' \in Seq(Cells)
    <3>1. unsent' \in Seq(Cells)
      BY <2>3 DEF WriterState
    <3>2. Left(writing, unsent', queue) \in Seq(Cells)
      BY <2>3, LeftType
    <3> QED
      BY <1>2, <2>1, <2>3, <3>1, <3>2, OneCell
  <2>5. Regroup(<<Head(unsent)>>, Remaining', Stream(posted))
    BY <1>2, <2>4, Associative, Zenon
  <2> DEFINE c == Head(unsent)
             v == Remaining'
             r == Stream(posted)
             k == Remaining
  <2>6. k \o r = <<c>> \o (v \o r)
    <3>1. k = <<c>> \o v
      BY <2>3
    <3>2. Regroup(<<c>>, v, r)
      BY <2>5
    <3> HIDE DEF c, v, r, k
    <3> QED
      BY <3>1, <3>2 DEF Regroup
  <2>7. v \o r \in Seq(Cells)
    <3>1. v \in Seq(Cells) /\ r \in Seq(Cells)
      BY <1>2, <2>4
    <3> HIDE DEF v, r
    <3> QED
      BY <3>1, ConcatProperties
  <2>8. (Remaining \o Stream(posted))' = v \o r
    BY <1>4, <2>1
  <2> HIDE DEF v
  <2>9. \E d \in Cells :
          /\ wire' = Append(wire, d)
          /\ Remaining \o Stream(posted) = <<d>> \o (Remaining \o Stream(posted))'
    <3>1. c \in Cells /\ wire' = Append(wire, c)
      BY <2>1, <2>3
    <3>2. Remaining \o Stream(posted) = <<c>> \o (Remaining \o Stream(posted))'
      BY <2>6, <2>8
    <3> HIDE DEF c, r, k
    <3> QED
      BY <3>1, <3>2
  <2>10. /\ UNCHANGED <<sent, sender_open, cut, receiver>>
         /\ posted' \in Seq(Messages) /\ queue' \in Seq(Messages)
         /\ writing' \in {"None", "Header", "Body"} /\ unsent' \in Seq(Cells)
    BY <1>1, <2>1, <2>4
  <2>11. (Remaining \o Stream(posted))' \in Seq(Cells)
    BY <2>7, <2>8
  <2> QED
    BY <2>2, <2>9, <2>10, <2>11 DEF WriterMoves
<1>6. CASE RunPosted
  <2> DEFINE m == Head(posted)
             p == Tail(posted)
  <2>1. /\ posted # <<>> /\ posted' = p /\ queue' = Append(queue, m)
        /\ UNCHANGED <<sender_open, sent, wire, cut, receiver>>
    BY <1>6 DEF RunPosted
  <2>2. m \in Messages /\ p \in Seq(Messages) /\ Stream(posted) = Encode(m) \o Stream(p)
    BY <1>1, <2>1, StreamFirst
  <2>3. Encode(m) \in Seq(Cells) /\ Stream(p) \in Seq(Cells) /\ queue' \in Seq(Messages)
    BY <1>1, <2>1, <2>2, MessageFacts, StreamType, AppendProperties
  <2>4. ~Failed => (queue = <<>> <=> writing = "None")
    BY <1>1 DEF WriterInvariant, WriterIsAwake, Failed
  <2>5. writing' \in {"None", "Header", "Body"} /\ unsent' \in Seq(Cells)
        /\ (queue = <<>> => writing' = "Header" /\ unsent' = <<HeaderOf(m)>>)
        /\ (queue # <<>> => UNCHANGED <<writing, unsent>>)
    <3>1. CASE queue = <<>>
      <4>1. queue' = <<m>> /\ WriteNext(queue')
        BY <1>6, <2>1, <3>1 DEF RunPosted
      <4>2. Head(queue') = m /\ queue' # <<>>
        BY <4>1
      <4>3. <<HeaderOf(m)>> \in Seq(Cells)
        <5> HIDE DEF m
        <5> QED
          BY <2>2, OneHeader
      <4> QED
        BY <3>1, <4>1, <4>2, <4>3 DEF WriteNext
    <3>2. CASE queue # <<>>
      BY <1>1, <1>6, <3>2 DEF RunPosted
    <3> QED
      BY <3>1, <3>2
  <2>6. WriterState(writing', unsent', queue')
    BY <2>1, <2>3, <2>5 DEF WriterInvariant, WriterIsAwake, WriterState
  <2>7. Remaining' \in Seq(Cells)
    BY <1>2, <2>6, LeftType
  <2> HIDE DEF m, p
  <2>8. ASSUME ~Failed
        PROVE  Remaining' = Remaining \o Encode(m)
    <3>1. CASE queue = <<>>
      <4>1. Remaining = <<>>
        <5>1. writing = "None"
          BY <2>4, <2>8, <3>1
        <5>2. Left("None", unsent, queue) = Stream(queue)
          BY LeftCases, Zenon
        <5> QED
          BY <1>2, <3>1, <5>1, <5>2, StreamNothing
      <4>2. queue' = <<m>> /\ Head(queue') = m /\ queue' # <<>>
        BY <2>1, <3>1
      <4>3. Remaining' = Stream(<<m>>)
        BY <1>2, <2>3, <2>5, <3>1, <4>2, LeftNext
      <4> QED
        BY <2>2, <2>3, <4>1, <4>3, StreamOne, ConcatEmptySeq
    <3>2. CASE queue # <<>>
      <4>1. Left(writing, unsent, Append(queue, m)) = Left(writing, unsent, queue) \o Encode(m)
        BY <1>1, <2>2, LeftAppend
      <4>2. Remaining' = Left(writing, unsent, Append(queue, m))
        BY <1>2, <2>1, <2>5, <3>2
      <4> QED
        BY <1>2, <4>1, <4>2
    <3> QED
      BY <3>1, <3>2
  <2>9. Remaining' \o Stream(p) \in Seq(Cells)
    BY <2>3, <2>7, ConcatProperties
  <2>10. ASSUME ~Failed
         PROVE  Remaining' \o Stream(p) = Remaining \o Stream(posted)
    <3>1. Regroup(Remaining, Encode(m), Stream(p))
      BY <1>2, <2>3, Associative, Zenon
    <3> QED
      BY <2>2, <2>8, <2>10, <3>1 DEF Regroup
  <2> QED
    BY <1>4, <2>1, <2>2, <2>3, <2>5, <2>9, <2>10 DEF WriterMoves
<1>7. CASE Written
  <2>1. /\ writing # "None" /\ unsent = <<>>
        /\ UNCHANGED <<posted, sender_open, sent, wire, cut, receiver>>
    BY <1>7 DEF Written
  <2>2. /\ Head(queue) \in Messages /\ Tail(queue) \in Seq(Messages)
        /\ Head(queue).body \in Seq(Cells)
    BY <1>1, <2>1, FrontFacts
  <2>3. /\ queue' \in Seq(Messages) /\ unsent' \in Seq(Cells)
        /\ writing' \in {"None", "Header", "Body"} /\ Remaining' = Remaining
    <3>1. CASE writing = "Header" /\ Len(Head(queue).body) > 0
      <4>1. writing' = "Body" /\ unsent' = Head(queue).body /\ queue' = queue
        BY <1>7, <3>1 DEF Written
      <4>2. Remaining' = Remaining
        BY <1>1, <1>2, <2>1, <3>1, <4>1, LeftBody
      <4> QED
        BY <1>1, <2>2, <4>1, <4>2
    <3>2. CASE ~(writing = "Header" /\ Len(Head(queue).body) > 0)
      <4>1. queue' = Tail(queue) /\ WriteNext(queue')
        BY <1>7, <3>2 DEF Written
      <4>2. Remaining = Stream(queue')
        <5>1. CASE writing = "Header"
          <6>1. Head(queue).body = <<>>
            BY <2>2, <3>2, <5>1, EmptySeq
          <6>2. WriterState("Header", <<>>, queue)
            BY <1>1, <2>1, <5>1
          <6>3. Left("Header", <<>>, queue) = Stream(Tail(queue))
            BY <6>1, <6>2, LeftBody
          <6> QED
            BY <1>2, <2>1, <4>1, <5>1, <6>3
        <5>2. CASE writing = "Body"
          <6>1. Left("Body", <<>>, queue) = <<>> \o Stream(Tail(queue))
            BY LeftCases, Zenon
          <6>2. Stream(Tail(queue)) \in Seq(Cells)
            BY <2>2, StreamType
          <6> QED
            BY <1>2, <2>1, <4>1, <5>2, <6>1, <6>2, ConcatEmptySeq
        <5> QED
          BY <1>1, <2>1, <5>1, <5>2
      <4>3. CASE queue' = <<>>
        <5>1. writing' = "None" /\ unsent' = <<>>
          BY <4>1, <4>3 DEF WriteNext
        <5>2. Left("None", unsent', queue') = Stream(queue')
          BY LeftCases, Zenon
        <5> QED
          BY <1>2, <1>3, <2>2, <4>1, <4>2, <5>1, <5>2
      <4>4. CASE queue' # <<>>
        <5>1. writing' = "Header" /\ unsent' = <<HeaderOf(Head(queue'))>>
          BY <4>1, <4>4 DEF WriteNext
        <5>2. queue' \in Seq(Messages) /\ Head(queue') \in Messages
          BY <2>2, <4>1, <4>4
        <5>3. <<HeaderOf(Head(queue'))>> \in Seq(Cells)
          BY <5>2, OneHeader
        <5>4. Left("Header", <<HeaderOf(Head(queue'))>>, queue') = Stream(queue')
          BY <4>4, <5>2, LeftNext
        <5> QED
          BY <1>2, <4>2, <5>1, <5>2, <5>3, <5>4
      <4> QED
        BY <4>3, <4>4
    <3> QED
      BY <3>1, <3>2
  <2>4. Remaining \o Stream(posted) \in Seq(Cells)
    BY <1>2, ConcatProperties
  <2> QED
    BY <1>1, <1>4, <2>1, <2>3, <2>4 DEF WriterMoves
<1> QED
  BY <1>5, <1>6, <1>7

\* The reading end moves on through the stream, and hands on the first message
\* that has not arrived when it has all of it.
LEMMA ReadStep ==
  ASSUME FlowInvariant, HeaderRead \/ BodyRead, NEW rest, NEW t, Flowing(rest, t)
  PROVE  /\ temp' = [type |-> temp'.type, body |-> temp'.body, size |-> temp'.size]
         /\ temp'.size \in Nat /\ reading' \in {"Header", "Body"}
         /\ wire' \in Seq(Cells) /\ UNCHANGED <<receiver_open, sender, cut>>
         /\ \/ UNCHANGED received /\ WayState(PartlyRead', wire', t, rest)
            \/ /\ rest # <<>> /\ Head(rest) \in Messages
               /\ received' = Append(received, Head(rest))
               /\ WayState(PartlyRead', wire', t, Tail(rest))
<1>1. /\ temp = [type |-> temp.type, body |-> temp.body, size |-> temp.size]
      /\ temp.size \in Nat
  BY DEF FlowInvariant, FlowTypes, TypeOK
<1>2. CASE HeaderRead
  <2> DEFINE h == Head(wire)
             m == Head(rest)
  <2>1. /\ reading = "Header" /\ wire # <<>> /\ wire' = Tail(wire)
        /\ temp' = [type |-> h.type, size |-> h.size, body |-> Resized(temp.body, h.size)]
        /\ UNCHANGED <<receiver_open, sender, cut>>
    BY <1>2 DEF HeaderRead
  <2>2. WayState(<<>>, wire, t, rest)
    BY <2>1 DEF Flowing, PartlyRead
  <2>3. /\ rest # <<>> /\ m \in Messages /\ h = HeaderOf(m) /\ h \in Cells
        /\ WayState(<<h>>, wire', t, rest)
        /\ h.size = 0 => m.body = <<>> /\ WayState(<<>>, wire', t, Tail(rest))
    BY <2>1, <2>2, WayHeader
  <2>4. /\ h = [type |-> m.type, size |-> Len(m.body)] /\ Len(m.body) \in Nat
        /\ m = [type |-> m.type, body |-> m.body]
    BY <2>3, MessageFacts DEF HeaderOf
  <2> HIDE DEF h, m
  <2>5. /\ temp'.type = h.type /\ temp'.size = h.size /\ h.size \in Nat
        /\ temp'.body = Resized(temp.body, h.size)
    BY <2>1, <2>4
  <2>6. temp' = [type |-> temp'.type, body |-> temp'.body, size |-> temp'.size]
    BY <2>1
  <2>7. wire' \in Seq(Cells)
    BY <2>3, WayFacts
  <2>8. CASE h.size > 0
    <3>1. reading' = "Body" /\ UNCHANGED received
      BY <1>2, <2>8 DEF HeaderRead, h
    <3>2. PartlyRead' = <<h>>
      BY <2>4, <2>5, <3>1 DEF PartlyRead
    <3> QED
      BY <2>1, <2>3, <2>5, <2>6, <2>7, <3>1, <3>2
  <2>9. CASE ~(h.size > 0)
    <3>1. reading' = "Header" /\ Deliver(temp'.type, temp'.body)
      BY <1>2, <2>9 DEF HeaderRead, h
    <3>2. PartlyRead' = <<>>
      BY <3>1 DEF PartlyRead
    <3>3. h.size = 0
      BY <2>5, <2>9
    <3>4. temp'.body = <<>>
      BY <2>5, <3>3 DEF Resized
    <3>5. received' = Append(received, m)
      BY <2>3, <2>4, <2>5, <3>1, <3>3, <3>4 DEF Deliver
    <3> QED
      BY <2>1, <2>3, <2>5, <2>6, <2>7, <3>1, <3>2, <3>3, <3>5 DEF m
  <2> QED
    BY <2>8, <2>9
<1>3. CASE BodyRead
  <2> DEFINE h == [type |-> temp.type, size |-> temp.size]
             m == Head(rest)
  <2>1. /\ reading = "Body" /\ temp.size <= Len(wire)
        /\ wire' = SubSeq(wire, temp.size + 1, Len(wire))
        /\ temp' = [temp EXCEPT !.body = SubSeq(wire, 1, temp.size)]
        /\ reading' = "Header" /\ Deliver(temp'.type, temp'.body)
        /\ UNCHANGED <<receiver_open, sender, cut>>
    <3>1. wire \in Seq(Cells)
      BY DEF FlowInvariant, FlowTypes
    <3>2. Len(wire) \in Nat
      BY <3>1, LenProperties
    <3> QED
      BY <1>1, <1>3, <3>2 DEF BodyRead
  <2>2. WayState(<<h>>, wire, t, rest)
    BY <2>1 DEF Flowing, PartlyRead
  <2>3. h.size = temp.size /\ h.type = temp.type
    OBVIOUS
  <2> HIDE DEF h
  <2>4. /\ rest # <<>> /\ m \in Messages /\ h = HeaderOf(m)
        /\ SubSeq(wire, 1, h.size) = m.body
        /\ WayState(<<>>, SubSeq(wire, h.size + 1, Len(wire)), t, Tail(rest))
    BY <2>1, <2>2, <2>3, WayBody
  <2>5. /\ h.type = m.type /\ m = [type |-> m.type, body |-> m.body]
    BY <2>4, MessageFacts DEF HeaderOf
  <2>6. temp' = [type |-> temp.type, body |-> SubSeq(wire, 1, temp.size), size |-> temp.size]
    BY <1>1, <2>1
  <2>7. /\ temp'.type = m.type /\ temp'.body = m.body /\ temp'.size = temp.size
        /\ temp' = [type |-> temp'.type, body |-> temp'.body, size |-> temp'.size]
    BY <2>3, <2>4, <2>5, <2>6
  <2>8. received' = Append(received, m)
    BY <2>1, <2>5, <2>7 DEF Deliver
  <2>9. PartlyRead' = <<>> /\ WayState(<<>>, wire', t, Tail(rest))
    BY <2>1, <2>3, <2>4 DEF PartlyRead
  <2>10. wire' \in Seq(Cells)
    BY <2>9, WayFacts
  <2> QED
    BY <1>1, <2>1, <2>4, <2>7, <2>8, <2>9, <2>10
<1> QED
  BY <1>2, <1>3

\* What the message that arrives is to the channel
LEMMA FirstOfRest ==
  ASSUME NEW V, NEW a \in Seq(V), NEW r \in Seq(V), r # <<>>
  PROVE  /\ a \o r = Append(a, Head(r)) \o Tail(r)
         /\ Len(a) < Len(a \o r)
         /\ (a \o r)[Len(a) + 1] = Head(r)
         /\ Head(r) \in V /\ Tail(r) \in Seq(V)
<1>1. /\ Head(r) \in V /\ Tail(r) \in Seq(V) /\ <<Head(r)>> \in Seq(V)
      /\ r = <<Head(r)>> \o Tail(r)
  OBVIOUS
<1>2. Append(a, Head(r)) = a \o <<Head(r)>>
  BY <1>1, AppendIsConcat
<1>3. Regroup(a, <<Head(r)>>, Tail(r))
  BY <1>1, Associative, Zenon
<1>4. a \o r = Append(a, Head(r)) \o Tail(r)
  BY <1>1, <1>2, <1>3 DEF Regroup
<1>5. Len(a) < Len(a \o r) /\ (a \o r)[Len(a) + 1] = Head(r)
  <2>1. Len(a) \in Nat /\ Len(r) \in Nat \ {0} /\ Len(a \o r) = Len(a) + Len(r)
    BY EmptySeq, LenProperties, ConcatProperties
  <2>2. (a \o r)[Len(a) + 1] = r[1]
    BY <2>1
  <2> QED
    BY <2>1, <2>2
<1> QED
  BY <1>1, <1>4, <1>5

LEMMA FlowReads ==
  ASSUME FlowInvariant, WriterInvariant', HeaderRead \/ BodyRead
  PROVE  /\ FlowInvariant'
         /\ UNCHANGED <<sent, received>> \/ FifoChannel!Receive
<1>1. PICK rest, t : Flowing(rest, t)
  BY DEF FlowInvariant
<1>2. FlowTypes /\ rest \in Seq(Messages) /\ sent = received \o rest
  BY <1>1 DEF FlowInvariant, Flowing
<1>3. /\ temp' = [type |-> temp'.type, body |-> temp'.body, size |-> temp'.size]
      /\ temp'.size \in Nat /\ reading' \in {"Header", "Body"}
      /\ wire' \in Seq(Cells)
      /\ UNCHANGED <<receiver_open, posted, queue, writing, unsent, sender_open, sent, cut>>
      /\ \/ UNCHANGED received /\ WayState(PartlyRead', wire', t, rest)
         \/ /\ rest # <<>> /\ Head(rest) \in Messages
            /\ received' = Append(received, Head(rest))
            /\ WayState(PartlyRead', wire', t, Tail(rest))
  BY <1>1, ReadStep DEF sender
<1>4. received \in Seq(Messages)
  BY <1>2 DEF FlowTypes, TypeOK
<1>5. received' \in Seq(Messages) => FlowTypes'
  BY <1>2, <1>3 DEF FlowTypes, TypeOK
<1>6. (~receiver_open => cut \/ ~sender_open)'
  BY <1>3 DEF FlowInvariant
<1>7. ~Failed' => t = (Remaining \o Stream(posted))'
  <2>1. Failed' = Failed /\ (Remaining \o Stream(posted))' = Remaining \o Stream(posted)
    BY <1>3 DEF Failed, Remaining, Stream
  <2> QED
    BY <1>1, <2>1 DEF Flowing
<1>8. CASE UNCHANGED received /\ WayState(PartlyRead', wire', t, rest)
  <2>1. Flowing(rest, t)'
    BY <1>2, <1>3, <1>7, <1>8 DEF Flowing
  <2>2. FlowInvariant'
    BY <1>4, <1>5, <1>6, <1>8, <2>1 DEF FlowInvariant
  <2> QED
    BY <1>3, <1>8, <2>2
<1>9. CASE /\ rest # <<>> /\ Head(rest) \in Messages
           /\ received' = Append(received, Head(rest))
           /\ WayState(PartlyRead', wire', t, Tail(rest))
  <2>1. /\ sent = received' \o Tail(rest) /\ Len(received) < Len(sent)
        /\ sent[Len(received) + 1] = Head(rest) /\ Tail(rest) \in Seq(Messages)
    BY <1>2, <1>4, <1>9, FirstOfRest
  <2>2. PICK r : r = Tail(rest)
    OBVIOUS
  <2>3. Flowing(r, t)'
    BY <1>3, <1>7, <1>9, <2>1, <2>2 DEF Flowing
  <2>4. received' \in Seq(Messages)
    BY <1>4, <1>9, AppendProperties
  <2>5. FlowInvariant'
    BY <1>5, <1>6, <2>3, <2>4 DEF FlowInvariant
  <2>6. FifoChannel!Receive
    BY <1>3, <1>9, <2>1 DEF FifoChannel!Receive
  <2> QED
    BY <2>5, <2>6
<1> QED
  BY <1>3, <1>8, <1>9

LEMMA FailuresBreak ==
  ASSUME FlowInvariant, WriteFails \/ ReadFails \/ Failure
  PROVE  Breaks
<1>1. FlowTypes /\ wire \in Seq(Cells)
  BY DEF FlowInvariant, FlowTypes
<1>2. Len(wire) \in 0..Len(wire) /\ wire = SubSeq(wire, 1, Len(wire))
  BY <1>1, LenProperties, SubSeqFull
<1>3. UNCHANGED wire => \E n \in 0..Len(wire) : wire' = SubSeq(wire, 1, n)
  BY <1>2
<1>4. /\ writing \in {"None", "Header", "Body"} /\ reading \in {"None", "Header", "Body"}
      /\ sender_open \in BOOLEAN /\ receiver_open \in BOOLEAN /\ cut \in BOOLEAN
  BY <1>1 DEF FlowTypes, TypeOK
<1>5. CASE WriteFails
  BY <1>3, <1>4, <1>5 DEF WriteFails, Breaks, receiver
<1>6. CASE ReadFails
  <2>1. cut \/ ~sender_open
    BY <1>6 DEF ReadFails, FlowInvariant
  <2> QED
    BY <1>3, <1>4, <1>6, <2>1 DEF ReadFails, Breaks, sender
<1>7. CASE CloseSender
  BY <1>3, <1>4, <1>7 DEF CloseSender, Breaks, receiver
<1>8. CASE CloseReceiver
  BY <1>3, <1>4, <1>8 DEF CloseReceiver, Breaks, sender
<1>9. CASE Reset
  BY <1>4, <1>9 DEF Reset, Breaks, sender, receiver
<1> QED
  BY <1>5, <1>6, <1>7, <1>8, <1>9 DEF Failure

LEMMA FlowUnchanged ==
  ASSUME FlowInvariant, UNCHANGED vars
  PROVE  FlowInvariant'
<1>1. PICK rest, t : Flowing(rest, t)
  BY DEF FlowInvariant
<1>2. Flowing(rest, t)'
  <2>1. /\ UNCHANGED <<sent, received, reading, wire, posted>>
        /\ PartlyRead' = PartlyRead /\ Failed' = Failed /\ Remaining' = Remaining
    BY DEF vars, sender, receiver, PartlyRead, Failed, Remaining
  <2>2. (Remaining \o Stream(posted))' = Remaining \o Stream(posted)
    BY <2>1 DEF Stream
  <2> QED
    BY <1>1, <2>1, <2>2 DEF Flowing
<1>3. WriterInvariant'
  BY WriterStep DEF FlowInvariant
<1>4. FlowTypes' /\ (~receiver_open => cut \/ ~sender_open)'
  BY DEF FlowInvariant, FlowTypes, TypeOK, vars, sender, receiver
<1> QED
  BY <1>2, <1>3, <1>4 DEF FlowInvariant

\* Every step keeps the invariant and is a step of the channel or none.
LEMMA FlowStep ==
  ASSUME FlowInvariant, [Next]_vars
  PROVE  FlowInvariant' /\ [FifoChannel!Next]_FifoChannel!vars
<1>1. WriterInvariant'
  BY WriterStep DEF FlowInvariant
<1>2. ASSUME NEW m \in Messages, Send(m)
      PROVE  FlowInvariant' /\ FifoChannel!Next
  <2>1. FifoChannel!Send(m)
    BY <1>2 DEF Send, receiver, FifoChannel!Send
  <2> QED
    BY <1>2, <2>1, FlowSend DEF FifoChannel!Next
<1>3. CASE RunPosted \/ Transmit \/ Written
  <2>1. WriterMoves
    BY <1>1, <1>3, WriterMovesOn
  <2>2. UNCHANGED <<sent, received>>
    BY <2>1 DEF WriterMoves, receiver
  <2> QED
    BY <1>1, <2>1, <2>2, FlowWriter DEF FifoChannel!vars
<1>4. CASE HeaderRead \/ BodyRead
  <2>1. FlowInvariant' /\ (UNCHANGED <<sent, received>> \/ FifoChannel!Receive)
    BY <1>1, <1>4, FlowReads
  <2> QED
    BY <2>1 DEF FifoChannel!Next, FifoChannel!vars
<1>5. CASE WriteFails \/ ReadFails \/ Failure
  <2>1. Breaks
    BY <1>5, FailuresBreak
  <2>2. UNCHANGED <<sent, received>>
    BY <2>1 DEF Breaks
  <2> QED
    BY <1>1, <2>1, <2>2, FlowBreaks DEF FifoChannel!vars
<1>6. CASE UNCHANGED vars
  <2>1. UNCHANGED <<sent, received>>
    BY <1>6 DEF vars, sender, receiver
  <2> QED
    BY <1>6, <2>1, FlowUnchanged DEF FifoChannel!vars
<1> QED
  BY <1>2, <1>3, <1>4, <1>5, <1>6 DEF Next, SendingThread, ReadingThread

LEMMA NothingOnTheWay == WayState(<<>>, <<>>, <<>>, <<>>)
<1>1. <<>> \in Seq(Cells) /\ <<>> \in Seq(Messages)
  BY EmptySeq
<1>2. <<>> \o (<<>> \o <<>>) = Stream(<<>>)
  BY <1>1, StreamNothing, ConcatEmptySeq
<1> QED
  BY <1>1, <1>2 DEF WayState, OnTheWay

LEMMA FlowInit == Init => FlowInvariant
<1> SUFFICES ASSUME Init PROVE FlowInvariant
  OBVIOUS
<1>1. <<>> \in Seq(Cells) /\ <<>> \in Seq(Messages)
  BY EmptySeq
<1>2. WriterInvariant /\ FlowTypes /\ (~receiver_open => cut \/ ~sender_open)
  BY <1>1 DEF Init, WriterInvariant, WriterIsAwake, FlowTypes, TypeOK
<1>3. PartlyRead = <<>> /\ Remaining = Stream(<<>>)
  BY DEF Init, PartlyRead, Remaining
<1>4. <<>> = Remaining \o Stream(posted) /\ sent = received \o <<>>
  BY <1>1, <1>3, StreamNothing, ConcatEmptySeq DEF Init
<1>5. Flowing(<<>>, <<>>)
  <2>1. wire = <<>>
    BY DEF Init
  <2> QED
    BY <1>1, <1>3, <1>4, <2>1, NothingOnTheWay DEF Flowing
<1> QED
  BY <1>2, <1>5 DEF FlowInvariant

LEMMA FlowLosesNothing == FlowInvariant => NothingLost
<1> SUFFICES ASSUME FlowInvariant, ~Failed
             PROVE  Stream(sent) = Stream(received) \o PartlyRead \o wire \o Remaining
                                     \o Stream(posted)
  BY DEF NothingLost
<1>1. PICK rest, t : Flowing(rest, t)
  BY DEF FlowInvariant
<1> DEFINE s == Stream(received)
           p == PartlyRead
           w == wire
           l == Remaining
           q == Stream(posted)
<1>2. /\ rest \in Seq(Messages) /\ sent = received \o rest
      /\ WayState(p, w, t, rest) /\ t = l \o q
  BY <1>1 DEF Flowing
<1>3. received \in Seq(Messages) /\ posted \in Seq(Messages)
  BY DEF FlowInvariant, FlowTypes, TypeOK
<1>4. l \in Seq(Cells)
  BY WriterFacts, LeftType, RemainingIsLeft DEF FlowInvariant
<1>5. /\ s \in Seq(Cells) /\ q \in Seq(Cells)
      /\ p \in Seq(Cells) /\ w \in Seq(Cells)
      /\ p \o (w \o t) = Stream(rest)
  BY <1>2, <1>3, WayFacts, StreamType
<1>6. Stream(sent) = s \o Stream(rest)
  BY <1>2, <1>3, StreamConcat
<1> HIDE DEF s, p, w, l, q
<1>7. Stream(sent) = s \o (p \o (w \o (l \o q)))
  BY <1>2, <1>5, <1>6
<1>8. l \o q \in Seq(Cells) /\ s \o p \in Seq(Cells) /\ w \o (l \o q) \in Seq(Cells)
  <2>1. l \o q \in Seq(Cells) /\ s \o p \in Seq(Cells)
    BY <1>4, <1>5, ConcatProperties
  <2> QED
    BY <1>5, <2>1, ConcatProperties
<1>9. (s \o p) \o w \in Seq(Cells)
  BY <1>5, <1>8, ConcatProperties
<1>10. /\ Regroup(s, p, w \o (l \o q)) /\ Regroup(s \o p, w, l \o q)
       /\ Regroup((s \o p) \o w, l, q)
  BY <1>4, <1>5, <1>8, <1>9, Associative, Zenon
<1>11. Stream(sent) = (((s \o p) \o w) \o l) \o q
  BY <1>7, <1>10 DEF Regroup
<1> QED
  BY <1>11 DEF s, p, w, l, q

LEMMA FlowInvariantHolds == Spec => []FlowInvariant
<1>1. FlowInvariant /\ [Next]_vars => FlowInvariant'
  BY FlowStep
<1> QED
  BY <1>1, FlowInit, PTL DEF Spec

\* Between two ends that are connected, whatever the threads do and however
\* the stream cuts the buffers up, what was sent is what has arrived, what is
\* partly read, on the stream, in the writer's queue or posted, in that order.
THEOREM ConnectionLosesNothing == Spec => []NothingLost
BY FlowLosesNothing, FlowInvariantHolds, PTL

\* One direction of a connection is a FIFO channel, failures and all.
THEOREM ConnectionIsFifo == Spec => ImplementsChannel
<1>1. Init => FifoChannel!Init
  BY DEF Init, FifoChannel!Init
<1>2. FlowInvariant /\ [Next]_vars => [FifoChannel!Next]_FifoChannel!vars
  BY FlowStep
<1> QED
  BY <1>1, <1>2, FlowInvariantHolds, PTL
  DEF Spec, ImplementsChannel, FifoChannel!Spec

-----------------------------------------------------------------------------
(* The client                                                              *)

ClientInvariant ==
  /\ WriterInvariant
  /\ dial = "None" => ~held /\ posted = <<>> /\ queue = <<>> /\ writing = "None"
  /\ dial # "Connected" => (writing # "None" => unsent # <<>>)
  /\ aborted => dial # "Connected" /\ writing # "None"
  /\ dial = "Dialing" /\ held => sender_open \/ queue # <<>>
  /\ GivesUpLast

LEMMA WriterInvariantKept ==
  ASSUME WriterInvariant, Next PROVE WriterInvariant'
BY WriterStep

\* What is not done by the connection itself keeps the invariant too: closing
\* a socket ends no write but the one that was aborted.
LEMMA ClientStep ==
  ASSUME ClientInvariant, [ClientNext]_clientVars
  PROVE  ClientInvariant'
<1> USE DEF ClientInvariant, GivesUpLast
<1>1. CASE Connect
  BY <1>1 DEF Connect, WriterInvariant, WriterIsAwake
<1>2. CASE Disconnect
  <2>1. \/ sender_open' = FALSE /\ UNCHANGED <<posted, queue, writing, unsent>>
        \/ UNCHANGED <<posted, queue, writing, unsent, sender_open>>
    BY <1>2 DEF Disconnect, CloseSender, vars, sender
  <2> QED BY <1>2, <2>1 DEF Disconnect, WriterInvariant, WriterIsAwake
<1>3. CASE Dial
  <2>1. CASE EndpointRefuses
    BY <2>1 DEF EndpointRefuses, vars, sender, WriterInvariant, WriterIsAwake
  <2>2. CASE LastEndpointRefuses
    BY <2>2 DEF LastEndpointRefuses, sender, WriterInvariant, WriterIsAwake
  <2>3. CASE EndpointAnswers
    BY <2>3 DEF EndpointAnswers, sender, WriterInvariant, WriterIsAwake
  <2>4. CASE DialAborted
    BY <2>4 DEF DialAborted, vars, sender, WriterInvariant, WriterIsAwake
  <2> QED BY <1>3, <2>1, <2>2, <2>3, <2>4 DEF Dial
<1>4. CASE AbortedWrite
  BY <1>4 DEF AbortedWrite, WriterInvariant, WriterIsAwake
<1>5. CASE Write
  <2>1. CASE RunPosted
    <3>1. WriterInvariant' /\ queue' # <<>> /\ UNCHANGED <<dialVars, sender_open>>
      BY <1>5, <2>1, WriterInvariantKept DEF Next, SendingThread, RunPosted, Write,
         WriterInvariant
    <3>2. writing' # writing => unsent' # <<>>
      BY <2>1, <3>1 DEF RunPosted, WriteNext
    <3>3. writing' = writing => UNCHANGED unsent \/ unsent' # <<>>
      BY <2>1, <3>1 DEF RunPosted, WriteNext
    <3>4. writing # "None" => writing' # "None"
      BY <2>1 DEF RunPosted, WriteNext
    <3>5. posted # <<>>
      BY <2>1 DEF RunPosted
    <3> HIDE DEF WriterInvariant
    <3> QED BY <3>1, <3>2, <3>3, <3>4, <3>5 DEF dialVars
  <2>2. CASE Written
    <3>1. WriterInvariant' /\ UNCHANGED <<dialVars, sender_open>>
          /\ writing # "None" /\ unsent = <<>>
      BY <1>5, <2>2, WriterInvariantKept DEF Next, SendingThread, Written, Write
    <3>2. dial = "Connected"
      BY <3>1
    <3> QED BY <3>1, <3>2 DEF dialVars
  <2>3. CASE ~aborted /\ WriteFails
    <3>1. WriterInvariant' /\ UNCHANGED <<dialVars, queue, posted>>
          /\ writing' = "None" /\ unsent # <<>>
      BY <1>5, <2>3, WriterInvariantKept DEF Next, SendingThread, WriteFails, Write
    <3>2. queue # <<>>
      BY <3>1 DEF WriterInvariant, WriterIsAwake
    <3> QED BY <2>3, <3>1, <3>2 DEF dialVars
  <2>4. CASE dial = "Connected" /\ Transmit
    <3>1. WriterInvariant' /\ UNCHANGED <<dialVars, queue, posted, sender_open>>
      BY <1>5, <2>4, WriterInvariantKept DEF Next, SendingThread, Transmit, Write
    <3> QED BY <2>4, <3>1 DEF dialVars
  <2> QED BY <1>5, <2>1, <2>2, <2>3, <2>4 DEF Write
<1>6. CASE Read
  <2>1. UNCHANGED <<sender, dialVars>>
    BY <1>6 DEF Read, ReadingThread, HeaderRead, BodyRead, ReadFails
  <2> QED BY <2>1 DEF sender, dialVars, WriterInvariant, WriterIsAwake
<1>7. CASE Break
  <2>1. /\ dial = "Connected"
        /\ UNCHANGED <<posted, queue, writing, unsent, dialVars>>
        /\ sender_open' = FALSE \/ UNCHANGED sender_open
    BY <1>7 DEF Break, Failure, CloseSender, CloseReceiver, Reset, sender
  <2> QED BY <2>1 DEF dialVars, WriterInvariant, WriterIsAwake
<1>8. CASE \E m \in Messages : ClientSend(m)
  <2>1. PICK m \in Messages : ClientSend(m)
    BY <1>8
  <2>2. WriterInvariant'
    BY <2>1, WriterInvariantKept DEF ClientSend, Next
  <2>3. held /\ UNCHANGED <<queue, writing, unsent, sender_open, dialVars>>
    BY <2>1 DEF ClientSend, IsConnected, Send
  <2> QED BY <2>2, <2>3 DEF dialVars
<1>9. CASE UNCHANGED clientVars
  BY <1>9 DEF clientVars, vars, sender, dialVars, WriterInvariant, WriterIsAwake
<1> QED
  BY <1>1, <1>2, <1>3, <1>4, <1>5, <1>6, <1>7, <1>8, <1>9 DEF ClientNext

LEMMA ClientInvariantHolds == ClientSpec => []ClientInvariant
<1>1. ClientInit => ClientInvariant
  BY DEF ClientInit, ClientInvariant, WriterInvariant, WriterIsAwake, GivesUpLast
<1>2. ClientInvariant /\ [ClientNext]_clientVars => ClientInvariant'
  BY ClientStep
<1> QED BY <1>1, <1>2, PTL DEF ClientSpec

\* A client gives up its dial before every endpoint has refused only if it was
\* disconnected or if a message, sent early, is stranded in its queue.
THEOREM ClientGivesUpLast == ClientSpec => []GivesUpLast
<1>1. ClientInvariant => GivesUpLast
  BY DEF ClientInvariant
<1> QED BY <1>1, ClientInvariantHolds, PTL

\* Through the dial, too, no message waits without a write that gets to it.
THEOREM ClientAwake == ClientSpec => []WriterIsAwake
<1>1. ClientInvariant => WriterIsAwake
  BY DEF ClientInvariant, WriterInvariant
<1> QED BY <1>1, ClientInvariantHolds, PTL

\* Until the dial has succeeded the other end sees nothing; before it begins
\* there is nothing to see.
ClientFlow ==
  /\ ClientInvariant
  /\ FlowInvariant
  /\ dial \in {"None", "Dialing"} =>
       reading = "None" /\ wire = <<>> /\ received = <<>> /\ ~cut /\ receiver_open
  /\ dial = "None" =>
       sent = <<>> /\ posted = <<>> /\ queue = <<>> /\ writing = "None" /\ unsent = <<>>

\* The socket is opened with nothing sent: nothing is on its way.
LEMMA ConnectFlows ==
  ASSUME ClientFlow, Connect, WriterInvariant'
  PROVE  FlowInvariant'
<1>1. <<>> \in Seq(Cells) /\ <<>> \in Seq(Messages)
  BY EmptySeq
<1>2. /\ sent' = <<>> /\ received' = <<>> /\ wire' = <<>> /\ posted' = <<>>
      /\ queue' = <<>> /\ writing' = "None" /\ reading' = "None" /\ unsent' = <<>>
      /\ receiver_open' /\ temp' = temp
  BY DEF ClientFlow, Connect, receiver
<1>3. FlowTypes' /\ (~receiver_open => cut \/ ~sender_open)'
  BY <1>1, <1>2 DEF ClientFlow, Connect, receiver, FlowInvariant, FlowTypes, TypeOK
<1>4. PartlyRead' = <<>> /\ Remaining' = Stream(<<>>) /\ Stream(posted)' = Stream(<<>>)
  BY <1>2 DEF PartlyRead, Remaining, Stream
<1>5. (Remaining \o Stream(posted))' = Remaining' \o Stream(posted)'
  OBVIOUS
<1>6. <<>> = (Remaining \o Stream(posted))' /\ sent' = received' \o <<>>
  BY <1>1, <1>2, <1>4, <1>5, StreamNothing, ConcatEmptySeq
<1>7. WayState(PartlyRead', wire', <<>>, <<>>)
  BY <1>2, <1>4, NothingOnTheWay
<1>8. Flowing(<<>>, <<>>)'
  BY <1>1, <1>6, <1>7 DEF Flowing
<1> QED
  BY <1>3, <1>8 DEF FlowInvariant

\* Both ends begin to read, in the midst of the first write perhaps.
LEMMA AnswerFlows ==
  ASSUME ClientFlow, EndpointAnswers, WriterInvariant'
  PROVE  FlowInvariant'
<1>1. PICK rest, t : Flowing(rest, t)
  BY DEF ClientFlow, FlowInvariant
<1>2. /\ UNCHANGED <<posted, queue, writing, unsent, sender_open, sent, wire, cut,
                     temp, received>>
      /\ reading = "None" /\ reading' = "Header" /\ receiver_open' = TRUE
      /\ ~Failed /\ sender_open
  BY DEF EndpointAnswers, sender, ClientFlow, Failed
<1>3. FlowTypes' /\ (~receiver_open => cut \/ ~sender_open)'
  BY <1>2 DEF ClientFlow, FlowInvariant, FlowTypes, TypeOK
<1>4. PartlyRead' = PartlyRead /\ Remaining' = Remaining
  BY <1>2 DEF PartlyRead, Remaining
<1>5. (Remaining \o Stream(posted))' = Remaining \o Stream(posted)
  BY <1>2, <1>4 DEF Stream
<1>6. Flowing(rest, t)'
  BY <1>1, <1>2, <1>4, <1>5 DEF Flowing
<1> QED
  BY <1>3, <1>6 DEF FlowInvariant

LEMMA ClientFlowStep ==
  ASSUME ClientFlow, [ClientNext]_clientVars
  PROVE  ClientFlow' /\ [FifoChannel!Next]_FifoChannel!vars
<1>1. ClientInvariant' /\ WriterInvariant'
  BY ClientStep DEF ClientFlow, ClientInvariant
<1> DEFINE Kept == FlowInvariant' /\ [FifoChannel!Next]_FifoChannel!vars
           Unseen == (dial \in {"None", "Dialing"} =>
                        reading = "None" /\ wire = <<>> /\ received = <<>> /\ ~cut
                          /\ receiver_open)'
           Fresh == (dial = "None" =>
                       sent = <<>> /\ posted = <<>> /\ queue = <<>> /\ writing = "None"
                         /\ unsent = <<>>)'
<1>2. Kept /\ Unseen /\ Fresh => ClientFlow' /\ [FifoChannel!Next]_FifoChannel!vars
  BY <1>1 DEF ClientFlow
<1>3. [Next]_vars => Kept
  BY FlowStep DEF ClientFlow
<1>4. Breaks => Kept
  BY <1>1, FlowBreaks DEF ClientFlow, Breaks, FifoChannel!vars
<1>5. wire = SubSeq(wire, 1, Len(wire)) /\ Len(wire) \in 0..Len(wire)
  <2>1. wire \in Seq(Cells)
    BY DEF ClientFlow, FlowInvariant, FlowTypes
  <2> QED
    BY <2>1, LenProperties, SubSeqFull
<1>6. /\ writing \in {"None", "Header", "Body"} /\ reading \in {"None", "Header", "Body"}
      /\ sender_open \in BOOLEAN /\ receiver_open \in BOOLEAN /\ cut \in BOOLEAN
  BY DEF ClientFlow, FlowInvariant, FlowTypes, TypeOK
<1>7. CASE Connect
  <2>1. FlowInvariant'
    BY <1>1, <1>7, ConnectFlows
  <2>2. Kept
    BY <1>7, <2>1 DEF Connect, receiver, FifoChannel!vars
  <2>3. Unseen /\ Fresh
    BY <1>7 DEF Connect, receiver, ClientFlow
  <2> QED BY <1>2, <2>2, <2>3
<1>8. CASE Disconnect
  <2>1. UNCHANGED vars \/ CloseSender
    BY <1>8 DEF Disconnect
  <2>2. Kept
    BY <1>3, <2>1 DEF Next, Failure
  <2>3. UNCHANGED <<posted, queue, writing, unsent, sent, wire, cut, reading, received,
                    receiver_open>>
    BY <2>1 DEF vars, sender, CloseSender, receiver
  <2>4. dial' = dial
    BY <1>8 DEF Disconnect
  <2>5. Unseen /\ Fresh
    BY <2>3, <2>4 DEF ClientFlow
  <2> HIDE DEF Kept, Unseen, Fresh
  <2> QED BY <1>2, <2>2, <2>5
<1>9. CASE EndpointRefuses \/ DialAborted
  <2>1. UNCHANGED vars /\ (dial' = dial \/ dial' = "Failed")
    BY <1>9 DEF EndpointRefuses, DialAborted
  <2>2. Kept
    BY <1>3, <2>1
  <2>3. Unseen /\ Fresh
    BY <2>1 DEF vars, sender, receiver, ClientFlow
  <2> HIDE DEF Kept, Unseen, Fresh
  <2> QED BY <1>2, <2>2, <2>3
<1>10. CASE LastEndpointRefuses
  <2>1. Breaks
    BY <1>5, <1>6, <1>10 DEF LastEndpointRefuses, Breaks, sender, receiver
  <2>2. Unseen /\ Fresh
    BY <1>10 DEF LastEndpointRefuses
  <2> HIDE DEF Kept, Unseen, Fresh
  <2> QED BY <1>2, <1>4, <2>1, <2>2
<1>11. CASE EndpointAnswers
  <2>1. FlowInvariant'
    BY <1>1, <1>11, AnswerFlows
  <2>2. Kept
    BY <1>11, <2>1 DEF EndpointAnswers, sender, FifoChannel!vars
  <2>3. Unseen /\ Fresh
    BY <1>11 DEF EndpointAnswers
  <2> HIDE DEF Kept, Unseen, Fresh
  <2> QED BY <1>2, <2>2, <2>3
<1>12. CASE AbortedWrite
  <2>1. Breaks
    BY <1>5, <1>6, <1>12 DEF AbortedWrite, Breaks, sender, receiver
  <2>2. Unseen /\ Fresh
    BY <1>12 DEF AbortedWrite, receiver, ClientFlow, ClientInvariant
  <2> HIDE DEF Kept, Unseen, Fresh
  <2> QED BY <1>2, <1>4, <2>1, <2>2
<1>13. CASE Write
  <2>1. /\ RunPosted \/ Written \/ WriteFails \/ (dial = "Connected" /\ Transmit)
        /\ dial' = dial
    BY <1>13 DEF Write, dialVars
  <2>2. Kept
    BY <1>3, <2>1 DEF Next, SendingThread
  <2>3. Unseen
    BY <2>1 DEF RunPosted, Written, WriteFails, receiver, ClientFlow
  <2>4. Fresh
    BY <2>1 DEF RunPosted, Written, WriteFails, ClientFlow
  <2> HIDE DEF Kept, Unseen, Fresh
  <2> QED BY <1>2, <2>2, <2>3, <2>4
<1>14. CASE Read
  <2>1. ReadingThread /\ dial' = dial
    BY <1>14 DEF Read, dialVars
  <2>2. Kept
    BY <1>3, <2>1 DEF Next
  <2>3. dial \notin {"None", "Dialing"}
    BY <2>1 DEF ReadingThread, HeaderRead, BodyRead, ReadFails, ClientFlow
  <2>4. Unseen /\ Fresh
    BY <2>1, <2>3
  <2> HIDE DEF Kept, Unseen, Fresh
  <2> QED BY <1>2, <2>2, <2>4
<1>15. CASE Break
  <2>1. Failure /\ dial = "Connected" /\ dial' = dial
    BY <1>15 DEF Break, dialVars
  <2>2. Kept
    BY <1>3, <2>1 DEF Next
  <2>3. Unseen /\ Fresh
    BY <2>1
  <2> HIDE DEF Kept, Unseen, Fresh
  <2> QED BY <1>2, <2>2, <2>3
<1>16. CASE \E m \in Messages : ClientSend(m)
  <2>1. PICK m \in Messages : held /\ Send(m) /\ dial' = dial
    BY <1>16 DEF ClientSend, IsConnected, dialVars
  <2>2. Kept
    BY <1>3, <2>1 DEF Next
  <2>3. dial # "None"
    BY <2>1 DEF ClientFlow, ClientInvariant
  <2>4. Unseen /\ Fresh
    BY <2>1, <2>3 DEF Send, receiver, ClientFlow
  <2> HIDE DEF Kept, Unseen, Fresh
  <2> QED BY <1>2, <2>2, <2>4
<1>17. CASE UNCHANGED clientVars
  <2>1. UNCHANGED vars /\ dial' = dial
    BY <1>17 DEF clientVars, dialVars
  <2>2. Kept
    BY <1>3, <2>1
  <2>3. Unseen /\ Fresh
    BY <2>1 DEF vars, sender, receiver, ClientFlow
  <2> HIDE DEF Kept, Unseen, Fresh
  <2> QED BY <1>2, <2>2, <2>3
<1> HIDE DEF Kept, Unseen, Fresh
<1> QED
  BY <1>7, <1>8, <1>9, <1>10, <1>11, <1>12, <1>13, <1>14, <1>15, <1>16, <1>17
  DEF ClientNext, Dial

LEMMA ClientFlowInit == ClientInit => ClientFlow
<1> SUFFICES ASSUME ClientInit PROVE ClientFlow
  OBVIOUS
<1>1. <<>> \in Seq(Cells) /\ <<>> \in Seq(Messages) /\ <<>> \o <<>> = <<>>
  BY EmptySeq, ConcatEmptySeq
<1>2. ClientInvariant /\ FlowTypes /\ Failed /\ (~receiver_open => cut \/ ~sender_open)
  BY <1>1 DEF ClientInit, ClientInvariant, WriterInvariant, WriterIsAwake, GivesUpLast,
     FlowTypes, TypeOK, Failed
<1>3. Flowing(<<>>, <<>>)
  BY <1>1, <1>2 DEF Flowing, ClientInit
<1> QED
  BY <1>2, <1>3 DEF ClientFlow, FlowInvariant, ClientInvariant, ClientInit

LEMMA ClientFlowHolds == ClientSpec => []ClientFlow
<1>1. ClientFlow /\ [ClientNext]_clientVars => ClientFlow'
  BY ClientFlowStep
<1> QED
  BY <1>1, ClientFlowInit, PTL DEF ClientSpec

\* Every variable of the connection keeps its type, through the dial too; the
\* messages that arrive are among those that may be sent.
THEOREM ClientTypes == ClientSpec => []TypeOK
<1>1. ClientFlow => TypeOK
  BY DEF ClientFlow, FlowInvariant, FlowTypes
<1> QED
  BY <1>1, ClientFlowHolds, PTL

\* A client that sends before its dial has succeeded loses nothing by it: as
\* long as the socket is open and nobody has cut the connection, every message
\* waits or is under way, in the order of the calls of Send.
THEOREM ClientLosesNothing == ClientSpec => []NothingLost
<1>1. ClientFlow => NothingLost
  BY FlowLosesNothing DEF ClientFlow
<1> QED
  BY <1>1, ClientFlowHolds, PTL

\* What a server sees of a client is a FIFO channel: refused endpoints,
\* aborted writes, early sends and failures lose an end of what was sent, never
\* a message between two that arrive, and never change, repeat or reorder one.
THEOREM ClientIsFifo == ClientSpec => ImplementsChannel
<1>1. ClientInit => FifoChannel!Init
  BY DEF ClientInit, FifoChannel!Init
<1>2. ClientFlow /\ [ClientNext]_clientVars => [FifoChannel!Next]_FifoChannel!vars
  BY ClientFlowStep
<1> QED
  BY <1>1, <1>2, ClientFlowHolds, PTL
  DEF ClientSpec, ImplementsChannel, FifoChannel!Spec

=============================================================================
