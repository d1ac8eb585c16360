---------------------------- MODULE MirrorProofs ----------------------------
(***************************************************************************)
(* Theorems about Mirror: what a program shows, however late it handles    *)
(* what it is sent, for any subjects, settings and number of messages on   *)
(* their way.                                                              *)
(***************************************************************************)
EXTENDS Mirror, TradingProofs, TextFormsProofs

-----------------------------------------------------------------------------
(* What a program shows                                                    *)

FileName == [blanks |-> 0, text |-> "trader.txt"]

\* The words that the server writes
Words == Int \cup BOOLEAN \cup Subjects \cup ItemNames \cup {FileName}

MessageTypes ==
  {"SubjectConfiguration", "AcceptedOffer", "AcceptedRetraction", "Portfolio",
   "RoundStarted", "RoundEnded", "DividendStarted", "ReviewStarted"}

Mail == [type : MessageTypes, body : Seq(Words)]

Configs ==
  [instructions_filename : {{}, {ReadLine(FileName)}}, init_alloc : Counts,
   is_creator : BOOLEAN, eperdollar : Int]

RoundConfigs ==
  [round : Int, can_create : BOOLEAN, dividend : Int, margin_req : Int,
   margin_max : Int]

ClientViews ==
  [bids : SUBSET Offer, asks : SUBSET Offer, transactions : Seq(TradeRecord),
   config : Configs, round_conf : RoundConfigs, last_dividend : Int,
   port : Counts, start_round_port : Counts, end_round_port : Counts,
   post_dividend_port : Counts]

AdminViews ==
  [bids : SUBSET Offer, asks : SUBSET Offer, transactions : Seq(TradeRecord),
   config : Configs, round_conf : RoundConfigs, last_dividend : Int,
   player_ports : [Subjects -> Counts]]

Views(prog) == IF prog = "client" THEN ClientViews ELSE AdminViews

\* What ViewIsABook says of a view
ShowsABook(v) ==
  /\ \A b \in v.bids, a \in v.asks : ~CanTrade(b, a)
  /\ \A x, y \in v.bids \cup v.asks : x.id = y.id => x = y

Shown(prog) == {v \in Views(prog) : ShowsABook(v)}

-----------------------------------------------------------------------------
(* From one view to another by way of the messages that are handled        *)

HandleBy(prog, v, m) == IF prog = "client" THEN ClientHandle(v, m) ELSE AdminHandle(v, m)

\* Whatever is shown, the message leads to a view of its type.
Understood(prog, m) == \A v \in Views(prog) : HandleBy(prog, v, m) \in Views(prog)

\* What ReviewAddsUp says of the view after the review has started
AddsUp(v) ==
  v.post_dividend_port =
    [v.end_round_port EXCEPT
       !.Cash   = @ + v.end_round_port.Shares * v.last_dividend,
       !.Margin = @ - v.end_round_port.Derivatives * v.last_dividend]

\* One message takes v to w; fits: no count has left the range of an int.
Takes(fits, prog, v, m, w) ==
  /\ m \in Mail
  /\ Understood(prog, m)
  /\ w = HandleBy(prog, v, m)
  /\ fits /\ prog = "client" /\ m.type = "ReviewStarted" => AddsUp(w)

\* The views on the way, one after each message, all of them books
IsTrail(t, fits, prog, v, mail, w) ==
  /\ t \in [0..Len(mail) -> Shown(prog)]
  /\ t[0] = v /\ t[Len(mail)] = w
  /\ \A i \in 1..Len(mail) : Takes(fits, prog, t[i - 1], mail[i], t[i])

Leads(fits, prog, v, mail, w) ==
  mail \in Seq(Mail) /\ \E t : IsTrail(t, fits, prog, v, mail, w)

LEMMA LeadsNowhere ==
  ASSUME NEW fits, NEW prog, NEW v \in Shown(prog)
  PROVE  Leads(fits, prog, v, <<>>, v)
<1> DEFINE t == [i \in 0..0 |-> v]
<1>1. Len(<<>>) = 0 /\ <<>> \in Seq(Mail)
  OBVIOUS
<1>2. t \in [0..0 -> Shown(prog)] /\ t[0] = v
  OBVIOUS
<1> HIDE DEF t
<1>3. IsTrail(t, fits, prog, v, <<>>, v)
  BY <1>1, <1>2 DEF IsTrail
<1> QED BY <1>1, <1>3 DEF Leads

LEMMA LeadsOne ==
  ASSUME NEW fits, NEW prog, NEW v \in Shown(prog), NEW w \in Shown(prog), NEW m,
         Takes(fits, prog, v, m, w)
  PROVE  Leads(fits, prog, v, <<m>>, w)
<1> DEFINE t == [i \in 0..1 |-> IF i = 0 THEN v ELSE w]
<1>1. <<m>> \in Seq(Mail) /\ Len(<<m>>) = 1 /\ <<m>>[1] = m
  BY DEF Takes
<1>2. t \in [0..1 -> Shown(prog)] /\ t[0] = v /\ t[1] = w
  OBVIOUS
<1> HIDE DEF t
<1>3. PICK mail : mail = <<m>>
  OBVIOUS
<1>4. IsTrail(t, fits, prog, v, mail, w)
  <2>1. Len(mail) = 1 /\ mail[1] = m
    BY <1>1, <1>3
  <2>2. \A i \in 1..1 : Takes(fits, prog, t[i - 1], mail[i], t[i])
    BY <1>2, <2>1
  <2> QED BY <1>2, <2>1, <2>2 DEF IsTrail
<1> QED BY <1>1, <1>3, <1>4 DEF Leads

\* Two ways, one after the other
LEMMA LeadsOn ==
  ASSUME NEW fits, NEW prog, NEW v, NEW a, NEW u, NEW b, NEW w,
         Leads(fits, prog, v, a, u), Leads(fits, prog, u, b, w)
  PROVE  Leads(fits, prog, v, a \o b, w)
<1>1. PICK s : IsTrail(s, fits, prog, v, a, u)
  BY DEF Leads
<1>2. PICK r : IsTrail(r, fits, prog, u, b, w)
  BY DEF Leads
<1>3. a \in Seq(Mail) /\ b \in Seq(Mail)
  BY DEF Leads
<1> DEFINE n == Len(a)
           k == Len(b)
           t == [i \in 0..(n + k) |-> IF i <= n THEN s[i] ELSE r[i - n]]
<1>4. n \in Nat /\ k \in Nat
  BY <1>3, LenProperties
<1>5. PICK c : c = a \o b
  OBVIOUS
<1>6. /\ c \in Seq(Mail) /\ Len(c) = n + k
      /\ \A i \in 1..(n + k) : c[i] = IF i <= n THEN a[i] ELSE b[i - n]
  BY <1>3, <1>5, ConcatProperties, Zenon
<1>7. /\ s \in [0..n -> Shown(prog)] /\ s[0] = v /\ s[n] = u
      /\ r \in [0..k -> Shown(prog)] /\ r[0] = u /\ r[k] = w
  BY <1>1, <1>2 DEF IsTrail
<1>8. t \in [0..(n + k) -> Shown(prog)]
  BY <1>4, <1>7
<1>9. t[0] = v /\ t[n + k] = w
  <2>1. t[0] = s[0]
    BY <1>4
  <2>2. CASE k = 0
    BY <1>4, <1>7, <2>1, <2>2
  <2>3. CASE k > 0
    <3>1. n + k \in 0..(n + k) /\ ~(n + k <= n) /\ (n + k) - n = k
      BY <1>4, <2>3
    <3> QED BY <1>7, <2>1, <3>1
  <2> QED BY <1>4, <2>2, <2>3
<1>10. ASSUME NEW i \in 1..(n + k)
       PROVE  Takes(fits, prog, t[i - 1], c[i], t[i])
  <2>1. CASE i <= n
    <3>1. t[i - 1] = s[i - 1] /\ t[i] = s[i] /\ c[i] = a[i] /\ i \in 1..n
      BY <1>4, <1>6, <2>1
    <3> QED BY <1>1, <3>1 DEF IsTrail
  <2>2. CASE ~(i <= n)
    <3>1. t[i] = r[i - n] /\ c[i] = b[i - n] /\ i - n \in 1..k
      BY <1>4, <1>6, <2>2
    <3>2. t[i - 1] = r[(i - n) - 1]
      <4>1. CASE i - 1 = n
        BY <1>4, <1>7, <4>1
      <4>2. CASE i - 1 # n
        <5>1. ~(i - 1 <= n) /\ i - 1 \in 0..(n + k) /\ (i - 1) - n = (i - n) - 1
          BY <1>4, <2>2, <4>2
        <5> QED BY <5>1
      <4> QED BY <4>1, <4>2
    <3> QED BY <1>2, <3>1, <3>2 DEF IsTrail
  <2> QED BY <2>1, <2>2
<1> HIDE DEF t, n, k
<1>11. IsTrail(t, fits, prog, v, c, w)
  BY <1>6, <1>8, <1>9, <1>10 DEF IsTrail
<1> QED BY <1>5, <1>6, <1>11 DEF Leads

\* The first message, and the way from there
LEMMA LeadsFirst ==
  ASSUME NEW fits, NEW prog, NEW v, NEW mail, NEW w, mail # <<>>,
         Leads(fits, prog, v, mail, w)
  PROVE  \E u : /\ Takes(fits, prog, v, Head(mail), u)
                /\ Leads(fits, prog, u, Tail(mail), w)
<1>1. PICK s : IsTrail(s, fits, prog, v, mail, w)
  BY DEF Leads
<1> DEFINE n == Len(mail)
           t == [i \in 0..(n - 1) |-> s[i + 1]]
<1>2. mail \in Seq(Mail)
  BY DEF Leads
<1>3. n \in Nat /\ n >= 1 /\ Head(mail) = mail[1]
  BY <1>2, LenProperties, EmptySeq
<1>4. PICK rest : rest = Tail(mail)
  OBVIOUS
<1>5. /\ rest \in Seq(Mail) /\ Len(rest) = n - 1
      /\ \A i \in 1..(n - 1) : rest[i] = mail[i + 1]
  BY <1>2, <1>4, HeadTailProperties
<1>6. /\ s \in [0..n -> Shown(prog)] /\ s[0] = v /\ s[n] = w
      /\ \A i \in 1..n : Takes(fits, prog, s[i - 1], mail[i], s[i])
  BY <1>1 DEF IsTrail
<1>7. Takes(fits, prog, v, mail[1], s[1])
  <2>1. 1 \in 1..n /\ 1 - 1 = 0
    BY <1>3
  <2> QED BY <1>6, <2>1
<1>8. t \in [0..(n - 1) -> Shown(prog)] /\ t[0] = s[1] /\ t[n - 1] = w
  BY <1>3, <1>6
<1>9. ASSUME NEW i \in 1..(n - 1)
      PROVE  Takes(fits, prog, t[i - 1], rest[i], t[i])
  <2>1. t[i - 1] = s[(i + 1) - 1] /\ t[i] = s[i + 1] /\ i + 1 \in 1..n
    BY <1>3
  <2> QED BY <1>5, <1>6, <2>1
<1> HIDE DEF t, n
<1>10. IsTrail(t, fits, prog, s[1], rest, w)
  BY <1>5, <1>8, <1>9 DEF IsTrail
<1> QED BY <1>3, <1>4, <1>5, <1>7, <1>10 DEF Leads

\* Both ends of a way are books.
LEMMA LeadsShown ==
  ASSUME NEW fits, NEW prog, NEW v, NEW mail, NEW w,
         Leads(fits, prog, v, mail, w)
  PROVE  v \in Shown(prog) /\ w \in Shown(prog)
<1>1. PICK s : IsTrail(s, fits, prog, v, mail, w)
  BY DEF Leads
<1>2. Len(mail) \in Nat
  BY LenProperties DEF Leads
<1> QED BY <1>1, <1>2 DEF IsTrail

-----------------------------------------------------------------------------
(* The end of the way is the view that has caught up                       *)

\* The equation of the fold of Caught
MailStep(g, prog, v, mail) ==
  [s \in SUBSET (1..Len(mail)) |->
    IF s = {} THEN v ELSE HandleBy(prog, g[s \ {Max(s)}], mail[Max(s)])]

MailFold(prog, v, mail) == CHOOSE g : g = MailStep(g, prog, v, mail)

\* The equation has a solution.
LEMMA MailExists ==
  ASSUME NEW prog, NEW v \in Views(prog), NEW mail, Len(mail) \in Nat,
         \A i \in 1..Len(mail) : Understood(prog, mail[i])
  PROVE  \E g : g = MailStep(g, prog, v, mail)
<1> DEFINE n == Len(mail)
           D == 1..n
           V == Views(prog)
           pick == [s \in SUBSET D |-> Max(s)]
           step == [k \in D |-> [u \in V |-> HandleBy(prog, u, mail[k])]]
<1>2. IsFiniteSet(D)
  BY FS_Interval
<1>3. \A s \in SUBSET D : s # {} => pick[s] \in s
  BY MaxFacts
<1>4. \A k \in D : step[k] \in [V -> V]
  BY DEF Understood
<1>5. PICK g : IsFold(g, D, V, v, pick, step)
  <2>1. FoldTyped(D, V, v, pick, step)
    BY <1>3, <1>4 DEF FoldTyped
  <2> HIDE DEF D, V, pick, step
  <2> QED BY <1>2, <2>1, FoldExists
<1>6. g \in [SUBSET D -> V] /\ g = FoldStep(g, D, v, pick, step)
  BY <1>5 DEF IsFold
<1>7. \A s \in SUBSET D : s # {} =>
        step[pick[s]][g[s \ {pick[s]}]] = HandleBy(prog, g[s \ {Max(s)}], mail[Max(s)])
  <2> TAKE s \in SUBSET D
  <2> HAVE s # {}
  <2>1. pick[s] = Max(s) /\ Max(s) \in D
    BY <1>3
  <2>2. g[s \ {Max(s)}] \in V
    BY <1>6
  <2> HIDE DEF V, D, pick
  <2> QED BY <2>1, <2>2
<1>8. FoldStep(g, D, v, pick, step) = MailStep(g, prog, v, mail)
  <2>1. FoldStep(g, D, v, pick, step)
          = [s \in SUBSET D |-> IF s = {} THEN v ELSE step[pick[s]][g[s \ {pick[s]}]]]
    BY DEF FoldStep
  <2>2. MailStep(g, prog, v, mail)
          = [s \in SUBSET D |-> IF s = {} THEN v
                               ELSE HandleBy(prog, g[s \ {Max(s)}], mail[Max(s)])]
    BY DEF MailStep
  <2> HIDE DEF D, V, pick, step
  <2> QED BY <1>7, <2>1, <2>2
<1> QED BY <1>6, <1>8

\* What a solution says of the first messages
LEMMA MailValues ==
  ASSUME NEW prog, NEW v, NEW mail, Len(mail) \in Nat,
         NEW g, g = MailStep(g, prog, v, mail)
  PROVE  /\ g[1..0] = v
         /\ \A k \in 1..Len(mail) : g[1..k] = HandleBy(prog, g[1..(k - 1)], mail[k])
<1>1. MailStep(g, prog, v, mail)[{}] = v
  BY DEF MailStep
<1>2. ASSUME NEW k \in 1..Len(mail)
      PROVE  MailStep(g, prog, v, mail)[1..k] = HandleBy(prog, g[1..(k - 1)], mail[k])
  <2>1. 1..k \in SUBSET (1..Len(mail)) /\ 1..k # {}
    OBVIOUS
  <2>2. Max(1..k) = k /\ (1..k) \ {k} = 1..(k - 1)
    BY MaxFacts
  <2> QED BY <2>1, <2>2, Zenon DEF MailStep
<1>3. \A s : MailStep(g, prog, v, mail)[s] = g[s]
  BY Zenon
<1>4. 1..0 = {}
  OBVIOUS
<1> QED BY <1>1, <1>2, <1>3, <1>4

\* Handling everything on its way ends where the way ends.
LEMMA LeadsToCaught ==
  ASSUME NEW fits, NEW c, Leads(fits, program, view, inbox, c)
  PROVE  Caught = c
<1> DEFINE g == MailFold(program, view, inbox)
           n == Len(inbox)
<1>1. PICK t : IsTrail(t, fits, program, view, inbox, c)
  BY DEF Leads
<1>2. inbox \in Seq(Mail) /\ n \in Nat /\ DOMAIN inbox = 1..n
  BY LenProperties DEF Leads
<1>3. /\ t[0] = view /\ t[n] = c
      /\ \A i \in 1..n : Takes(fits, program, t[i - 1], inbox[i], t[i])
  BY <1>1 DEF IsTrail
<1>4. view \in Views(program)
  BY LeadsShown DEF Shown
<1>5. \A i \in 1..n : Understood(program, inbox[i])
  BY <1>3 DEF Takes
<1>6. g = MailStep(g, program, view, inbox)
  <2>1. \E h : h = MailStep(h, program, view, inbox)
    BY <1>2, <1>4, <1>5, MailExists
  <2> QED BY <2>1 DEF MailFold
<1>7. Caught = g[1..n]
  BY <1>2, Zenon DEF Caught, Handle, HandleBy, FoldLeft, MapThenFoldSet, MailFold, MailStep
<1> HIDE DEF g
<1>8. /\ g[1..0] = view
      /\ \A k \in 1..n : g[1..k] = HandleBy(program, g[1..(k - 1)], inbox[k])
  BY <1>2, <1>6, MailValues
<1> DEFINE Differ == {k \in 0..n : g[1..k] # t[k]}
<1>9. Differ = {}
  <2> SUFFICES ASSUME Differ # {} PROVE FALSE
    OBVIOUS
  <2>1. PICK k \in Differ : \A m \in Differ : k <= m
    <3>1. Differ \in SUBSET Nat
      BY <1>2
    <3> HIDE DEF Differ
    <3> QED BY <3>1, NatLeast
  <2>2. k # 0
    BY <1>3, <1>8, <2>1
  <2>3. k \in 1..n /\ k - 1 \in 0..n /\ k - 1 \notin Differ
    BY <1>2, <2>1, <2>2
  <2>4. g[1..(k - 1)] = t[k - 1]
    BY <2>3
  <2>5. t[k] = HandleBy(program, t[k - 1], inbox[k])
    BY <1>3, <2>3 DEF Takes
  <2> QED BY <1>8, <2>1, <2>3, <2>4, <2>5
<1> QED BY <1>2, <1>3, <1>7, <1>9

-----------------------------------------------------------------------------
(* What the server sends                                                   *)

Posts == [type : MessageTypes, to : SUBSET Subjects, body : Seq(Words),
          copy : Seq(Words)]

\* Handling what of messages reaches the program takes v to w.
Brings(fits, v, messages, w) ==
  messages \in Seq(Posts) /\ Leads(fits, program, v, Delivered(messages), w)

\* The copies of each message
CopiesOf(messages) == [i \in DOMAIN messages |-> Copies(messages[i])]

LEMMA CopiesAreMail ==
  ASSUME NEW m \in Posts
  PROVE  Copies(m) \in Seq(Mail)
<1>1. /\ [type |-> m.type, body |-> m.copy] \in Mail
      /\ [type |-> m.type, body |-> m.body] \in Mail
  BY DEF Posts, Mail
<1>2. \A x \in Mail : <<x>> \in Seq(Mail)
  OBVIOUS
<1>3. <<>> \in Seq(Mail)
  BY EmptySeq
<1> QED BY <1>1, <1>2, <1>3 DEF Copies

LEMMA CopiesType ==
  ASSUME NEW messages \in Seq(Posts)
  PROVE  /\ CopiesOf(messages) \in Seq(Seq(Mail))
         /\ Len(CopiesOf(messages)) = Len(messages)
         /\ \A i \in 1..Len(messages) : CopiesOf(messages)[i] = Copies(messages[i])
<1>1. /\ Len(messages) \in Nat /\ DOMAIN messages = 1..Len(messages)
      /\ \A i \in 1..Len(messages) : messages[i] \in Posts
  BY LenProperties
<1>2. \A i \in 1..Len(messages) : Copies(messages[i]) \in Seq(Mail)
  BY <1>1, CopiesAreMail
<1> QED BY <1>1, <1>2 DEF CopiesOf

\* What is sent later arrives later.
LEMMA DeliveredInOrder ==
  ASSUME NEW a \in Seq(Posts), NEW b \in Seq(Posts)
  PROVE  Delivered(a \o b) = Delivered(a) \o Delivered(b)
<1> DEFINE x == CopiesOf(a)
           y == CopiesOf(b)
           z == CopiesOf(a \o b)
<1>1. /\ a \o b \in Seq(Posts)
      /\ Len(a \o b) = Len(a) + Len(b)
      /\ \A i \in 1..(Len(a) + Len(b)) :
           (a \o b)[i] = IF i <= Len(a) THEN a[i] ELSE b[i - Len(a)]
  BY ConcatProperties, Zenon
<1>2. /\ x \in Seq(Seq(Mail)) /\ Len(x) = Len(a)
      /\ \A i \in 1..Len(a) : x[i] = Copies(a[i])
  BY CopiesType
<1>3. /\ y \in Seq(Seq(Mail)) /\ Len(y) = Len(b)
      /\ \A i \in 1..Len(b) : y[i] = Copies(b[i])
  BY CopiesType
<1>4. /\ z \in Seq(Seq(Mail)) /\ Len(z) = Len(a) + Len(b)
      /\ \A i \in 1..(Len(a) + Len(b)) : z[i] = Copies((a \o b)[i])
  <2>1. PICK c \in Seq(Posts) : c = a \o b
    BY <1>1
  <2>2. /\ CopiesOf(c) \in Seq(Seq(Mail)) /\ Len(CopiesOf(c)) = Len(c)
        /\ \A i \in 1..Len(c) : CopiesOf(c)[i] = Copies(c[i])
    BY CopiesType
  <2> QED BY <1>1, <2>1, <2>2
<1>5. Delivered(a) = FlattenSeq(x) /\ Delivered(b) = FlattenSeq(y)
      /\ Delivered(a \o b) = FlattenSeq(z)
  BY Zenon DEF Delivered, CopiesOf
<1>6. Len(a) \in Nat /\ Len(b) \in Nat
  BY LenProperties
<1> HIDE DEF x, y, z
<1>7. z = x \o y
  <2>1. /\ x \o y \in Seq(Seq(Mail))
        /\ Len(x \o y) = Len(x) + Len(y)
        /\ \A i \in 1..(Len(x) + Len(y)) :
             (x \o y)[i] = IF i <= Len(x) THEN x[i] ELSE y[i - Len(x)]
    <3>1. PICK V : V = Seq(Mail)
      OBVIOUS
    <3>2. x \in Seq(V) /\ y \in Seq(V)
      BY <1>2, <1>3, <3>1
    <3>3. /\ x \o y \in Seq(V)
          /\ Len(x \o y) = Len(x) + Len(y)
          /\ \A i \in 1..(Len(x) + Len(y)) :
               (x \o y)[i] = IF i <= Len(x) THEN x[i] ELSE y[i - Len(x)]
      BY <3>2, ConcatProperties, Zenon
    <3> QED BY <3>1, <3>3
  <2>2. ASSUME NEW i \in 1..(Len(a) + Len(b)) PROVE z[i] = (x \o y)[i]
    <3>1. CASE i <= Len(a)
      BY <1>1, <1>2, <1>3, <1>4, <1>6, <2>1, <3>1
    <3>2. CASE ~(i <= Len(a))
      <4>1. i - Len(a) \in 1..Len(b)
        BY <1>6, <3>2
      <4> QED BY <1>1, <1>2, <1>3, <1>4, <1>6, <2>1, <3>2, <4>1
    <3> QED BY <3>1, <3>2
  <2>3. Len(x \o y) = Len(a) + Len(b) /\ Len(x \o y) = Len(z)
    BY <1>2, <1>3, <1>4, <2>1
  <2> QED BY <1>4, <2>1, <2>2, <2>3, SeqEqual
<1>8. FlattenSeq(x \o y) = FlattenSeq(x) \o FlattenSeq(y)
  BY <1>2, <1>3, FlattenConcat
<1> QED BY <1>5, <1>7, <1>8, Zenon

LEMMA FlattenOne ==
  ASSUME NEW V, NEW x \in Seq(V)
  PROVE  FlattenSeq(<<x>>) = x
<1>1. <<>> \in Seq(Seq(V)) /\ Append(<<>>, x) = <<x>>
  OBVIOUS
<1>2. FlattenSeq(Append(<<>>, x)) = FlattenSeq(<<>>) \o x
  BY <1>1, FlattenAppend
<1>3. <<>> \o x = x
  OBVIOUS
<1> QED BY <1>1, <1>2, <1>3, FlattenNothing

LEMMA BringsNothing ==
  ASSUME NEW fits, NEW v \in Shown(program)
  PROVE  Brings(fits, v, <<>>, v)
<1>1. Delivered(<<>>) = <<>>
  <2>1. [i \in DOMAIN <<>> |-> Copies(<<>>[i])] = <<>>
    OBVIOUS
  <2> QED BY <2>1, FlattenNothing DEF Delivered
<1>2. <<>> \in Seq(Posts)
  BY EmptySeq
<1> QED BY <1>1, <1>2, LeadsNowhere DEF Brings

LEMMA BringsOne ==
  ASSUME NEW fits, NEW v, NEW m \in Posts, NEW w,
         Leads(fits, program, v, Copies(m), w)
  PROVE  Brings(fits, v, <<m>>, w)
<1>1. <<m>> \in Seq(Posts)
  OBVIOUS
<1>2. Delivered(<<m>>) = Copies(m)
  <2>1. [i \in DOMAIN <<m>> |-> Copies(<<m>>[i])] = <<Copies(m)>>
    OBVIOUS
  <2>2. FlattenSeq(<<Copies(m)>>) = Copies(m)
    BY CopiesAreMail, FlattenOne
  <2> QED BY <2>1, <2>2, Zenon DEF Delivered
<1> QED BY <1>1, <1>2 DEF Brings

LEMMA BringsOn ==
  ASSUME NEW fits, NEW v, NEW a, NEW u, NEW b, NEW w,
         Brings(fits, v, a, u), Brings(fits, u, b, w)
  PROVE  Brings(fits, v, a \o b, w)
<1>1. a \in Seq(Posts) /\ b \in Seq(Posts)
  BY DEF Brings
<1>2. a \o b \in Seq(Posts)
  BY <1>1, ConcatProperties
<1>3. Leads(fits, program, v, Delivered(a) \o Delivered(b), w)
  BY LeadsOn DEF Brings
<1> QED BY <1>1, <1>2, <1>3, DeliveredInOrder DEF Brings

\* A loop that sends something for each k in turn: if every part takes what was
\* reached before it to a view of reached[k], the loop ends in one.
LEMMA BringsLoop ==
  ASSUME NEW fits, NEW n \in Nat, NEW parts, Len(parts) = n,
         parts \in Seq(Seq(Posts)),
         NEW reached, NEW v \in Shown(program), v \in reached[0],
         \A k \in 1..n : \A u \in reached[k - 1] :
           \E w \in reached[k] : Brings(fits, u, parts[k], w)
  PROVE  \E w \in reached[n] : Brings(fits, v, FlattenSeq(parts), w)
<1> DEFINE Sent(k) == FlattenSeq(SubSeq(parts, 1, k))
           Bad == {k \in 0..n : ~ \E w \in reached[k] : Brings(fits, v, Sent(k), w)}
<1>2. Bad = {}
  <2> SUFFICES ASSUME Bad # {} PROVE FALSE
    OBVIOUS
  <2>1. PICK k \in Bad : \A m \in Bad : k <= m
    <3>1. Bad \in SUBSET Nat
      OBVIOUS
    <3> HIDE DEF Bad
    <3> QED BY <3>1, NatLeast
  <2>2. CASE k = 0
    <3>1. SubSeq(parts, 1, 0) = <<>>
      BY SubSeqEmpty
    <3>2. Brings(fits, v, Sent(0), v)
      BY <3>1, BringsNothing, FlattenNothing
    <3> QED BY <2>1, <2>2, <3>2
  <2>3. CASE k # 0
    <3>1. k \in 1..n /\ k - 1 \in 0..n /\ k - 1 \notin Bad
      <4>1. Bad \in SUBSET (0..n)
        OBVIOUS
      <4> HIDE DEF Bad
      <4> QED BY <2>1, <2>3, <4>1
    <3>2. PICK u \in reached[k - 1] : Brings(fits, v, Sent(k - 1), u)
      BY <3>1
    <3>3. PICK w \in reached[k] : Brings(fits, u, parts[k], w)
      BY <3>1
    <3>4. Sent(k) = Sent(k - 1) \o parts[k]
      <4> DEFINE s == SubSeq(parts, 1, k - 1)
      <4>1. parts[k] \in Seq(Posts) /\ s \in Seq(Seq(Posts))
        BY <3>1, LenProperties, SubSeqProperties
      <4>2. SubSeq(parts, 1, k) = Append(s, parts[k])
        BY <3>1
      <4> HIDE DEF s
      <4> QED BY <4>1, <4>2, FlattenAppend DEF s
    <3>5. Brings(fits, v, Sent(k - 1) \o parts[k], w)
      <4> HIDE DEF Sent
      <4> QED BY <3>2, <3>3, BringsOn
    <3> QED BY <2>1, <3>4, <3>5
  <2> QED BY <2>2, <2>3
<1>3. Sent(n) = FlattenSeq(parts)
  <2>1. SubSeq(parts, 1, n) = parts
    BY SubSeqFull
  <2> QED BY <2>1
<1>4. \E w \in reached[n] : Brings(fits, v, Sent(n), w)
  <2> HIDE DEF Sent
  <2>1. n \in 0..n
    OBVIOUS
  <2> QED BY <1>2, <2>1
<1> QED BY <1>3, <1>4

\* A finite set as a sequence: each of its elements, and nothing else.
LEMMA SetToSeqFacts ==
  ASSUME NEW S, IsFiniteSet(S)
  PROVE  /\ Cardinality(S) \in Nat
         /\ SetToSeq(S) \in [1..Cardinality(S) -> S]
         /\ SetToSeq(S) \in Seq(S) /\ Len(SetToSeq(S)) = Cardinality(S)
         /\ \A x \in S : \E i \in 1..Cardinality(S) : SetToSeq(S)[i] = x
<1> DEFINE n == Cardinality(S)
           f == SetToSeq(S)
<1>1. n \in Nat /\ ExistsBijection(1..n, S)
  BY FS_CardinalityType
<1>2. \E g \in [1..n -> S] : IsInjective(g)
  BY <1>1 DEF ExistsBijection, Bijection, Injection
<1>3. f \in [1..n -> S] /\ IsInjective(f)
  BY <1>2 DEF SetToSeq
<1> HIDE DEF f, n
<1>4. f \in Seq(S) /\ Len(f) = n
  BY <1>1, <1>3
<1>5. f \in Surjection(1..n, S)
  <2>1. f \in Injection(1..n, S)
    BY <1>3 DEF Injection
  <2>2. Cardinality(1..n) = n
    <3>1. Cardinality(1..n) = IF 1 > n THEN 0 ELSE n - 1 + 1
      BY <1>1, FS_Interval
    <3> QED BY <1>1, <3>1
  <2> QED BY <2>1, <2>2, FS_Injection DEF n
<1>6. \A x \in S : \E i \in 1..n : f[i] = x
  BY <1>5 DEF Surjection
<1> QED BY <1>1, <1>3, <1>4, <1>6 DEF f, n

\* What is sent to every subject in turn: if the part of each subject takes
\* what is reached once some have had theirs to what is reached with this one.
LEMMA BringsToEach ==
  ASSUME NEW fits, NEW messages \in [Subjects -> Seq(Posts)], NEW reached,
         NEW v \in Shown(program), v \in reached[{}],
         \A S \in SUBSET Subjects, p \in Subjects : \A u \in reached[S] :
           \E w \in reached[S \cup {p}] : Brings(fits, u, messages[p], w)
  PROVE  \E w \in reached[Subjects] : Brings(fits, v, ForEachSubject(messages), w)
<1> DEFINE f == SetToSeq(Subjects)
           n == Cardinality(Subjects)
           parts == [i \in DOMAIN f |-> messages[f[i]]]
           Had(k) == {f[i] : i \in 1..k}
           sofar == [k \in 0..n |-> reached[Had(k)]]
<1>1. /\ n \in Nat /\ f \in [1..n -> Subjects]
      /\ \A x \in Subjects : \E i \in 1..n : f[i] = x
  BY SubjectsAssumption, SetToSeqFacts
<1>2. ForEachSubject(messages) = FlattenSeq(parts)
  BY Zenon DEF ForEachSubject
<1> HIDE DEF f, n
<1>3. parts \in [1..n -> Seq(Posts)] /\ \A k \in 1..n : parts[k] = messages[f[k]]
  BY <1>1
<1>4. Had(0) = {} /\ Had(n) = Subjects
  BY <1>1
<1>5. \A k \in 1..n : Had(k) = Had(k - 1) \cup {f[k]} /\ Had(k - 1) \in SUBSET Subjects
  BY <1>1
<1>6. \A k \in 0..n : sofar[k] = reached[Had(k)]
  OBVIOUS
<1> HIDE DEF parts, Had, sofar
<1>7. parts \in Seq(Seq(Posts)) /\ Len(parts) = n
  BY <1>1, <1>3
<1>11. 0 \in 0..n /\ n \in 0..n
  BY <1>1
<1>12. sofar[0] = reached[Had(0)]
  BY <1>6, <1>11
<1>8. v \in sofar[0]
  BY <1>4, <1>12, Zenon
<1>9. \A k \in 1..n : \A u \in sofar[k - 1] :
        \E w \in sofar[k] : Brings(fits, u, parts[k], w)
  <2> TAKE k \in 1..n
  <2> TAKE u \in sofar[k - 1]
  <2>1. k - 1 \in 0..n /\ k \in 0..n /\ f[k] \in Subjects
    BY <1>1
  <2>2. u \in reached[Had(k - 1)]
    BY <1>6, <2>1
  <2>3. \E w \in reached[Had(k - 1) \cup {f[k]}] : Brings(fits, u, messages[f[k]], w)
    BY <1>5, <2>1, <2>2
  <2> QED BY <1>3, <1>5, <1>6, <2>1, <2>3
<1>10. \E w \in sofar[n] : Brings(fits, v, FlattenSeq(parts), w)
  BY <1>1, <1>7, <1>8, <1>9, BringsLoop
<1> QED BY <1>2, <1>4, <1>6, <1>10, <1>11

-----------------------------------------------------------------------------
(* What one message does                                                   *)

IsProgram == program \in {"client", "admin"}

Letter(type, body) == [type |-> type, body |-> body]

\* A message to all is the same for every program.
LEMMA SentToAll ==
  ASSUME NEW fits, NEW type \in MessageTypes, NEW body \in Seq(Words),
         NEW v \in Shown(program), NEW w \in Shown(program),
         Takes(fits, program, v, Letter(type, body), w)
  PROVE  Brings(fits, v, SendAll(type, body), w)
<1> DEFINE m == [type |-> type, to |-> Subjects, body |-> body, copy |-> body]
<1>1. m \in Posts
  BY DEF Posts
<1>2. Copies(m) = <<Letter(type, body)>>
  BY ViewerAssumption DEF Copies, Letter
<1>3. Leads(fits, program, v, Copies(m), w)
  BY <1>2, LeadsOne
<1>4. SendAll(type, body) = <<m>>
  BY DEF SendAll
<1> HIDE DEF m
<1> QED BY <1>1, <1>3, <1>4, BringsOne

\* A message to one subject reaches its program, and the admins' as a copy.
LEMMA SentToOne ==
  ASSUME NEW fits, NEW type \in MessageTypes, NEW body \in Seq(Words),
         NEW p \in Subjects,
         NEW v \in Shown(program), NEW w \in Shown(program),
         program = "admin" =>
           Takes(fits, program, v, Letter(type, body \o <<p>>), w),
         program # "admin" /\ p = Viewer =>
           Takes(fits, program, v, Letter(type, body), w),
         program # "admin" /\ p # Viewer => w = v
  PROVE  Brings(fits, v, Send(p, type, body), w)
<1> DEFINE m == [type |-> type, to |-> {p}, body |-> body, copy |-> body \o <<p>>]
<1>1. m \in Posts
  <2>1. body \o <<p>> \in Seq(Words)
    <3>1. p \in Words
      BY DEF Words
    <3>2. <<p>> \in Seq(Words)
      BY <3>1
    <3> QED BY <3>2, ConcatProperties
  <2> QED BY <2>1 DEF Posts
<1>2. Leads(fits, program, v, Copies(m), w)
  <2>1. CASE program = "admin"
    <3>1. Copies(m) = <<Letter(type, body \o <<p>>)>>
      BY <2>1 DEF Copies, Letter
    <3> QED BY <2>1, <3>1, LeadsOne
  <2>2. CASE program # "admin" /\ p = Viewer
    <3>1. Copies(m) = <<Letter(type, body)>>
      BY <2>2 DEF Copies, Letter
    <3> QED BY <2>2, <3>1, LeadsOne
  <2>3. CASE program # "admin" /\ p # Viewer
    <3>1. Copies(m) = <<>>
      BY <2>3 DEF Copies
    <3> QED BY <2>3, <3>1, LeadsNowhere
  <2> QED BY <2>1, <2>2, <2>3
<1>3. Send(p, type, body) = <<m>>
  BY DEF Send
<1> HIDE DEF m
<1> QED BY <1>1, <1>2, <1>3, BringsOne

\* What the two programs do with each type of message
LEMMA ClientHandles ==
  ASSUME NEW v, NEW m
  PROVE  /\ m.type = "SubjectConfiguration" =>
              ClientHandle(v, m) = [v EXCEPT !.config = ReadSubjectConfiguration(m.body)]
         /\ m.type = "AcceptedOffer" =>
              ClientHandle(v, m)
                = ClientAcceptedOffer(v, ReadMarketSubmissionResult(m.body))
         /\ m.type = "AcceptedRetraction" =>
              ClientHandle(v, m) = ClientAcceptedRetraction(v, ReadRetractResult(m.body))
         /\ m.type = "Portfolio" =>
              ClientHandle(v, m) = [v EXCEPT !.port = ReadSubjectPortfolio(m.body).port]
         /\ m.type = "RoundStarted" =>
              ClientHandle(v, m) = ClientRoundStarted(v, ReadRoundConfiguration(m.body))
         /\ m.type = "RoundEnded" =>
              ClientHandle(v, m) = [v EXCEPT !.end_round_port = v.port]
         /\ m.type = "DividendStarted" =>
              ClientHandle(v, m) = [v EXCEPT !.last_dividend = m.body[1]]
         /\ m.type = "ReviewStarted" =>
              ClientHandle(v, m) = [v EXCEPT !.post_dividend_port = v.port]
BY Zenon DEF ClientHandle

LEMMA AdminHandles ==
  ASSUME NEW v, NEW m
  PROVE  /\ m.type = "SubjectConfiguration" =>
              AdminHandle(v, m) = [v EXCEPT !.config = ReadSubjectConfiguration(m.body)]
         /\ m.type = "AcceptedOffer" =>
              AdminHandle(v, m) = AdminAcceptedOffer(v, ReadMarketSubmissionResult(m.body))
         /\ m.type = "AcceptedRetraction" =>
              AdminHandle(v, m)
                = AdminRetract(v, {ReadRetractResult(m.body).request.offer_id})
         /\ m.type = "Portfolio" =>
              AdminHandle(v, m) = AdminPortfolio(v, ReadSubjectPortfolio(m.body))
         /\ m.type = "RoundStarted" =>
              AdminHandle(v, m) = AdminRoundStarted(v, ReadRoundConfiguration(m.body))
         /\ m.type = "RoundEnded" => AdminHandle(v, m) = v
         /\ m.type = "DividendStarted" =>
              AdminHandle(v, m) = [v EXCEPT !.last_dividend = m.body[1]]
         /\ m.type = "ReviewStarted" => AdminHandle(v, m) = v
BY Zenon DEF AdminHandle

LEMMA WordsFacts ==
  /\ Int \subseteq Words /\ BOOLEAN \subseteq Words /\ ItemNames \subseteq Words
  /\ Subjects \subseteq Words /\ FileName \in Words
BY DEF Words

\* What a program shows once it knows the holdings of p
WithPort(v, p, port) ==
  IF program = "admin" THEN [v EXCEPT !.player_ports[p] = Wrapped(port)]
  ELSE IF p = Viewer THEN [v EXCEPT !.port = Wrapped(port)]
  ELSE v

LEMMA WithPortShown ==
  ASSUME NEW v \in Shown(program), NEW p \in Subjects, NEW port \in Counts, IsProgram
  PROVE  WithPort(v, p, port) \in Shown(program)
<1>1. Wrapped(port) \in Counts
  BY WrappedFacts
<1>2. CASE program = "admin"
  <2>1. v \in AdminViews /\ ShowsABook(v)
    BY <1>2 DEF Shown, Views
  <2>2. PICK w : w = [v EXCEPT !.player_ports[p] = Wrapped(port)]
    OBVIOUS
  <2>3. w \in AdminViews /\ w.bids = v.bids /\ w.asks = v.asks
    BY <1>1, <2>1, <2>2 DEF AdminViews
  <2>4. w \in Shown(program)
    BY <1>2, <2>1, <2>3 DEF Shown, Views, ShowsABook
  <2> QED BY <1>2, <2>2, <2>4 DEF WithPort
<1>3. CASE program = "client" /\ p = Viewer
  <2>1. v \in ClientViews /\ ShowsABook(v)
    BY <1>3 DEF Shown, Views
  <2>2. PICK w : w = [v EXCEPT !.port = Wrapped(port)]
    OBVIOUS
  <2>3. w \in ClientViews /\ w.bids = v.bids /\ w.asks = v.asks
    BY <1>1, <2>1, <2>2 DEF ClientViews
  <2>4. w \in Shown(program)
    BY <1>3, <2>1, <2>3 DEF Shown, Views, ShowsABook
  <2> QED BY <1>3, <2>2, <2>4 DEF WithPort
<1>4. CASE program = "client" /\ p # Viewer
  BY <1>4 DEF WithPort
<1> QED BY <1>2, <1>3, <1>4 DEF IsProgram

\* Reading the holdings of p, at the client and at the admin
LEMMA PortfolioTaken ==
  ASSUME NEW fits, NEW prog \in {"client", "admin"}, NEW p \in Subjects,
         NEW port \in Counts, NEW rest \in Seq(Words), NEW v \in Views(prog),
         NEW body, body = WriteSubjectPortfolio(p, port) \o rest
  PROVE  Takes(fits, prog, v, Letter("Portfolio", body),
               IF prog = "client" THEN [v EXCEPT !.port = Wrapped(port)]
               ELSE [v EXCEPT !.player_ports[p] = Wrapped(port)])
<1> DEFINE m == Letter("Portfolio", body)
<1>1. /\ WriteSubjectPortfolio(p, port) \in Seq(Words)
      /\ ReadSubjectPortfolio(body) = [id |-> p, port |-> Wrapped(port)]
  BY WordsFacts, SubjectPortfolioReadBack
<1>2. m \in Mail /\ m.type = "Portfolio" /\ m.body = body
  <2>1. body \in Seq(Words)
    BY <1>1, ConcatProperties
  <2> QED BY <2>1 DEF Letter, Mail, MessageTypes
<1>3. Wrapped(port) \in Counts
  BY WrappedFacts
<1> HIDE DEF m
<1>4. PICK x \in Counts : x = Wrapped(port)
  BY <1>3
<1>7. ReadSubjectPortfolio(m.body).port = x /\ ReadSubjectPortfolio(m.body).id = p
  BY <1>1, <1>2, <1>4
<1>5. CASE prog = "client"
  <2>1. \A u : ClientHandle(u, m) = [u EXCEPT !.port = x]
    BY <1>2, <1>7, ClientHandles, Zenon
  <2>2. \A u \in ClientViews : [u EXCEPT !.port = x] \in ClientViews
    BY <1>4 DEF ClientViews
  <2>3. Understood(prog, m)
    BY <1>5, <2>1, <2>2 DEF Understood, HandleBy, Views
  <2>4. HandleBy(prog, v, m) = [v EXCEPT !.port = x]
    BY <1>5, <2>1 DEF HandleBy
  <2> QED BY <1>2, <1>4, <1>5, <2>3, <2>4 DEF Takes, m
<1>6. CASE prog = "admin"
  <2>1. \A u : AdminHandle(u, m) = [u EXCEPT !.player_ports[p] = x]
    BY <1>2, <1>7, AdminHandles, ZenonT(30) DEF AdminPortfolio
  <2>2. \A u \in AdminViews : [u EXCEPT !.player_ports[p] = x] \in AdminViews
    BY <1>4 DEF AdminViews
  <2>3. Understood(prog, m)
    BY <1>6, <2>1, <2>2 DEF Understood, HandleBy, Views
  <2>4. HandleBy(prog, v, m) = [v EXCEPT !.player_ports[p] = x]
    BY <1>6, <2>1 DEF HandleBy
  <2> QED BY <1>2, <1>4, <1>6, <2>3, <2>4 DEF Takes, m
<1> QED BY <1>5, <1>6

LEMMA PortfolioSent ==
  ASSUME NEW fits, NEW v \in Shown(program), NEW p \in Subjects,
         NEW port \in Counts, IsProgram
  PROVE  Brings(fits, v, Send(p, "Portfolio", WriteSubjectPortfolio(p, port)),
                WithPort(v, p, port))
<1>1. PICK body : body = WriteSubjectPortfolio(p, port)
  OBVIOUS
<1>2. PICK w \in Shown(program) : w = WithPort(v, p, port)
  BY WithPortShown
<1>3. body \in Seq(Words) /\ body = body \o <<>>
  <2>1. body \in Seq(Words)
    BY <1>1, EmptySeq, WordsFacts, SubjectPortfolioReadBack
  <2> QED BY <2>1, ConcatEmptySeq
<1>4. v \in Views(program)
  BY DEF Shown
<1>5. program = "admin" => Takes(fits, program, v, Letter("Portfolio", body \o <<p>>), w)
  <2> HAVE program = "admin"
  <2>1. <<p>> \in Seq(Words)
    BY WordsFacts
  <2>2. w = [v EXCEPT !.player_ports[p] = Wrapped(port)]
    BY <1>2 DEF WithPort
  <2> QED BY <1>1, <1>4, <2>1, <2>2, PortfolioTaken
<1>6. program # "admin" /\ p = Viewer => Takes(fits, program, v, Letter("Portfolio", body), w)
  <2> HAVE program # "admin" /\ p = Viewer
  <2>1. program = "client" /\ <<>> \in Seq(Words)
    BY EmptySeq DEF IsProgram
  <2>2. w = [v EXCEPT !.port = Wrapped(port)]
    BY <1>2, <2>1 DEF WithPort
  <2> QED BY <1>1, <1>3, <1>4, <2>1, <2>2, PortfolioTaken
<1>7. program # "admin" /\ p # Viewer => w = v
  BY <1>2 DEF WithPort
<1>8. "Portfolio" \in MessageTypes
  BY DEF MessageTypes
<1> QED BY <1>1, <1>2, <1>3, <1>5, <1>6, <1>7, <1>8, SentToOne

\* The part of a view that is the book and what is said of the round
SameBook(v, w) ==
  /\ w.bids = v.bids /\ w.asks = v.asks
  /\ w.transactions = v.transactions /\ w.round_conf = v.round_conf

\* A view of the same type with the same book is one that may be shown.
LEMMA SameBookShown ==
  ASSUME NEW prog, NEW v \in Shown(prog), NEW w \in Views(prog), SameBook(v, w)
  PROVE  w \in Shown(prog)
BY DEF Shown, SameBook, ShowsABook

\* The settings of p as its program reads them
Heard(p) == ConfigurationRead(Settings(p))

LEMMA HeardType ==
  ASSUME NEW p \in Subjects
  PROVE  /\ Settings(p) \in Configurations(Words)
         /\ Heard(p) \in Configs
         /\ Heard(p).init_alloc = Wrapped(InitAlloc(p))
         /\ Heard(p).is_creator = (p \in Creators)
<1>1. InitAlloc(p) \in Counts
  BY SubjectsAssumption DEF InitAlloc, Counts
<1>2. Wrapped(InitAlloc(p)) \in Counts
  BY <1>1, WrappedFacts
<1>3. Settings(p).instructions_filename = {FileName}
  BY DEF Settings, FileName
<1>4. {ReadLine(l) : l \in {FileName}} = {ReadLine(FileName)}
  OBVIOUS
<1>5. EPerDollar \in Int /\ FileName \in Words
  BY SubjectsAssumption, WordsFacts
<1>6. PICK creator \in BOOLEAN : creator = (p \in Creators)
  <2>1. CASE p \in Creators
    <3>1. TRUE = (p \in Creators) /\ TRUE \in BOOLEAN
      BY <2>1, Zenon
    <3> QED BY <3>1, Zenon
  <2>2. CASE p \notin Creators
    <3>1. FALSE = (p \in Creators)
      BY <2>2, SMT
    <3> QED BY <3>1, Zenon
  <2> QED BY <2>1, <2>2
<1>7. Settings(p) = [instructions_filename |-> {FileName}, init_alloc |-> InitAlloc(p),
                     is_creator |-> creator, eperdollar |-> EPerDollar]
  BY <1>6, Zenon DEF Settings, FileName
<1>8. Settings(p) \in Configurations(Words)
  <2>1. creator \in Words /\ EPerDollar \in Words
    BY <1>5, <1>6, WordsFacts
  <2>2. {FileName} \in {{}} \cup {{l} : l \in Words}
    BY <1>5
  <2>3. PICK names \in {{}} \cup {{l} : l \in Words} : names = {FileName}
    BY <2>2
  <2>4. [instructions_filename |-> names, init_alloc |-> InitAlloc(p),
         is_creator |-> creator, eperdollar |-> EPerDollar] \in Configurations(Words)
    BY <1>1, <2>1 DEF Configurations
  <2> QED BY <1>7, <2>3, <2>4
<1>9. Heard(p) = [instructions_filename |-> {ReadLine(FileName)},
                  init_alloc |-> Wrapped(InitAlloc(p)),
                  is_creator |-> creator, eperdollar |-> EPerDollar]
  BY <1>4, <1>7 DEF Heard, ConfigurationRead
<1>10. Heard(p) \in Configs
  <2>1. {ReadLine(FileName)} \in {{}, {ReadLine(FileName)}}
    OBVIOUS
  <2>2. PICK names \in {{}, {ReadLine(FileName)}} : names = {ReadLine(FileName)}
    BY <2>1
  <2>3. [instructions_filename |-> names, init_alloc |-> Wrapped(InitAlloc(p)),
         is_creator |-> creator, eperdollar |-> EPerDollar] \in Configs
    BY <1>2, <1>5, <1>6 DEF Configs
  <2> QED BY <1>9, <2>2, <2>3
<1> QED BY <1>6, <1>8, <1>9, <1>10

\* What a program shows once the settings of p have been sent
WithConfig(v, p) ==
  IF program = "client" /\ p # Viewer THEN v ELSE [v EXCEPT !.config = Heard(p)]

LEMMA WithConfigShown ==
  ASSUME NEW v \in Shown(program), NEW p \in Subjects, IsProgram
  PROVE  /\ WithConfig(v, p) \in Shown(program)
         /\ SameBook(v, WithConfig(v, p))
         /\ program = "client" =>
              /\ WithConfig(v, p).port = v.port
              /\ WithConfig(v, p).config = IF p = Viewer THEN Heard(p) ELSE v.config
         /\ program = "admin" => WithConfig(v, p).player_ports = v.player_ports
<1>1. PICK w : w = WithConfig(v, p)
  OBVIOUS
<1>2. Heard(p) \in Configs /\ v \in Views(program)
  BY HeardType DEF Shown
<1>3. CASE program = "client"
  <2>1. w \in ClientViews /\ SameBook(v, w) /\ w.port = v.port
        /\ w.config = IF p = Viewer THEN Heard(p) ELSE v.config
    BY <1>1, <1>2, <1>3 DEF WithConfig, Views, ClientViews, SameBook
  <2> QED BY <1>1, <1>3, <2>1, SameBookShown DEF Views
<1>4. CASE program = "admin"
  <2>1. w = [v EXCEPT !.config = Heard(p)]
    BY <1>1, <1>4 DEF WithConfig
  <2>2. w \in AdminViews /\ SameBook(v, w) /\ w.player_ports = v.player_ports
    BY <1>2, <1>4, <2>1 DEF Views, AdminViews, SameBook
  <2> QED BY <1>1, <1>4, <2>2, SameBookShown DEF Views
<1> QED BY <1>3, <1>4 DEF IsProgram

LEMMA ConfigurationTaken ==
  ASSUME NEW fits, NEW prog \in {"client", "admin"}, NEW p \in Subjects,
         NEW rest \in Seq(Words), NEW v \in Views(prog),
         NEW body, body = WriteSubjectConfiguration(Settings(p)) \o rest
  PROVE  Takes(fits, prog, v, Letter("SubjectConfiguration", body),
               [v EXCEPT !.config = Heard(p)])
<1> DEFINE m == Letter("SubjectConfiguration", body)
<1>1. /\ WriteSubjectConfiguration(Settings(p)) \in Seq(Words)
      /\ ReadSubjectConfiguration(body) = Heard(p)
  BY HeardType, WordsFacts, SubjectConfigurationReadBack DEF Heard
<1>2. m \in Mail /\ m.type = "SubjectConfiguration" /\ m.body = body
  <2>1. body \in Seq(Words)
    BY <1>1, ConcatProperties
  <2> QED BY <2>1 DEF Letter, Mail, MessageTypes
<1> HIDE DEF m
<1>3. PICK x \in Configs : x = Heard(p)
  BY HeardType
<1>4. \A u : HandleBy(prog, u, m) = [u EXCEPT !.config = x]
  <2>1. \A u : /\ ClientHandle(u, m) = [u EXCEPT !.config = ReadSubjectConfiguration(m.body)]
              /\ AdminHandle(u, m) = [u EXCEPT !.config = ReadSubjectConfiguration(m.body)]
    BY <1>2, ClientHandles, AdminHandles, ZenonT(30)
  <2>2. ReadSubjectConfiguration(m.body) = x
    BY <1>1, <1>2, <1>3
  <2> QED BY <2>1, <2>2, Zenon DEF HandleBy
<1>5. \A u \in Views(prog) : [u EXCEPT !.config = x] \in Views(prog)
  <2>1. \A u \in ClientViews : [u EXCEPT !.config = x] \in ClientViews
    BY <1>3 DEF ClientViews
  <2>2. \A u \in AdminViews : [u EXCEPT !.config = x] \in AdminViews
    BY <1>3 DEF AdminViews
  <2> QED BY <2>1, <2>2 DEF Views
<1>6. Understood(prog, m)
  BY <1>4, <1>5 DEF Understood
<1> QED BY <1>2, <1>3, <1>4, <1>6 DEF Takes, m

LEMMA ConfigurationSent ==
  ASSUME NEW fits, NEW v \in Shown(program), NEW p \in Subjects, IsProgram
  PROVE  Brings(fits, v, SendConfiguration(p), WithConfig(v, p))
<1>1. PICK body : body = WriteSubjectConfiguration(Settings(p))
  OBVIOUS
<1>2. PICK w \in Shown(program) : w = WithConfig(v, p)
  BY WithConfigShown
<1>3. body \in Seq(Words) /\ body = body \o <<>>
  <2>1. body \in Seq(Words)
    BY <1>1, EmptySeq, HeardType, WordsFacts, SubjectConfigurationReadBack
  <2> QED BY <2>1, ConcatEmptySeq
<1>4. v \in Views(program)
  BY DEF Shown
<1>5. program = "admin" =>
        Takes(fits, program, v, Letter("SubjectConfiguration", body \o <<p>>), w)
  <2> HAVE program = "admin"
  <2>1. <<p>> \in Seq(Words)
    BY WordsFacts
  <2>2. w = [v EXCEPT !.config = Heard(p)]
    BY <1>2 DEF WithConfig
  <2> QED BY <1>1, <1>4, <2>1, <2>2, ConfigurationTaken
<1>6. program # "admin" /\ p = Viewer =>
        Takes(fits, program, v, Letter("SubjectConfiguration", body), w)
  <2> HAVE program # "admin" /\ p = Viewer
  <2>1. program = "client" /\ <<>> \in Seq(Words)
    BY EmptySeq DEF IsProgram
  <2>2. w = [v EXCEPT !.config = Heard(p)]
    BY <1>2, <2>1 DEF WithConfig
  <2> QED BY <1>1, <1>3, <1>4, <2>1, <2>2, ConfigurationTaken
<1>7. program # "admin" /\ p # Viewer => w = v
  BY <1>2 DEF WithConfig, IsProgram
<1>8. "SubjectConfiguration" \in MessageTypes
  BY DEF MessageTypes
<1> QED BY <1>1, <1>2, <1>3, <1>5, <1>6, <1>7, <1>8, SentToOne DEF SendConfiguration

\* The part of a view that is the holdings, and the own settings
SameHoldings(v, w) ==
  /\ program = "client" => w.port = v.port /\ w.config = v.config
  /\ program = "admin" => w.player_ports = v.player_ports

LEMMA RoundSettingsType ==
  ASSUME NEW round \in 1..NRounds
  PROVE  /\ RoundSettings(round) \in RoundConfigs
         /\ WriteRoundConfiguration(RoundSettings(round)) \in Seq(Words)
         /\ ReadRoundConfiguration(WriteRoundConfiguration(RoundSettings(round)))
              = RoundSettings(round)
<1>1. /\ round \in Int /\ Dividend[round] \in Int /\ MarginReq[round] \in Int
      /\ MarginMax[round] \in Int
  BY RoundsAssumption, ViewerAssumption
<1>2. PICK can \in BOOLEAN : can = (round >= FirstCreateRound)
  <2>1. CASE round >= FirstCreateRound
    <3>1. TRUE = (round >= FirstCreateRound)
      BY <2>1, SMT
    <3> QED BY <3>1, Zenon
  <2>2. CASE ~(round >= FirstCreateRound)
    <3>1. FALSE = (round >= FirstCreateRound)
      BY <2>2, SMT
    <3> QED BY <3>1, Zenon
  <2> QED BY <2>1, <2>2
<1>3. PICK c : c = [round |-> round, can_create |-> can, dividend |-> Dividend[round],
                    margin_req |-> MarginReq[round], margin_max |-> MarginMax[round]]
  OBVIOUS
<1>4. RoundSettings(round) = c
  BY <1>2, <1>3, Zenon DEF RoundSettings
<1>5. c \in RoundConfigs
  BY <1>1, <1>3 DEF RoundConfigs
<1>6. c \in [round : Words, can_create : Words, dividend : Words, margin_req : Words,
             margin_max : Words]
  BY <1>5, WordsFacts DEF RoundConfigs
<1>7. ReadRoundConfiguration(WriteRoundConfiguration(c)) = c
  BY <1>6, RoundConfigurationReadBack
<1>8. WriteRoundConfiguration(c) \in Seq(Words)
  BY <1>6 DEF WriteRoundConfiguration
<1> QED BY <1>4, <1>5, <1>7, <1>8

\* The start of a round empties the book that is shown.
LEMMA RoundSent ==
  ASSUME NEW fits, NEW v \in Shown(program), NEW round \in 1..NRounds, IsProgram
  PROVE  \E w \in Shown(program) :
           /\ Brings(fits, v, SendAll("RoundStarted",
                                WriteRoundConfiguration(RoundSettings(round))), w)
           /\ w.bids = {} /\ w.asks = {} /\ w.round_conf = RoundSettings(round)
           /\ SameHoldings(v, w)
<1> DEFINE body == WriteRoundConfiguration(RoundSettings(round))
           m == Letter("RoundStarted", body)
<1>1. PICK c \in RoundConfigs :
        c = RoundSettings(round) /\ ReadRoundConfiguration(body) = c
  BY RoundSettingsType
<1>2. body \in Seq(Words)
  BY RoundSettingsType
<1>3. m \in Mail /\ m.type = "RoundStarted" /\ m.body = body
      /\ "RoundStarted" \in MessageTypes
  BY <1>2 DEF Letter, Mail, MessageTypes
<1> HIDE DEF body, m
<1>4. ReadRoundConfiguration(m.body) = c
  BY <1>1, <1>3
<1>5. CASE program = "client"
  <2>1. \A u : ClientHandle(u, m) =
          [u EXCEPT !.bids = {}, !.asks = {}, !.transactions = <<>>,
                    !.round_conf = c, !.start_round_port = u.port]
    BY <1>3, <1>4, ClientHandles, Zenon DEF ClientRoundStarted
  <2>2. \A u \in ClientViews :
          [u EXCEPT !.bids = {}, !.asks = {}, !.transactions = <<>>,
                    !.round_conf = c, !.start_round_port = u.port] \in ClientViews
    BY EmptySeq DEF ClientViews
  <2>3. v \in ClientViews
    BY <1>5 DEF Shown, Views
  <2>4. PICK w : w = ClientHandle(v, m)
    OBVIOUS
  <2>5. w \in ClientViews /\ w.bids = {} /\ w.asks = {} /\ w.round_conf = c
        /\ w.port = v.port /\ w.config = v.config
    <3>1. w = [v EXCEPT !.bids = {}, !.asks = {}, !.transactions = <<>>,
                        !.round_conf = c, !.start_round_port = v.port]
      BY <2>1, <2>4
    <3> QED BY <2>2, <2>3, <3>1 DEF ClientViews
  <2>6. Understood(program, m)
    BY <1>5, <2>1, <2>2, Zenon DEF Understood, HandleBy, Views
  <2>7. Takes(fits, program, v, m, w)
    BY <1>3, <1>5, <2>4, <2>6 DEF Takes, HandleBy
  <2>8. w \in Shown(program)
    BY <1>5, <2>5 DEF Shown, Views, ShowsABook
  <2>9. Brings(fits, v, SendAll("RoundStarted", body), w)
    BY <1>2, <1>3, <2>7, <2>8, SentToAll DEF m
  <2> QED BY <1>1, <1>5, <2>5, <2>8, <2>9 DEF SameHoldings, body
<1>6. CASE program = "admin"
  <2>1. \A u : AdminHandle(u, m) =
          [u EXCEPT !.bids = {}, !.asks = {}, !.transactions = <<>>, !.round_conf = c]
    BY <1>3, <1>4, AdminHandles, ZenonT(30) DEF AdminRoundStarted
  <2>2. \A u \in AdminViews :
          [u EXCEPT !.bids = {}, !.asks = {}, !.transactions = <<>>, !.round_conf = c]
            \in AdminViews
    BY EmptySeq DEF AdminViews
  <2>3. v \in AdminViews
    BY <1>6 DEF Shown, Views
  <2>4. PICK w : w = AdminHandle(v, m)
    OBVIOUS
  <2>5. w \in AdminViews /\ w.bids = {} /\ w.asks = {} /\ w.round_conf = c
        /\ w.player_ports = v.player_ports
    <3>1. w = [v EXCEPT !.bids = {}, !.asks = {}, !.transactions = <<>>, !.round_conf = c]
      BY <2>1, <2>4
    <3> QED BY <2>2, <2>3, <3>1 DEF AdminViews
  <2>6. Understood(program, m)
    BY <1>6, <2>1, <2>2 DEF Understood, HandleBy, Views
  <2>7. Takes(fits, program, v, m, w)
    BY <1>3, <1>6, <2>4, <2>6 DEF Takes, HandleBy
  <2>8. w \in Shown(program)
    BY <1>6, <2>5 DEF Shown, Views, ShowsABook
  <2>9. Brings(fits, v, SendAll("RoundStarted", body), w)
    BY <1>2, <1>3, <2>7, <2>8, SentToAll DEF m
  <2> QED BY <1>1, <1>6, <2>5, <2>8, <2>9 DEF SameHoldings, body
<1> QED BY <1>5, <1>6 DEF IsProgram

\* At the end of the round a client sets its holdings aside.
LEMMA RoundEndedSent ==
  ASSUME NEW fits, NEW v \in Shown(program), IsProgram
  PROVE  \E w \in Shown(program) :
           /\ Brings(fits, v, SendAll("RoundEnded", <<>>), w)
           /\ SameBook(v, w) /\ SameHoldings(v, w)
           /\ program = "client" => w.end_round_port = v.port
<1> DEFINE m == Letter("RoundEnded", <<>>)
<1>1. m \in Mail /\ m.type = "RoundEnded" /\ "RoundEnded" \in MessageTypes
      /\ <<>> \in Seq(Words)
  BY EmptySeq DEF Letter, Mail, MessageTypes
<1>2. v \in Views(program)
  BY DEF Shown
<1> HIDE DEF m
<1>3. CASE program = "client"
  <2>1. \A u : ClientHandle(u, m) = [u EXCEPT !.end_round_port = u.port]
    BY <1>1, ClientHandles, Zenon
  <2>2. \A u \in ClientViews : [u EXCEPT !.end_round_port = u.port] \in ClientViews
    BY DEF ClientViews
  <2>3. Understood(program, m)
    BY <1>3, <2>1, <2>2 DEF Understood, HandleBy, Views
  <2>4. PICK w : w = [v EXCEPT !.end_round_port = v.port]
    OBVIOUS
  <2>5. /\ w \in Views(program) /\ SameBook(v, w)
        /\ w.port = v.port /\ w.config = v.config /\ w.end_round_port = v.port
    BY <1>2, <1>3, <2>4 DEF Views, ClientViews, SameBook
  <2>6. Takes(fits, program, v, m, w)
    BY <1>1, <1>3, <2>1, <2>3, <2>4 DEF Takes, HandleBy
  <2>7. w \in Shown(program)
    BY <2>5, SameBookShown
  <2>8. Brings(fits, v, SendAll("RoundEnded", <<>>), w)
    BY <1>1, <2>6, <2>7, SentToAll DEF m
  <2> QED BY <1>3, <2>5, <2>7, <2>8 DEF SameHoldings
<1>4. CASE program = "admin"
  <2>1. \A u : AdminHandle(u, m) = u
    BY <1>1, AdminHandles, Zenon
  <2>2. Understood(program, m)
    BY <1>4, <2>1 DEF Understood, HandleBy
  <2>3. Takes(fits, program, v, m, v)
    BY <1>1, <1>4, <2>1, <2>2 DEF Takes, HandleBy
  <2>4. Brings(fits, v, SendAll("RoundEnded", <<>>), v)
    BY <1>1, <2>3, SentToAll DEF m
  <2> QED BY <1>4, <2>4 DEF SameHoldings, SameBook
<1> QED BY <1>3, <1>4 DEF IsProgram

\* Then it is told the dividend.
LEMMA DividendSent ==
  ASSUME NEW fits, NEW v \in Shown(program), NEW d \in Int, IsProgram
  PROVE  \E w \in Shown(program) :
           /\ Brings(fits, v, SendAll("DividendStarted", <<d>>), w)
           /\ SameBook(v, w) /\ SameHoldings(v, w)
           /\ program = "client" =>
                w.end_round_port = v.end_round_port /\ w.last_dividend = d
<1> DEFINE m == Letter("DividendStarted", <<d>>)
<1>1. m \in Mail /\ m.type = "DividendStarted" /\ "DividendStarted" \in MessageTypes
      /\ <<d>> \in Seq(Words) /\ m.body[1] = d
  <2>1. d \in Words
    BY WordsFacts
  <2> QED BY <2>1 DEF Letter, Mail, MessageTypes
<1>2. v \in Views(program)
  BY DEF Shown
<1> HIDE DEF m
<1>3. \A u : HandleBy(program, u, m) = [u EXCEPT !.last_dividend = d]
  <2>1. \A u : /\ ClientHandle(u, m) = [u EXCEPT !.last_dividend = m.body[1]]
              /\ AdminHandle(u, m) = [u EXCEPT !.last_dividend = m.body[1]]
    BY <1>1, ClientHandles, AdminHandles, ZenonT(30)
  <2> QED BY <1>1, <2>1, Zenon DEF HandleBy
<1>4. \A u \in Views(program) : [u EXCEPT !.last_dividend = d] \in Views(program)
  <2>1. \A u \in ClientViews : [u EXCEPT !.last_dividend = d] \in ClientViews
    BY DEF ClientViews
  <2>2. \A u \in AdminViews : [u EXCEPT !.last_dividend = d] \in AdminViews
    BY DEF AdminViews
  <2> QED BY <2>1, <2>2 DEF Views
<1>5. Understood(program, m)
  BY <1>3, <1>4 DEF Understood
<1>6. PICK w : w = [v EXCEPT !.last_dividend = d]
  OBVIOUS
<1>7. /\ w \in Views(program) /\ SameBook(v, w) /\ SameHoldings(v, w)
      /\ program = "client" =>
           w.end_round_port = v.end_round_port /\ w.last_dividend = d
  <2>1. CASE program = "client"
    BY <1>2, <1>6, <2>1 DEF Views, ClientViews, SameBook, SameHoldings
  <2>2. CASE program = "admin"
    BY <1>2, <1>6, <2>2 DEF Views, AdminViews, SameBook, SameHoldings
  <2> QED BY <2>1, <2>2 DEF IsProgram
<1>8. Takes(fits, program, v, m, w)
  BY <1>1, <1>3, <1>5, <1>6 DEF Takes
<1>9. w \in Shown(program)
  BY <1>7, SameBookShown
<1>10. Brings(fits, v, SendAll("DividendStarted", <<d>>), w)
  BY <1>1, <1>8, <1>9, SentToAll DEF m
<1> QED BY <1>7, <1>9, <1>10

\* At the start of the review it sets the holdings after the dividend aside.
LEMMA ReviewSent ==
  ASSUME NEW fits, NEW v \in Shown(program), IsProgram,
         fits /\ program = "client" => AddsUp([v EXCEPT !.post_dividend_port = v.port])
  PROVE  \E w \in Shown(program) :
           /\ Brings(fits, v, SendAll("ReviewStarted", <<>>), w)
           /\ SameBook(v, w) /\ SameHoldings(v, w)
<1> DEFINE m == Letter("ReviewStarted", <<>>)
<1>1. m \in Mail /\ m.type = "ReviewStarted" /\ "ReviewStarted" \in MessageTypes
      /\ <<>> \in Seq(Words)
  BY EmptySeq DEF Letter, Mail, MessageTypes
<1>2. v \in Views(program)
  BY DEF Shown
<1> HIDE DEF m
<1>3. CASE program = "client"
  <2>1. \A u : ClientHandle(u, m) = [u EXCEPT !.post_dividend_port = u.port]
    BY <1>1, ClientHandles, Zenon
  <2>2. \A u \in ClientViews : [u EXCEPT !.post_dividend_port = u.port] \in ClientViews
    BY DEF ClientViews
  <2>3. Understood(program, m)
    BY <1>3, <2>1, <2>2 DEF Understood, HandleBy, Views
  <2>4. PICK w : w = [v EXCEPT !.post_dividend_port = v.port]
    OBVIOUS
  <2>5. /\ w \in Views(program) /\ SameBook(v, w)
        /\ w.port = v.port /\ w.config = v.config
    BY <1>2, <1>3, <2>4 DEF Views, ClientViews, SameBook
  <2>6. Takes(fits, program, v, m, w)
    BY <1>1, <1>3, <2>1, <2>3, <2>4 DEF Takes, HandleBy
  <2>7. w \in Shown(program)
    BY <2>5, SameBookShown
  <2>8. Brings(fits, v, SendAll("ReviewStarted", <<>>), w)
    BY <1>1, <2>6, <2>7, SentToAll DEF m
  <2> QED BY <1>3, <2>5, <2>7, <2>8 DEF SameHoldings
<1>4. CASE program = "admin"
  <2>1. \A u : AdminHandle(u, m) = u
    BY <1>1, AdminHandles, Zenon
  <2>2. Understood(program, m)
    BY <1>4, <2>1 DEF Understood, HandleBy
  <2>3. Takes(fits, program, v, m, v)
    BY <1>1, <1>4, <2>1, <2>2 DEF Takes, HandleBy
  <2>4. Brings(fits, v, SendAll("ReviewStarted", <<>>), v)
    BY <1>1, <2>3, SentToAll DEF m
  <2> QED BY <1>4, <2>4 DEF SameHoldings, SameBook
<1> QED BY <1>3, <1>4 DEF IsProgram

\* The ids that the result of an offer reports as replaced
ReplacedIds(res) == {res.retracts[i].request.offer_id : i \in DOMAIN res.retracts}

\* The two sides that are shown once an accepted offer has been read
BidsWith(v, res) ==
  Retract(v.bids \cup (IF IsAsk(res.offer) THEN {} ELSE {res.offer}),
          {t.bid_id : t \in res.trade} \cup ReplacedIds(res))

AsksWith(v, res) ==
  Retract(v.asks \cup (IF IsAsk(res.offer) THEN {res.offer} ELSE {}),
          {t.ask_id : t \in res.trade} \cup ReplacedIds(res))

\* What an accepted offer makes of a view
TookOffer(prog, v, res, w) ==
  /\ w \in Views(prog)
  /\ w.bids = BidsWith(v, res) /\ w.asks = AsksWith(v, res)
  /\ w.transactions = v.transactions \o SetToSeq(res.trade)
  /\ w.round_conf = v.round_conf
  /\ prog = "client" => w.port = v.port /\ w.config = v.config
  /\ prog = "admin" => w.player_ports = v.player_ports

\* Both programs come to the same.
LEMMA OfferTaken ==
  ASSUME NEW prog \in {"client", "admin"}, NEW v \in Views(prog), NEW res,
         res.offer \in Offer, res.trade \in SUBSET TradeRecord,
         IsFiniteSet(res.trade),
         NEW w, w = IF prog = "client" THEN ClientAcceptedOffer(v, res)
                    ELSE AdminAcceptedOffer(v, res)
  PROVE  TookOffer(prog, v, res, w)
<1>1. PICK more \in Seq(TradeRecord) : more = SetToSeq(res.trade)
  <2>1. SetToSeq(res.trade) \in Seq(res.trade)
    BY SetToSeqFacts
  <2> QED BY <2>1, SeqMonotonic
<1>2. BidsWith(v, res) \in SUBSET Offer /\ AsksWith(v, res) \in SUBSET Offer
  BY DEF BidsWith, AsksWith, Retract, Views, ClientViews, AdminViews
<1>3. PICK b \in SUBSET Offer : b = BidsWith(v, res)
  BY <1>2
<1>4. PICK a \in SUBSET Offer : a = AsksWith(v, res)
  BY <1>2
<1>5. v.transactions \o more \in Seq(TradeRecord)
  <2>1. v.transactions \in Seq(TradeRecord)
    BY DEF Views, ClientViews, AdminViews
  <2> QED BY <1>1, <2>1, ConcatProperties
<1>6. PICK all \in Seq(TradeRecord) : all = v.transactions \o more
  BY <1>5
<1>7. CASE prog = "client"
  <2>1. w = [v EXCEPT !.bids = b, !.asks = a, !.transactions = all]
    <3>1. v \in ClientViews
      BY <1>7 DEF Views
    <3>2. w = [v EXCEPT !.bids = BidsWith(v, res), !.asks = AsksWith(v, res),
                        !.transactions = v.transactions \o SetToSeq(res.trade)]
      BY <1>7, <3>1 DEF ClientAcceptedOffer, BidsWith, AsksWith, ReplacedIds, ClientViews
    <3> QED BY <1>1, <1>3, <1>4, <1>6, <3>2
  <2> QED BY <1>1, <1>3, <1>4, <1>6, <1>7, <2>1 DEF TookOffer, Views, ClientViews
<1>8. CASE prog = "admin"
  <2>1. v \in AdminViews
    BY <1>8 DEF Views
  <2>2. PICK replaced : replaced = ReplacedIds(res)
    OBVIOUS
  <2>3. PICK queued : queued = IF IsAsk(res.offer)
                               THEN [v EXCEPT !.asks = v.asks \cup {res.offer}]
                               ELSE [v EXCEPT !.bids = v.bids \cup {res.offer}]
    OBVIOUS
  <2>4. /\ queued \in AdminViews
        /\ queued.bids = v.bids \cup (IF IsAsk(res.offer) THEN {} ELSE {res.offer})
        /\ queued.asks = v.asks \cup (IF IsAsk(res.offer) THEN {res.offer} ELSE {})
        /\ queued.transactions = v.transactions /\ queued.round_conf = v.round_conf
        /\ queued.player_ports = v.player_ports
    BY <2>1, <2>3 DEF AdminViews
  <2>5. PICK x : x = Retract(queued.bids, {t.bid_id : t \in res.trade})
    OBVIOUS
  <2>6. PICK y : y = Retract(queued.asks, {t.ask_id : t \in res.trade})
    OBVIOUS
  <2>7. Retract(x, replaced) = b /\ Retract(y, replaced) = a
    BY <1>3, <1>4, <2>2, <2>4, <2>5, <2>6 DEF Retract, BidsWith, AsksWith
  <2>8. PICK traded : traded = [queued EXCEPT !.asks = y, !.bids = x, !.transactions = all]
    OBVIOUS
  <2>9. w = AdminRetract(traded, replaced)
    <3>1. traded = [queued EXCEPT
                      !.asks = Retract(queued.asks, {t.ask_id : t \in res.trade}),
                      !.bids = Retract(queued.bids, {t.bid_id : t \in res.trade}),
                      !.transactions = queued.transactions \o SetToSeq(res.trade)]
      BY <1>1, <1>6, <2>4, <2>5, <2>6, <2>8
    <3> QED BY <1>8, <2>1, <2>2, <2>3, <2>4, <3>1
          DEF AdminAcceptedOffer, ReplacedIds, AdminViews
  <2>10. x \in SUBSET Offer /\ y \in SUBSET Offer
    BY <2>4, <2>5, <2>6 DEF Retract, AdminViews
  <2>11. traded \in AdminViews /\ traded.bids = x /\ traded.asks = y
         /\ traded.transactions = all /\ traded.round_conf = v.round_conf
         /\ traded.player_ports = v.player_ports
    BY <2>4, <2>8, <2>10 DEF AdminViews
  <2>12. w = [traded EXCEPT !.bids = b, !.asks = a]
    BY <2>7, <2>9, <2>11 DEF AdminRetract, AdminViews
  <2> QED BY <1>1, <1>3, <1>4, <1>6, <1>8, <2>11, <2>12 DEF TookOffer, Views, AdminViews
<1> QED BY <1>7, <1>8

\* The result that is sent for an accepted offer of p
Announced(p, o, trade, ids) ==
  [validity |-> "Accepted", offer |-> o, trade |-> trade,
   retracts |-> [i \in DOMAIN SetToSeq(ids) |-> AcceptedRetraction(p, SetToSeq(ids)[i])]]

LEMMA AnnouncedFacts ==
  ASSUME NEW p \in Subjects, NEW o \in Offer,
         NEW trade, trade = {} \/ \E t \in TradeRecord : trade = {t},
         NEW ids \in SUBSET Nat, IsFiniteSet(ids)
  PROVE  /\ Announced(p, o, trade, ids) \in SubmissionResults(Words)
         /\ ReplacedIds(Announced(p, o, trade, ids)) = ids
<1> DEFINE s == SetToSeq(ids)
           rs == [i \in DOMAIN s |-> AcceptedRetraction(p, s[i])]
           n == Cardinality(ids)
<1>1. n \in Nat /\ s \in [1..n -> ids] /\ \A x \in ids : \E i \in 1..n : s[i] = x
  BY SetToSeqFacts
<1> HIDE DEF s, n
<1>2. \A x \in ids : /\ AcceptedRetraction(p, x) \in RetractResults(Words)
                     /\ AcceptedRetraction(p, x).request.offer_id = x
  <2>1. "RetractAccepted" \in {RetractValidities[k] : k \in DOMAIN RetractValidities}
    <3>1. DOMAIN RetractValidities = 1..4 /\ RetractValidities[1] = "RetractAccepted"
      BY DEF RetractValidities
    <3> QED BY <3>1
  <2>2. p \in Words /\ \A x \in ids : x \in Words
    BY WordsFacts
  <2> HIDE DEF RetractValidities
  <2> QED BY <2>1, <2>2 DEF AcceptedRetraction, RetractResults
<1>3. rs \in Seq(RetractResults(Words))
  <2>1. rs \in [1..n -> RetractResults(Words)]
    BY <1>1, <1>2
  <2> QED BY <1>1, <2>1
<1>4. {rs[i].request.offer_id : i \in DOMAIN rs} = ids
  <2>1. DOMAIN rs = 1..n /\ \A i \in 1..n : rs[i].request.offer_id = s[i] /\ s[i] \in ids
    BY <1>1, <1>2
  <2> HIDE DEF rs
  <2> QED BY <1>1, <2>1
<1>5. "Accepted" \in {OfferValidity[k] : k \in DOMAIN OfferValidity}
  <2>1. DOMAIN OfferValidity = 1..8 /\ OfferValidity[1] = "Accepted"
    BY DEF OfferValidity
  <2> QED BY <2>1
<1>6. o \in Offers(Words)
  BY WordsFacts DEF Offer, Offers
<1>7. trade \in {{}} \cup {{t} : t \in Trades(Words)}
  <2>1. TradeRecord \subseteq Trades(Words)
    BY WordsFacts DEF TradeRecord, Trades
  <2> QED BY <2>1
<1>8. Announced(p, o, trade, ids)
        = [validity |-> "Accepted", offer |-> o, trade |-> trade, retracts |-> rs]
  BY Zenon DEF Announced, s
<1> HIDE DEF rs
<1>9. Announced(p, o, trade, ids) \in SubmissionResults(Words)
  <2>1. PICK validity \in {OfferValidity[k] : k \in DOMAIN OfferValidity} :
          validity = "Accepted"
    BY <1>5
  <2>2. PICK some \in {{}} \cup {{t} : t \in Trades(Words)} : some = trade
    BY <1>7
  <2> HIDE DEF OfferValidity
  <2>3. [validity |-> validity, offer |-> o, trade |-> some, retracts |-> rs]
          \in SubmissionResults(Words)
    BY <1>3, <1>6 DEF SubmissionResults
  <2> QED BY <1>8, <2>1, <2>2, <2>3
<1>10. Announced(p, o, trade, ids).retracts = rs
  BY <1>8
<1> QED BY <1>4, <1>9, <1>10 DEF ReplacedIds

\* res tells of the offer o of p; shown with v, it makes a book
IsTold(v, p, o, trade, ids, res) ==
  /\ trade = {} \/ \E t \in TradeRecord : trade = {t}
  /\ ids \in SUBSET Nat /\ IsFiniteSet(ids)
  /\ res = Announced(p, o, trade, ids)
  /\ ShowsABook([bids |-> BidsWith(v, res), asks |-> AsksWith(v, res)])

\* From v to w by way of that result
OfferShown(fits, v, res, w) ==
  /\ Brings(fits, v, SendAll("AcceptedOffer", WriteMarketSubmissionResult(res)), w)
  /\ w.bids = BidsWith(v, res) /\ w.asks = AsksWith(v, res)
  /\ w.transactions = v.transactions \o SetToSeq(res.trade)
  /\ w.round_conf = v.round_conf
  /\ SameHoldings(v, w)

\* An accepted offer comes to be shown, with what it replaces and trades with.
LEMMA OfferSent ==
  ASSUME NEW fits, NEW v \in Shown(program), IsProgram,
         NEW p \in Subjects, NEW o \in Offer,
         NEW trade, NEW ids, NEW res, IsTold(v, p, o, trade, ids, res)
  PROVE  \E w \in Shown(program) : OfferShown(fits, v, res, w)
<1> DEFINE body == WriteMarketSubmissionResult(res)
           m == Letter("AcceptedOffer", body)
<1> USE DEF IsTold
<1>1. res \in SubmissionResults(Words)
  BY AnnouncedFacts
<1>2. body \in Seq(Words) /\ ReadMarketSubmissionResult(body) = res
  <2>1. <<>> \in Seq(Words)
    BY EmptySeq
  <2>2. body \in Seq(Words) /\ ReadMarketSubmissionResult(body \o <<>>) = res
    BY <1>1, <2>1, WordsFacts, SubmissionResultReadBack
  <2>3. body \o <<>> = body
    BY <2>2, ConcatEmptySeq
  <2> QED BY <2>2, <2>3
<1> HIDE DEF body
<1>3. m \in Mail /\ m.type = "AcceptedOffer" /\ m.body = body
      /\ "AcceptedOffer" \in MessageTypes
  BY <1>2 DEF Letter, Mail, MessageTypes
<1> HIDE DEF m
<1>4. res.offer = o /\ res.trade = trade
  BY DEF Announced
<1>5. res.offer \in Offer /\ res.trade \in SUBSET TradeRecord /\ IsFiniteSet(res.trade)
  <2>1. trade \in SUBSET TradeRecord
    OBVIOUS
  <2>2. IsFiniteSet(trade)
    <3>1. IsFiniteSet({}) /\ \A t : IsFiniteSet({t})
      BY FS_Singleton, FS_EmptySet
    <3> QED BY <3>1
  <2> QED BY <1>4, <2>1, <2>2
<1>6. v \in Views(program) /\ program \in {"client", "admin"}
  BY DEF Shown, IsProgram
<1>7. \A u : HandleBy(program, u, m) = IF program = "client" THEN ClientAcceptedOffer(u, res)
                                     ELSE AdminAcceptedOffer(u, res)
  <2>1. \A u : /\ ClientHandle(u, m)
                    = ClientAcceptedOffer(u, ReadMarketSubmissionResult(m.body))
              /\ AdminHandle(u, m)
                    = AdminAcceptedOffer(u, ReadMarketSubmissionResult(m.body))
    BY <1>3, ClientHandles, AdminHandles, Zenon
  <2> QED BY <1>2, <1>3, <2>1, Zenon DEF HandleBy
<1>8. Understood(program, m)
  BY <1>5, <1>6, <1>7, OfferTaken DEF Understood, TookOffer
<1>9. PICK w : w = HandleBy(program, v, m)
  OBVIOUS
<1>10. TookOffer(program, v, res, w)
  <2>1. w = IF program = "client" THEN ClientAcceptedOffer(v, res)
            ELSE AdminAcceptedOffer(v, res)
    BY <1>7, <1>9
  <2> QED BY <1>5, <1>6, <2>1, OfferTaken
<1>11. Takes(fits, program, v, m, w)
  BY <1>3, <1>8, <1>9 DEF Takes
<1>12. w \in Shown(program)
  BY <1>10 DEF Shown, ShowsABook, TookOffer
<1>13. Brings(fits, v, SendAll("AcceptedOffer", body), w)
  BY <1>2, <1>3, <1>11, <1>12, SentToAll DEF m
<1> QED BY <1>10, <1>12, <1>13 DEF OfferShown, SameHoldings, TookOffer, body

\* A retracted offer is no longer shown.
LEMMA RetractionSent ==
  ASSUME NEW fits, NEW v \in Shown(program), IsProgram,
         NEW p \in Subjects, NEW offer_id \in Nat
  PROVE  \E w \in Shown(program) :
           /\ Brings(fits, v, SendAll("AcceptedRetraction",
                                WriteRetractResult(AcceptedRetraction(p, offer_id))), w)
           /\ w.bids = Retract(v.bids, {offer_id}) /\ w.asks = Retract(v.asks, {offer_id})
           /\ w.transactions = v.transactions /\ w.round_conf = v.round_conf
           /\ SameHoldings(v, w)
<1> DEFINE rr == AcceptedRetraction(p, offer_id)
           body == WriteRetractResult(rr)
           m == Letter("AcceptedRetraction", body)
<1>1. rr \in RetractResults(Words) /\ rr.request.offer_id = offer_id
  <2>1. "RetractAccepted" \in {RetractValidities[k] : k \in DOMAIN RetractValidities}
    <3>1. DOMAIN RetractValidities = 1..4 /\ RetractValidities[1] = "RetractAccepted"
      BY DEF RetractValidities
    <3> QED BY <3>1
  <2>2. p \in Words /\ offer_id \in Words
    BY WordsFacts
  <2> HIDE DEF RetractValidities
  <2> QED BY <2>1, <2>2 DEF AcceptedRetraction, RetractResults
<1> HIDE DEF rr
<1>2. body \in Seq(Words) /\ ReadRetractResult(body) = rr
  BY <1>1, WordsFacts, RetractResultWords
<1> HIDE DEF body
<1>3. m \in Mail /\ m.type = "AcceptedRetraction" /\ m.body = body
      /\ "AcceptedRetraction" \in MessageTypes
  BY <1>2 DEF Letter, Mail, MessageTypes
<1> HIDE DEF m
<1>4. \A u : HandleBy(program, u, m)
               = [u EXCEPT !.bids = Retract(u.bids, {offer_id}),
                           !.asks = Retract(u.asks, {offer_id})]
  <2>1. \A u : /\ ClientHandle(u, m)
                    = ClientAcceptedRetraction(u, ReadRetractResult(m.body))
              /\ AdminHandle(u, m)
                    = AdminRetract(u, {ReadRetractResult(m.body).request.offer_id})
    BY <1>3, ClientHandles, AdminHandles, Zenon
  <2>2. ReadRetractResult(m.body).request.offer_id = offer_id
    BY <1>1, <1>2, <1>3
  <2> QED BY <2>1, <2>2, Zenon DEF HandleBy, ClientAcceptedRetraction, AdminRetract
<1>5. \A u \in Views(program) :
        [u EXCEPT !.bids = Retract(u.bids, {offer_id}),
                  !.asks = Retract(u.asks, {offer_id})] \in Views(program)
  <2>1. \A x \in SUBSET Offer : Retract(x, {offer_id}) \in SUBSET Offer
    BY DEF Retract
  <2>2. \A u \in ClientViews :
          [u EXCEPT !.bids = Retract(u.bids, {offer_id}),
                    !.asks = Retract(u.asks, {offer_id})] \in ClientViews
    BY <2>1 DEF ClientViews
  <2>3. \A u \in AdminViews :
          [u EXCEPT !.bids = Retract(u.bids, {offer_id}),
                    !.asks = Retract(u.asks, {offer_id})] \in AdminViews
    BY <2>1 DEF AdminViews
  <2> QED BY <2>2, <2>3 DEF Views
<1>6. Understood(program, m)
  BY <1>4, <1>5 DEF Understood
<1>7. PICK w : w = [v EXCEPT !.bids = Retract(v.bids, {offer_id}),
                             !.asks = Retract(v.asks, {offer_id})]
  OBVIOUS
<1>8. v \in Views(program)
  BY DEF Shown
<1>9. /\ w.bids = Retract(v.bids, {offer_id}) /\ w.asks = Retract(v.asks, {offer_id})
      /\ w.transactions = v.transactions /\ w.round_conf = v.round_conf
      /\ SameHoldings(v, w)
  <2>1. CASE program = "client"
    BY <1>7, <1>8, <2>1 DEF Views, ClientViews, SameHoldings
  <2>2. CASE program = "admin"
    BY <1>7, <1>8, <2>2 DEF Views, AdminViews, SameHoldings
  <2> QED BY <2>1, <2>2 DEF IsProgram
<1>10. w \in Shown(program)
  <2>1. w \in Views(program)
    BY <1>5, <1>7, <1>8
  <2>2. w.bids \subseteq v.bids /\ w.asks \subseteq v.asks
    BY <1>9, RetractFact
  <2> QED BY <2>1, <2>2 DEF Shown, ShowsABook
<1>11. Takes(fits, program, v, m, w)
  BY <1>3, <1>4, <1>6, <1>7 DEF Takes
<1>12. Brings(fits, v, SendAll("AcceptedRetraction", body), w)
  BY <1>2, <1>3, <1>10, <1>11, SentToAll DEF m
<1> QED BY <1>9, <1>10, <1>12 DEF body, rr

-----------------------------------------------------------------------------
(* The invariant                                                           *)

\* What the view that has caught up has been told of the holdings
Holds(c, port) ==
  /\ program = "client" => c.port = Wrapped(port[Viewer]) /\ c.config = Heard(Viewer)
  /\ program = "admin" => \A p \in Subjects : c.player_ports[p] = Wrapped(port[p])

\* What it has been told altogether
Told(c) ==
  /\ callback = "EndRound" => c.bids = bids /\ c.asks = asks
  /\ exp.status # "NotStarted" => c.round_conf = RoundSettings(exp.round)
  /\ exp.status # "NotStarted" => Holds(c, folio)
  /\ \A t \in result.trade : Last(c.transactions) = t

\* The server's book is in order, and the messages on their way lead, over
\* books alone, to a view that has been told everything.
MirrorInvariant(fits) ==
  /\ BookInvariant
  /\ IsProgram
  /\ \E c : Leads(fits, program, view, inbox, c) /\ Told(c)

\* The server acts on what the program will have caught up with: c.
Acting(c) ==
  /\ BookInvariant /\ BookInvariant'
  /\ IsProgram /\ program' = program
  /\ c \in Shown(program)
  /\ Told(c)

\* What is sent lets the program catch up again.
CatchesUp(fits, c, messages) ==
  \E d : Brings(fits, c, messages, d) /\ Told(d)'

LEMMA InvariantExtends ==
  ASSUME NEW fits, BookInvariant', IsProgram, NEW c,
         Leads(fits, program, view, inbox, c),
         NEW messages, CatchesUp(fits, c, messages), Sends(messages), view' = view
  PROVE  MirrorInvariant(fits)'
<1>1. PICK d : Brings(fits, c, messages, d) /\ Told(d)'
  BY DEF CatchesUp
<1>2. inbox' = inbox \o Delivered(messages) /\ program' = program
  BY DEF Sends
<1>3. Leads(fits, program, view, inbox \o Delivered(messages), d)
  BY <1>1, LeadsOn DEF Brings
<1>4. Leads(fits, program', view', inbox', d)
  BY <1>2, <1>3
<1>5. IsProgram'
  BY <1>2 DEF IsProgram
<1> QED BY <1>1, <1>4, <1>5 DEF MirrorInvariant

-----------------------------------------------------------------------------
(* Handlers that send nothing                                              *)

LEMMA NothingNew ==
  ASSUME NEW fits, NEW c, Acting(c), folio' = folio,
         callback' = "EndRound" => callback = "EndRound" /\ bids' = bids /\ asks' = asks,
         exp'.status # "NotStarted" =>
           exp.status # "NotStarted" /\ exp'.round = exp.round,
         result'.trade \subseteq result.trade
  PROVE  CatchesUp(fits, c, <<>>)
<1>1. Brings(fits, c, <<>>, c)
  BY BringsNothing DEF Acting
<1>2. Told(c)'
  BY DEF Acting, Told, Holds
<1> QED BY <1>1, <1>2 DEF CatchesUp

LEMMA NothingCatchesUp ==
  ASSUME NEW fits, NEW c, Acting(c), EndEarly \/ Tick
  PROVE  CatchesUp(fits, c, <<>>)
<1>1. CASE Tick
  BY <1>1, NothingNew DEF Tick
<1>2. CASE EndEarly
  <2>1. exp \in [round : 0..NRounds, status : Status, stage : Stage]
    BY DEF Acting, BookInvariant, TypeOK
  <2>2. exp'.status = exp.status /\ exp'.round = exp.round
    BY <1>2, <2>1 DEF EndEarly, StartPayouts, WithStage
  <2>3. result'.trade = {}
    BY <1>2 DEF EndEarly, StartPayouts, JustReporting, Reporting
  <2> QED BY <1>2, <2>2, <2>3, NothingNew DEF EndEarly
<1> QED BY <1>1, <1>2

\* What the market's being open says
LEMMA OpenFacts ==
  ASSUME BookInvariant, IsMarketOpen(exp)
  PROVE  callback = "EndRound" /\ exp.status # "NotStarted"
BY DEF BookInvariant, TypeOK, IsMarketOpen

-----------------------------------------------------------------------------
(* Retracting an offer and creating a share                                *)

RetractionNews(p) ==
  IF result'.validity # "RetractAccepted" THEN <<>>
  ELSE SendAll("AcceptedRetraction",
               WriteRetractResult(AcceptedRetraction(p, TheOnly(result'.retracts))))

LEMMA RetractionCatchesUp ==
  ASSUME NEW fits, NEW c, Acting(c), NEW p \in Subjects, RetractOffer(p)
  PROVE  CatchesUp(fits, c, RetractionNews(p))
<1>1. PICK offer_id \in 0..id :
        LET validity == RetractValidity(p, offer_id)
            gone == IF validity = "RetractAccepted" THEN {offer_id} ELSE {}
        IN /\ bids' = Retract(bids, gone)
           /\ asks' = Retract(asks, gone)
           /\ result' = Reporting(validity, {}, {}, gone)
           /\ UNCHANGED <<folio, payoff, exp, callback, clock, id>>
  BY DEF RetractOffer
<1>2. result'.trade = {} /\ result'.validity = RetractValidity(p, offer_id)
  BY <1>1 DEF Reporting
<1>3. CASE RetractValidity(p, offer_id) # "RetractAccepted"
  <2>1. bids' = bids /\ asks' = asks
    BY <1>1, <1>3, RetractFact
  <2>2. RetractionNews(p) = <<>>
    BY <1>2, <1>3 DEF RetractionNews
  <2> QED BY <1>1, <1>2, <2>1, <2>2, NothingNew
<1>4. CASE RetractValidity(p, offer_id) = "RetractAccepted"
  <2>1. bids' = Retract(bids, {offer_id}) /\ asks' = Retract(asks, {offer_id})
        /\ result'.retracts = {offer_id}
    BY <1>1, <1>4 DEF Reporting
  <2>2. IsMarketOpen(exp)
    BY <1>4 DEF RetractValidity
  <2>3. callback = "EndRound" /\ exp.status # "NotStarted"
    BY <2>2, OpenFacts DEF Acting
  <2>4. TheOnly(result'.retracts) = offer_id
    BY <2>1 DEF TheOnly
  <2>5. RetractionNews(p)
          = SendAll("AcceptedRetraction", WriteRetractResult(AcceptedRetraction(p, offer_id)))
    BY <1>2, <1>4, <2>4 DEF RetractionNews
  <2>6. offer_id \in Nat
    BY DEF Acting, BookInvariant, TypeOK
  <2>7. PICK w \in Shown(program) :
          /\ Brings(fits, c, SendAll("AcceptedRetraction",
                               WriteRetractResult(AcceptedRetraction(p, offer_id))), w)
          /\ w.bids = Retract(c.bids, {offer_id}) /\ w.asks = Retract(c.asks, {offer_id})
          /\ w.transactions = c.transactions /\ w.round_conf = c.round_conf
          /\ SameHoldings(c, w)
    BY <2>6, RetractionSent DEF Acting
  <2>8. Told(w)'
    BY <1>1, <1>2, <2>1, <2>3, <2>7 DEF Acting, Told, Holds, SameHoldings
  <2> QED BY <2>5, <2>7, <2>8 DEF CatchesUp
<1> QED BY <1>3, <1>4

\* What telling of the holdings of p changes
LEMMA WithPortFacts ==
  ASSUME NEW v \in Shown(program), NEW p \in Subjects, NEW port \in Counts, IsProgram
  PROVE  /\ SameBook(v, WithPort(v, p, port))
         /\ program = "client" =>
              /\ WithPort(v, p, port).port = IF p = Viewer THEN Wrapped(port) ELSE v.port
              /\ WithPort(v, p, port).config = v.config
              /\ WithPort(v, p, port).end_round_port = v.end_round_port
              /\ WithPort(v, p, port).last_dividend = v.last_dividend
         /\ program = "admin" =>
              WithPort(v, p, port).player_ports
                = [v.player_ports EXCEPT ![p] = Wrapped(port)]
<1>1. v \in Views(program)
  BY DEF Shown
<1>2. PICK w : w = WithPort(v, p, port)
  OBVIOUS
<1>3. CASE program = "client"
  BY <1>1, <1>2, <1>3 DEF WithPort, Views, ClientViews, SameBook
<1>4. CASE program = "admin"
  <2>1. w = [v EXCEPT !.player_ports[p] = Wrapped(port)]
    BY <1>2, <1>4 DEF WithPort
  <2> QED BY <1>1, <1>2, <1>4, <2>1 DEF Views, AdminViews, SameBook
<1> QED BY <1>3, <1>4 DEF IsProgram

LEMMA HoldingsAreCounts ==
  ASSUME NEW c, Acting(c)
  PROVE  folio \in [Subjects -> Counts] /\ folio' \in [Subjects -> Counts]
BY DEF Acting, BookInvariant, TypeOK, Portfolio, Counts

\* What a view has been told of the holdings of the subjects in S
Knows(v, port, S) ==
  /\ program = "client" /\ Viewer \in S => v.port = Wrapped(port[Viewer])
  /\ program = "admin" => \A q \in S : v.player_ports[q] = Wrapped(port[q])

\* What the portfolios that are sent leave alone
SameButPort(v, w) ==
  /\ SameBook(v, w)
  /\ program = "client" =>
       /\ w.config = v.config
       /\ w.end_round_port = v.end_round_port /\ w.last_dividend = v.last_dividend

\* A portfolio that is sent adds its subject to those that are known of.
LEMMA PortfolioNews ==
  ASSUME NEW fits, IsProgram, folio' \in [Subjects -> Counts],
         NEW v \in Shown(program), NEW p \in Subjects,
         NEW S \in SUBSET Subjects, Knows(v, folio', S)
  PROVE  \E w \in Shown(program) :
           /\ Brings(fits, v, SendPortfolio(p), w)
           /\ Knows(w, folio', S \cup {p})
           /\ SameButPort(v, w)
<1>1. PICK port \in Counts : port = folio'[p]
  OBVIOUS
<1>2. PICK w \in Shown(program) : w = WithPort(v, p, port)
  BY WithPortShown
<1>3. Brings(fits, v, SendPortfolio(p), w)
  BY <1>1, <1>2, PortfolioSent DEF SendPortfolio
<1>4. /\ SameBook(v, w)
      /\ program = "client" =>
           /\ w.port = IF p = Viewer THEN Wrapped(port) ELSE v.port
           /\ w.config = v.config
           /\ w.end_round_port = v.end_round_port
           /\ w.last_dividend = v.last_dividend
      /\ program = "admin" =>
           w.player_ports = [v.player_ports EXCEPT ![p] = Wrapped(port)]
  BY <1>2, WithPortFacts
<1>5. Knows(w, folio', S \cup {p})
  <2>1. CASE program = "client"
    BY <1>1, <1>4, <2>1 DEF Knows
  <2>2. CASE program = "admin"
    <3>1. v.player_ports \in [Subjects -> Counts]
      BY <2>2 DEF Shown, Views, AdminViews
    <3> QED BY <1>1, <1>4, <2>2, <3>1 DEF Knows
  <2> QED BY <2>1, <2>2 DEF IsProgram
<1> QED BY <1>3, <1>4, <1>5 DEF SameButPort

\* Holds, of all subjects, told to the one program
LEMMA KnowsAll ==
  ASSUME NEW v, NEW port, Knows(v, port, Subjects), IsProgram,
         program = "client" => v.config = Heard(Viewer)
  PROVE  Holds(v, port)
BY ViewerAssumption DEF Knows, Holds

CreationNews(p) ==
  IF result'.validity # "CreateAccepted" THEN <<>> ELSE SendPortfolio(p)

LEMMA CreationCatchesUp ==
  ASSUME NEW fits, NEW c, Acting(c), NEW p \in Subjects, CreateAsset(p)
  PROVE  CatchesUp(fits, c, CreationNews(p))
<1>1. /\ result'.trade = {} /\ result'.validity = CreateValidity(p)
      /\ UNCHANGED <<bids, asks, payoff, exp, callback, clock, id>>
  BY DEF CreateAsset, JustReporting, Reporting
<1>2. CASE CreateValidity(p) # "CreateAccepted"
  <2>1. folio' = folio /\ CreationNews(p) = <<>>
    BY <1>1, <1>2 DEF CreateAsset, CreationNews
  <2> QED BY <1>1, <2>1, NothingNew
<1>3. CASE CreateValidity(p) = "CreateAccepted"
  <2>1. callback = "EndRound" /\ exp.status # "NotStarted"
    BY <1>3, OpenFacts DEF CreateValidity, Acting
  <2>2. folio' \in [Subjects -> Counts] /\ \A q \in Subjects \ {p} : folio'[q] = folio[q]
    BY <1>3, HoldingsAreCounts DEF CreateAsset
  <2>3. CreationNews(p) = SendPortfolio(p)
    BY <1>1, <1>3 DEF CreationNews
  <2>4. IsProgram /\ program' = program /\ c \in Shown(program) /\ Told(c)
    BY DEF Acting
  <2>5. Knows(c, folio', Subjects \ {p})
    BY <2>1, <2>2, <2>4 DEF Knows, Told, Holds
  <2>6. PICK w \in Shown(program) :
          /\ Brings(fits, c, CreationNews(p), w)
          /\ Knows(w, folio', (Subjects \ {p}) \cup {p})
          /\ SameButPort(c, w)
    BY <2>2, <2>3, <2>4, <2>5, PortfolioNews
  <2>7. Holds(w, folio')
    <3>1. (Subjects \ {p}) \cup {p} = Subjects
      OBVIOUS
    <3>2. program = "client" => w.config = Heard(Viewer)
      BY <2>1, <2>4, <2>6 DEF SameButPort, Told, Holds
    <3> QED BY <2>4, <2>6, <3>1, <3>2, KnowsAll
  <2>8. Told(w)'
    BY <1>1, <2>1, <2>4, <2>6, <2>7 DEF Told, Holds, SameButPort, SameBook
  <2> QED BY <2>6, <2>8 DEF CatchesUp
<1> QED BY <1>2, <1>3

-----------------------------------------------------------------------------
(* Submitting an offer                                                     *)

\* What an accepted offer leaves of the book, and what is reported of it
AcceptedWith(o, trade) ==
  /\ trade = {} \/ \E t \in TradeRecord : trade = {t}
  /\ Replaced(o) \in SUBSET Nat /\ IsFiniteSet(Replaced(o))
  /\ result' = Reporting("Accepted", {o}, trade, Replaced(o))
  /\ bids' = Retract(bids \cup (IF IsAsk(o) THEN {} ELSE {o}),
                     {t.bid_id : t \in trade} \cup Replaced(o))
  /\ asks' = Retract(asks \cup (IF IsAsk(o) THEN {o} ELSE {}),
                     {t.ask_id : t \in trade} \cup Replaced(o))
  /\ trade = {} => folio' = folio
  /\ \A t \in trade : folio' = Settle(folio, t)

\* The ids of finitely many offers are finitely many.
LEMMA IdsFinite ==
  ASSUME NEW S \in SUBSET Offer, IsFiniteSet(S)
  PROVE  IdsOf(S) \in SUBSET Nat /\ IsFiniteSet(IdsOf(S))
<1> DEFINE f == [x \in S |-> x.id]
<1>1. IdsOf(S) \in SUBSET Nat
  BY DEF IdsOf, Offer
<1>2. f \in Surjection(S, IdsOf(S))
  BY DEF Surjection, IdsOf
<1>3. IsFiniteSet(IdsOf(S))
  BY <1>2, FS_Surjection, Zenon
<1> QED BY <1>1, <1>3

\* The offer is new, so what is replaced can be left out before or after.
LEMMA AcceptedAtOnce ==
  ASSUME BookInvariant, NEW o \in Offer, o.id = id,
         NEW opposite \in StandingOffer(OtherSide(o)), Accept(o, opposite)
  PROVE  \E trade : AcceptedWith(o, trade)
<1> DEFINE same == Retract(SameSide(o), Replaced(o)) \cup {o}
           own == OffersOf(SameSide(o), o.player_id)
<1>1. PICK mine \in StandingOffer(same) :
        LET trade == IF IsAsk(o) THEN PeekPotentialTrade(opposite, mine)
                                 ELSE PeekPotentialTrade(mine, opposite)
        IN /\ bids' = Retract(Retract(bids, Replaced(o)) \cup
                                (IF IsAsk(o) THEN {} ELSE {o}),
                              {t.bid_id : t \in trade})
           /\ asks' = Retract(Retract(asks, Replaced(o)) \cup
                                (IF IsAsk(o) THEN {o} ELSE {}),
                              {t.ask_id : t \in trade})
           /\ IF trade = {} THEN folio' = folio
              ELSE \E t \in trade : folio' = Settle(folio, t)
           /\ result' = Reporting("Accepted", {o}, trade, Replaced(o))
  BY DEF Accept
<1>2. PICK trade : trade = IF IsAsk(o) THEN PeekPotentialTrade(opposite, mine)
                                       ELSE PeekPotentialTrade(mine, opposite)
  OBVIOUS
<1>3. /\ bids' = Retract(Retract(bids, Replaced(o)) \cup
                           (IF IsAsk(o) THEN {} ELSE {o}),
                         {t.bid_id : t \in trade})
      /\ asks' = Retract(Retract(asks, Replaced(o)) \cup
                           (IF IsAsk(o) THEN {o} ELSE {}),
                         {t.ask_id : t \in trade})
      /\ IF trade = {} THEN folio' = folio
         ELSE \E t \in trade : folio' = Settle(folio, t)
      /\ result' = Reporting("Accepted", {o}, trade, Replaced(o))
  BY <1>1, <1>2
<1>4. bids \subseteq Offer /\ asks \subseteq Offer /\ IsFiniteSet(bids)
      /\ IsFiniteSet(asks) /\ id \in Nat
  BY DEF BookInvariant, TypeOK
<1>5. SameSide(o) \subseteq Offer /\ OtherSide(o) \subseteq Offer
      /\ IsFiniteSet(SameSide(o)) /\ \A x \in SameSide(o) : x.id # o.id
  BY <1>4 DEF SameSide, OtherSide, BookInvariant, Offer
<1>6. trade = {} \/ \E t \in TradeRecord : trade = {t}
  <2>1. PICK m \in Offer : mine = {m}
    <3>1. same \subseteq Offer /\ same # {}
      BY <1>5, RetractFact
    <3> QED BY <3>1, StandingFact
  <2>2. opposite = {} \/ \E r \in Offer : opposite = {r}
    BY <1>5, StandingFact
  <2>3. CASE opposite = {}
    BY <1>2, <2>3 DEF PeekPotentialTrade
  <2>4. ASSUME NEW r \in Offer, opposite = {r}
        PROVE  trade = {} \/ \E t \in TradeRecord : trade = {t}
    <3>1. trade = {} \/ trade = {Trade(r, m)} \/ trade = {Trade(m, r)}
      BY <1>2, <2>1, <2>4 DEF PeekPotentialTrade
    <3>2. Trade(r, m) \in TradeRecord /\ Trade(m, r) \in TradeRecord
      BY TradeType
    <3> QED BY <3>1, <3>2
  <2> QED BY <2>2, <2>3, <2>4
<1>7. Replaced(o) \in SUBSET Nat /\ IsFiniteSet(Replaced(o)) /\ o.id \notin Replaced(o)
  <2>1. own \in SUBSET Offer /\ IsFiniteSet(own) /\ o.id \notin IdsOf(own)
    <3>1. own \subseteq SameSide(o)
      BY DEF OffersOf
    <3> QED BY <1>5, <3>1, SubsetFinite DEF IdsOf
  <2>2. Replaced(o) = IdsOf(own) \/ Replaced(o) = {}
    BY DEF Replaced
  <2>3. IsFiniteSet({})
    BY FS_EmptySet
  <2> QED BY <2>1, <2>2, <2>3, IdsFinite
<1>8. /\ bids' = Retract(bids \cup (IF IsAsk(o) THEN {} ELSE {o}),
                         {t.bid_id : t \in trade} \cup Replaced(o))
      /\ asks' = Retract(asks \cup (IF IsAsk(o) THEN {o} ELSE {}),
                         {t.ask_id : t \in trade} \cup Replaced(o))
  <2>1. PICK ids : ids = Replaced(o) /\ o.id \notin ids
    BY <1>7
  <2>2. PICK gone : gone = {t.bid_id : t \in trade}
    OBVIOUS
  <2>3. PICK taken : taken = {t.ask_id : t \in trade}
    OBVIOUS
  <2>4. \A side, x : Retract(Retract(side, ids) \cup (IF IsAsk(o) THEN {} ELSE {o}), x)
                       = Retract(side \cup (IF IsAsk(o) THEN {} ELSE {o}), x \cup ids)
    BY <2>1 DEF Retract
  <2>5. \A side, x : Retract(Retract(side, ids) \cup (IF IsAsk(o) THEN {o} ELSE {}), x)
                       = Retract(side \cup (IF IsAsk(o) THEN {o} ELSE {}), x \cup ids)
    BY <2>1 DEF Retract
  <2> QED BY <1>3, <2>1, <2>2, <2>3, <2>4, <2>5, ZenonT(30)
<1>9. trade = {} => folio' = folio
  BY <1>3
<1>10. \A t \in trade : folio' = Settle(folio, t)
  BY <1>3, <1>6
<1> QED BY <1>3, <1>6, <1>7, <1>8, <1>9, <1>10 DEF AcceptedWith

\* The messages to the parties of a trade
TradeNews(trade) ==
  FlattenSeq([i \in 1..Cardinality(trade) |->
    SendPortfolio(TheOnly(trade).buyer) \o SendPortfolio(TheOnly(trade).seller)])

\* All that is told of an accepted offer
OfferIsNews(p, o, trade) ==
  SendAll("AcceptedOffer",
          WriteMarketSubmissionResult(Announced(p, o, trade, Replaced(o))))
    \o TradeNews(trade)

LEMMA OfferNewsIs ==
  ASSUME NEW p, NEW o, NEW trade, AcceptedWith(o, trade)
  PROVE  OfferNews(p) = OfferIsNews(p, o, trade)
<1>1. result' = Reporting("Accepted", {o}, trade, Replaced(o))
  BY DEF AcceptedWith
<1>2. /\ result'.validity = "Accepted" /\ result'.offer = {o}
      /\ result'.trade = trade /\ result'.retracts = Replaced(o)
  BY <1>1 DEF Reporting
<1>3. TheOnly(result'.offer) = o
  BY <1>2 DEF TheOnly
<1>4. SubmissionResult(p) = Announced(p, o, trade, Replaced(o))
  BY <1>2, <1>3, Zenon DEF SubmissionResult, Announced
<1> QED BY <1>2, <1>4, Zenon DEF OfferNews, OfferIsNews, TradeNews

\* The portfolios of the two parties, if there has been a trade
LEMMA TradeNewsTells ==
  ASSUME NEW fits, IsProgram, folio' \in [Subjects -> Counts],
         NEW v \in Shown(program),
         NEW trade, trade = {} \/ \E t \in TradeRecord : trade = {t},
         Knows(v, folio', {q \in Subjects :
                             \A t \in trade : q \notin {t.buyer, t.seller}})
  PROVE  \E w \in Shown(program) :
           /\ Brings(fits, v, TradeNews(trade), w)
           /\ Knows(w, folio', Subjects)
           /\ SameButPort(v, w)
<1>1. CASE trade = {}
  <2>1. TradeNews(trade) = <<>>
    <3>1. Cardinality(trade) = 0
      BY <1>1, FS_EmptySet
    <3>2. PICK f : f = [i \in 1..Cardinality(trade) |->
              SendPortfolio(TheOnly(trade).buyer) \o SendPortfolio(TheOnly(trade).seller)]
      OBVIOUS
    <3>3. f = <<>>
      BY <3>1, <3>2
    <3> QED BY <3>2, <3>3, FlattenNothing DEF TradeNews
  <2>2. Brings(fits, v, TradeNews(trade), v)
    BY <2>1, BringsNothing
  <2>3. Knows(v, folio', Subjects)
    <3>1. {q \in Subjects : \A t \in trade : q \notin {t.buyer, t.seller}} = Subjects
      BY <1>1
    <3> QED BY <3>1
  <2> QED BY <2>2, <2>3 DEF SameButPort, SameBook
<1>2. ASSUME NEW t \in TradeRecord, trade = {t}
      PROVE  \E w \in Shown(program) :
               /\ Brings(fits, v, TradeNews(trade), w)
               /\ Knows(w, folio', Subjects)
               /\ SameButPort(v, w)
  <2>1. t.buyer \in Subjects /\ t.seller \in Subjects
    BY DEF TradeRecord
  <2>2. PICK others \in SUBSET Subjects : others = Subjects \ {t.buyer, t.seller}
    OBVIOUS
  <2>3. Knows(v, folio', others)
    <3>1. {q \in Subjects : \A x \in trade : q \notin {x.buyer, x.seller}} = others
      BY <1>2, <2>2
    <3> QED BY <3>1
  <2>4. PICK u \in Shown(program) :
          /\ Brings(fits, v, SendPortfolio(t.buyer), u)
          /\ Knows(u, folio', others \cup {t.buyer})
          /\ SameButPort(v, u)
    BY <2>1, <2>3, PortfolioNews
  <2>5. PICK more \in SUBSET Subjects : more = others \cup {t.buyer}
    BY <2>1
  <2>6. PICK w \in Shown(program) :
          /\ Brings(fits, u, SendPortfolio(t.seller), w)
          /\ Knows(w, folio', more \cup {t.seller})
          /\ SameButPort(u, w)
    BY <2>1, <2>4, <2>5, PortfolioNews
  <2>7. Brings(fits, v, SendPortfolio(t.buyer) \o SendPortfolio(t.seller), w)
    BY <2>4, <2>6, BringsOn
  <2>8. TradeNews(trade) = SendPortfolio(t.buyer) \o SendPortfolio(t.seller)
    <3>1. TheOnly(trade) = t /\ Cardinality(trade) = 1
      BY <1>2, FS_Singleton DEF TheOnly
    <3>2. PICK x : x = SendPortfolio(t.buyer) \o SendPortfolio(t.seller)
      OBVIOUS
    <3>3. x \in Seq(Posts)
      BY <2>7, <3>2 DEF Brings
    <3>4. TradeNews(trade) = FlattenSeq([i \in 1..1 |-> x])
      BY <3>1, <3>2, Zenon DEF TradeNews
    <3>5. [i \in 1..1 |-> x] = <<x>>
      OBVIOUS
    <3> QED BY <3>2, <3>3, <3>4, <3>5, FlattenOne
  <2>9. SameButPort(v, w)
    BY <2>4, <2>6 DEF SameButPort, SameBook
  <2>10. more \cup {t.seller} = Subjects
    BY <2>1, <2>2, <2>5
  <2> QED BY <2>6, <2>7, <2>8, <2>9, <2>10
<1> QED BY <1>1, <1>2

\* An accepted offer, its trade and what it replaces come to be shown.
LEMMA AcceptedCatchesUp ==
  ASSUME NEW fits, NEW c, Acting(c), NEW p \in Subjects, NEW o \in Offer,
         NEW trade, AcceptedWith(o, trade),
         callback = "EndRound", exp.status # "NotStarted",
         UNCHANGED <<exp, callback>>
  PROVE  CatchesUp(fits, c, OfferNews(p))
<1>1. IsProgram /\ program' = program /\ c \in Shown(program) /\ Told(c)
  BY DEF Acting
<1>2. trade = {} \/ \E t \in TradeRecord : trade = {t}
  BY DEF AcceptedWith
<1>3. PICK ids \in SUBSET Nat : ids = Replaced(o) /\ IsFiniteSet(ids)
  BY DEF AcceptedWith
<1>4. PICK res : res = Announced(p, o, trade, ids)
  OBVIOUS
<1>5. res.offer = o /\ res.trade = trade /\ ReplacedIds(res) = ids
  BY <1>2, <1>3, <1>4, AnnouncedFacts DEF Announced
<1>6. c.bids = bids /\ c.asks = asks
  BY <1>1 DEF Told
<1>7. BidsWith(c, res) = bids' /\ AsksWith(c, res) = asks'
  BY <1>3, <1>5, <1>6, Zenon DEF BidsWith, AsksWith, AcceptedWith
<1>8. ShowsABook([bids |-> BidsWith(c, res), asks |-> AsksWith(c, res)])
  <2>1. Uncrossed' /\ BookIsKeyedById'
    BY DEF Acting, BookInvariant
  <2> QED BY <1>7, <2>1 DEF ShowsABook, Uncrossed, BookIsKeyedById
<1>9. PICK v \in Shown(program) : OfferShown(fits, c, res, v)
  <2>1. IsTold(c, p, o, trade, ids, res)
    BY <1>2, <1>3, <1>4, <1>8 DEF IsTold
  <2> QED BY <1>1, <2>1, OfferSent
<1> USE DEF OfferShown
<1>10. folio \in [Subjects -> Counts] /\ folio' \in [Subjects -> Counts]
  BY HoldingsAreCounts
<1>11. Holds(c, folio)
  BY <1>1 DEF Told
<1>12. Knows(v, folio', {q \in Subjects : \A t \in trade : q \notin {t.buyer, t.seller}})
  <2>1. \A q \in Subjects :
          (\A t \in trade : q \notin {t.buyer, t.seller}) => folio'[q] = folio[q]
    <3>1. \A t \in TradeRecord : \A q \in Subjects \ {t.buyer, t.seller} :
            Settle(folio, t)[q] = folio[q]
      BY <1>10 DEF Settle
    <3> QED BY <1>2, <3>1 DEF AcceptedWith
  <2>2. Holds(v, folio)
    BY <1>9, <1>11 DEF Holds, SameHoldings
  <2> QED BY <2>1, <2>2 DEF Knows, Holds
<1>13. PICK w \in Shown(program) :
         /\ Brings(fits, v, TradeNews(trade), w)
         /\ Knows(w, folio', Subjects)
         /\ SameButPort(v, w)
  BY <1>1, <1>2, <1>10, <1>12, TradeNewsTells
<1>14. Brings(fits, c, OfferNews(p), w)
  <2>1. OfferNews(p) = SendAll("AcceptedOffer", WriteMarketSubmissionResult(res))
                         \o TradeNews(trade)
    BY <1>3, <1>4, OfferNewsIs DEF OfferIsNews
  <2> QED BY <1>9, <1>13, <2>1, BringsOn
<1>15. Holds(w, folio')
  <2>1. program = "client" => w.config = Heard(Viewer)
    BY <1>9, <1>11, <1>13 DEF Holds, SameHoldings, SameButPort
  <2> QED BY <1>1, <1>13, <2>1, KnowsAll
<1>16. \A t \in result'.trade : Last(w.transactions) = t
  <2> TAKE t \in result'.trade
  <2>1. result'.trade = trade
    BY DEF AcceptedWith, Reporting
  <2>2. trade = {t} /\ t \in TradeRecord
    BY <1>2, <2>1
  <2>3. PICK s : s = SetToSeq(trade)
    OBVIOUS
  <2>4. s \in Seq(TradeRecord) /\ Len(s) = 1 /\ s[1] = t
    <3>1. IsFiniteSet({t}) /\ Cardinality({t}) = 1
      BY FS_Singleton
    <3>2. s \in [1..1 -> {t}] /\ s \in Seq({t}) /\ Len(s) = 1
      BY <2>2, <2>3, <3>1, SetToSeqFacts
    <3> QED BY <2>2, <3>2
  <2>5. c.transactions \in Seq(TradeRecord)
    BY <1>1 DEF Shown, Views, ClientViews, AdminViews
  <2>6. w.transactions = c.transactions \o s
    BY <1>5, <1>9, <1>13, <2>3 DEF SameButPort, SameBook
  <2>7. PICK n \in Nat : n = Len(c.transactions)
    BY <2>5, LenProperties
  <2>8. Len(w.transactions) = n + 1 /\ w.transactions[n + 1] = s[(n + 1) - n]
    <3>1. PICK l \in Seq(TradeRecord) : l = c.transactions
      BY <2>5
    <3>2. /\ Len(l \o s) = Len(l) + Len(s)
          /\ \A i \in 1..(Len(l) + Len(s)) :
               (l \o s)[i] = IF i <= Len(l) THEN l[i] ELSE s[i - Len(l)]
      BY <2>4, <3>1, ConcatProperties, Zenon
    <3>3. n + 1 \in 1..(n + 1) /\ ~(n + 1 <= n)
      BY <2>7
    <3> QED BY <2>4, <2>6, <2>7, <3>1, <3>2, <3>3, Zenon
  <2>9. (n + 1) - n = 1
    BY <2>7
  <2> QED BY <2>4, <2>8, <2>9 DEF Last
<1>17. Told(w)'
  <2>1. w.bids = bids' /\ w.asks = asks' /\ w.round_conf = RoundSettings(exp.round)
    BY <1>1, <1>7, <1>9, <1>13 DEF Told, SameButPort, SameBook
  <2> QED BY <1>1, <1>15, <1>16, <2>1 DEF Told, Holds
<1> QED BY <1>14, <1>17 DEF CatchesUp

LEMMA OfferCatchesUp ==
  ASSUME NEW fits, NEW c, Acting(c), NEW p \in Subjects, TakeBid(p) \/ TakeAsk(p)
  PROVE  CatchesUp(fits, c, OfferNews(p))
<1>1. BookInvariant /\ TypeOK
  BY DEF Acting, BookInvariant
<1>2. PICK price \in Int :
        LET o == MakeOffer(p, price) IN
        /\ o \in Offer
        /\ id' = id + 1
        /\ UNCHANGED <<payoff, exp, callback, clock>>
        /\ \E standing \in StandingOffer(SameSide(o)),
              opposite \in StandingOffer(OtherSide(o)) :
             Answers(o, standing, opposite)
  BY <1>1, TakeOfferCases
<1>3. PICK o \in Offer : o = MakeOffer(p, price)
  BY <1>2
<1>4. o.id = id
  BY <1>3 DEF MakeOffer
<1>5. PICK standing \in StandingOffer(SameSide(o)),
           opposite \in StandingOffer(OtherSide(o)) :
        Answers(o, standing, opposite)
  BY <1>2, <1>3
<1>6. UNCHANGED <<exp, callback>>
  BY <1>2
<1>7. CASE Validity(o, standing, opposite) = "Accepted" /\ Accept(o, opposite)
  <2>1. PICK trade : AcceptedWith(o, trade)
    BY <1>1, <1>4, <1>7, AcceptedAtOnce
  <2>2. IsMarketOpen(exp)
    BY <1>1, <1>7, AcceptedFacts
  <2> QED BY <1>1, <1>6, <2>1, <2>2, OpenFacts, AcceptedCatchesUp
<1>8. CASE /\ result' = Reporting(Validity(o, standing, opposite), {o}, {}, {})
           /\ UNCHANGED <<bids, asks, folio>>
           /\ Validity(o, standing, opposite) # "Accepted"
  <2>1. result'.trade = {} /\ result'.validity # "Accepted"
    BY <1>8 DEF Reporting
  <2>2. OfferNews(p) = <<>>
    BY <2>1 DEF OfferNews
  <2> QED BY <1>6, <1>8, <2>1, <2>2, NothingNew
<1> QED BY <1>5, <1>7, <1>8 DEF Answers

-----------------------------------------------------------------------------
(* Opening and closing the market                                          *)

\* Everybody is sent the settings of every subject that concern it.
LEMMA InstructionsCatchUp ==
  ASSUME NEW fits, NEW c, Acting(c), StartInstructions
  PROVE  CatchesUp(fits, c, ForEachSubject([p \in Subjects |-> SendConfiguration(p)]))
<1> DEFINE messages == [p \in Subjects |-> SendConfiguration(p)]
           reached == [S \in SUBSET Subjects |-> {u \in Shown(program) : SameBook(c, u)}]
<1>1. IsProgram /\ program' = program /\ c \in Shown(program) /\ Told(c)
  BY DEF Acting
<1>2. \A u \in Shown(program), p \in Subjects :
        Brings(fits, u, SendConfiguration(p), WithConfig(u, p))
  BY <1>1, ConfigurationSent
<1>3. messages \in [Subjects -> Seq(Posts)] /\ \A p \in Subjects : messages[p] = SendConfiguration(p)
  BY <1>1, <1>2 DEF Brings
<1>4. c \in reached[{}]
  BY <1>1 DEF SameBook
<1>5. \A S \in SUBSET Subjects, p \in Subjects : \A u \in reached[S] :
        \E w \in reached[S \cup {p}] : Brings(fits, u, messages[p], w)
  <2> TAKE S \in SUBSET Subjects, p \in Subjects
  <2> TAKE u \in reached[S]
  <2>1. u \in Shown(program) /\ SameBook(c, u)
    OBVIOUS
  <2>2. PICK w \in Shown(program) : w = WithConfig(u, p) /\ SameBook(u, w)
    BY <1>1, <2>1, WithConfigShown
  <2>3. w \in reached[S \cup {p}]
    BY <2>1, <2>2 DEF SameBook
  <2> QED BY <1>2, <1>3, <2>1, <2>2, <2>3
<1> HIDE DEF messages
<1>6. PICK w \in reached[Subjects] : Brings(fits, c, ForEachSubject(messages), w)
  <2> HIDE DEF reached
  <2> QED BY <1>1, <1>3, <1>4, <1>5, BringsToEach
<1>7. SameBook(c, w)
  OBVIOUS
<1>8. callback' = "None" /\ exp'.status = "NotStarted" /\ result' = result
  BY DEF StartInstructions, WithStage, Acting, BookInvariant, TypeOK
<1>9. Told(w)'
  BY <1>1, <1>7, <1>8 DEF Told, SameBook
<1> QED BY <1>6, <1>9 DEF CatchesUp, messages

\* The start of a round is told to those that know of the holdings.
LEMMA RoundNewsTells ==
  ASSUME NEW fits, IsProgram, program' = program, NEW v \in Shown(program),
         Holds(v, folio'), exp'.round \in 1..NRounds,
         bids' = {}, asks' = {}, result'.trade = {}
  PROVE  \E w : Brings(fits, v, RoundNews, w) /\ Told(w)'
<1>1. PICK round \in 1..NRounds : round = exp'.round
  OBVIOUS
<1>2. PICK w \in Shown(program) :
        /\ Brings(fits, v, SendAll("RoundStarted",
                             WriteRoundConfiguration(RoundSettings(round))), w)
        /\ w.bids = {} /\ w.asks = {} /\ w.round_conf = RoundSettings(round)
        /\ SameHoldings(v, w)
  BY RoundSent
<1>3. Brings(fits, v, RoundNews, w)
  BY <1>1, <1>2 DEF RoundNews
<1>4. Holds(w, folio')
  BY <1>2 DEF Holds, SameHoldings
<1>5. Told(w)'
  BY <1>1, <1>2, <1>4 DEF Told, Holds
<1> QED BY <1>3, <1>5

\* Everybody is sent its settings and its holdings, then the round starts.
LEMMA ExperimentCatchesUp ==
  ASSUME NEW fits, NEW c, Acting(c), StartExperiment
  PROVE  CatchesUp(fits, c,
           ForEachSubject([p \in Subjects |-> SendConfiguration(p) \o SendPortfolio(p)])
             \o RoundNews)
<1> DEFINE messages == [p \in Subjects |-> SendConfiguration(p) \o SendPortfolio(p)]
           Hears(u, S) == program = "client" /\ Viewer \in S => u.config = Heard(Viewer)
           reached == [S \in SUBSET Subjects |->
                         {u \in Shown(program) : Knows(u, folio', S) /\ Hears(u, S)}]
<1>1. IsProgram /\ program' = program /\ c \in Shown(program) /\ Told(c)
  BY DEF Acting
<1>2. folio' \in [Subjects -> Counts]
  BY HoldingsAreCounts
<1>3. \A S \in SUBSET Subjects, p \in Subjects, u \in Shown(program) :
        Knows(u, folio', S) /\ Hears(u, S) =>
          \E w \in Shown(program) :
            /\ Brings(fits, u, SendConfiguration(p) \o SendPortfolio(p), w)
            /\ Knows(w, folio', S \cup {p}) /\ Hears(w, S \cup {p})
  <2> TAKE S \in SUBSET Subjects, p \in Subjects, u \in Shown(program)
  <2> HAVE Knows(u, folio', S) /\ Hears(u, S)
  <2>1. PICK x \in Shown(program) :
          /\ x = WithConfig(u, p)
          /\ program = "client" =>
               x.port = u.port /\ x.config = IF p = Viewer THEN Heard(p) ELSE u.config
          /\ program = "admin" => x.player_ports = u.player_ports
    BY <1>1, WithConfigShown
  <2>2. Brings(fits, u, SendConfiguration(p), x)
    BY <1>1, <2>1, ConfigurationSent
  <2>3. Knows(x, folio', S)
    BY <2>1 DEF Knows
  <2>4. PICK w \in Shown(program) :
          /\ Brings(fits, x, SendPortfolio(p), w)
          /\ Knows(w, folio', S \cup {p})
          /\ SameButPort(x, w)
    BY <1>1, <1>2, <2>3, PortfolioNews
  <2>5. Brings(fits, u, SendConfiguration(p) \o SendPortfolio(p), w)
    BY <2>2, <2>4, BringsOn
  <2>6. Hears(w, S \cup {p})
    BY <2>1, <2>4 DEF SameButPort
  <2> QED BY <2>4, <2>5, <2>6
<1>4. Knows(c, folio', {}) /\ Hears(c, {})
  BY DEF Knows
<1>5. messages \in [Subjects -> Seq(Posts)]
      /\ \A p \in Subjects : messages[p] = SendConfiguration(p) \o SendPortfolio(p)
  <2>1. \A p \in Subjects : SendConfiguration(p) \o SendPortfolio(p) \in Seq(Posts)
    BY <1>1, <1>3, <1>4 DEF Brings
  <2> QED BY <2>1
<1>6. c \in reached[{}]
  BY <1>1, <1>4
<1> HIDE DEF messages, Hears
<1>7. \A S \in SUBSET Subjects, p \in Subjects : \A u \in reached[S] :
        \E w \in reached[S \cup {p}] : Brings(fits, u, messages[p], w)
  BY <1>3, <1>5
<1>8. PICK v \in reached[Subjects] : Brings(fits, c, ForEachSubject(messages), v)
  <2> HIDE DEF reached
  <2> QED BY <1>1, <1>5, <1>6, <1>7, BringsToEach
<1>9. v \in Shown(program) /\ Knows(v, folio', Subjects) /\ Hears(v, Subjects)
  OBVIOUS
<1>10. Holds(v, folio')
  BY <1>1, <1>9, ViewerAssumption, KnowsAll DEF Hears
<1>11. bids' = {} /\ asks' = {} /\ result'.trade = {} /\ exp'.round \in 1..NRounds
  <2>1. callback' = "EndRound" /\ callback = "None"
    BY DEF StartExperiment, StartRound, Acting, BookInvariant, TypeOK
  <2>2. bids = {} /\ asks = {} /\ exp'.round \in 1..NRounds
    BY <2>1 DEF Acting, BookInvariant, TypeOK
  <2> QED BY <2>2 DEF StartExperiment, StartRound, JustReporting, Reporting
<1>12. PICK w : Brings(fits, v, RoundNews, w) /\ Told(w)'
  BY <1>1, <1>9, <1>10, <1>11, RoundNewsTells
<1>13. Brings(fits, c, ForEachSubject(messages) \o RoundNews, w)
  BY <1>8, <1>12, BringsOn
<1> QED BY <1>12, <1>13 DEF CatchesUp, messages

\* The last review is followed by no news, any other by those of a round.
LEMMA EndReviewCatchesUp ==
  ASSUME NEW fits, NEW c, Acting(c), EndReview
  PROVE  CatchesUp(fits, c, IF callback' = "EndRound" THEN RoundNews ELSE <<>>)
<1>1. IsProgram /\ program' = program /\ c \in Shown(program) /\ Told(c)
  BY DEF Acting
<1>2. /\ bids' = {} /\ asks' = {} /\ folio' = folio
      /\ exp \in [round : 0..NRounds, status : Status, stage : Stage]
      /\ exp.status # "NotStarted"
  BY DEF EndReview, Acting, BookInvariant, TypeOK
<1>3. result'.trade = {}
  BY DEF EndReview, StartRound, StartPayouts, JustReporting, Reporting
<1>4. CASE callback' = "EndRound"
  <2>1. exp'.round \in 1..NRounds
    BY <1>4 DEF Acting, BookInvariant, TypeOK
  <2>2. Holds(c, folio')
    BY <1>1, <1>2 DEF Told
  <2>3. \E w : Brings(fits, c, RoundNews, w) /\ Told(w)'
    BY <1>1, <1>2, <1>3, <2>1, <2>2, RoundNewsTells
  <2> QED BY <1>4, <2>3 DEF CatchesUp
<1>5. CASE callback' # "EndRound"
  <2>1. exp'.status = exp.status /\ exp'.round = exp.round
    BY <1>2, <1>5 DEF EndReview, StartRound, StartPayouts, WithStage
  <2>2. CatchesUp(fits, c, <<>>)
    BY <1>2, <1>3, <1>5, <2>1, NothingNew
  <2> QED BY <1>5, <2>2
<1> QED BY <1>4, <1>5

\* No count of the server's leaves the range of an int.
CountsFit ==
  \A p \in Subjects : InitAlloc(p) \in Portfolios /\ folio[p] \in Portfolios

\* A dividend paid between two portfolios, as AddsUp says it
LEMMA DividendAddsUp ==
  ASSUME NEW v, v.last_dividend \in Nat, NEW p \in Subjects,
         folio \in [Subjects -> Counts],
         v.end_round_port = folio[p],
         v.port = PayDividend(folio, v.last_dividend)[p],
         NEW w, w = [v EXCEPT !.post_dividend_port = v.port],
         v \in ClientViews
  PROVE  AddsUp(w)
<1>1. PICK d \in Nat : d = v.last_dividend
  OBVIOUS
<1>2. PICK port \in Counts : port = folio[p]
  OBVIOUS
<1>3. /\ w.end_round_port = port /\ w.last_dividend = d
      /\ w.post_dividend_port = PayDividend(folio, d)[p]
  BY <1>1, <1>2 DEF ClientViews
<1>4. PICK income \in Int : income = port.Shares * d
  BY <1>2 DEF Counts
<1>5. PICK due \in Int : due = port.Derivatives * d
  BY <1>2 DEF Counts
<1>6. PayDividend(folio, d)[p] =
        [Cash |-> port.Cash + income, Shares |-> port.Shares,
         Margin |-> port.Margin - due, Derivatives |-> port.Derivatives]
  BY <1>2, <1>4, <1>5 DEF PayDividend
<1>7. [port EXCEPT !.Cash = @ + income, !.Margin = @ - due] =
        [Cash |-> port.Cash + income, Shares |-> port.Shares,
         Margin |-> port.Margin - due, Derivatives |-> port.Derivatives]
  <2>1. PICK cash \in Int : cash = port.Cash + income
    BY DEF Counts
  <2>2. PICK margin \in Int : margin = port.Margin - due
    BY DEF Counts
  <2>3. [port EXCEPT !.Cash = cash, !.Margin = margin] =
          [Cash |-> cash, Shares |-> port.Shares,
           Margin |-> margin, Derivatives |-> port.Derivatives]
    <3>1. PICK x : x = [port EXCEPT !.Cash = cash, !.Margin = margin]
      OBVIOUS
    <3>2. /\ x \in Counts /\ x.Cash = cash /\ x.Margin = margin
          /\ x.Shares = port.Shares /\ x.Derivatives = port.Derivatives
      BY <3>1 DEF Counts
    <3>3. x = [Cash |-> x.Cash, Shares |-> x.Shares, Margin |-> x.Margin,
               Derivatives |-> x.Derivatives]
      BY <3>2 DEF Counts
    <3> QED BY <3>1, <3>2, <3>3
  <2> QED BY <2>1, <2>2, <2>3
<1> QED BY <1>3, <1>4, <1>5, <1>6, <1>7 DEF AddsUp

\* The dividend is told before the portfolios that it has changed, and these
\* before the review.
LEMMA EndRoundCatchesUp ==
  ASSUME NEW fits, fits => CountsFit /\ CountsFit',
         NEW c, Acting(c), EndRound
  PROVE  CatchesUp(fits, c,
           SendAll("RoundEnded", <<>>)
             \o SendAll("DividendStarted", <<Dividend[exp.round]>>)
             \o ForEachSubject([p \in Subjects |-> SendPortfolio(p)])
             \o SendAll("ReviewStarted", <<>>))
<1>1. IsProgram /\ program' = program /\ c \in Shown(program) /\ Told(c)
  BY DEF Acting
<1>2. /\ exp.round \in 1..NRounds /\ exp.status # "NotStarted"
      /\ exp \in [round : 0..NRounds, status : Status, stage : Stage]
  BY DEF EndRound, Acting, BookInvariant, TypeOK
<1>3. PICK d \in Nat : d = Dividend[exp.round]
  BY <1>2, RoundsAssumption
<1>4. folio \in [Subjects -> Counts] /\ folio' \in [Subjects -> Counts]
  BY HoldingsAreCounts
<1>5. Holds(c, folio) /\ c.round_conf = RoundSettings(exp.round)
  BY <1>1, <1>2 DEF Told
<1>6. PICK u \in Shown(program) :
        /\ Brings(fits, c, SendAll("RoundEnded", <<>>), u)
        /\ SameBook(c, u) /\ SameHoldings(c, u)
        /\ program = "client" => u.end_round_port = c.port
  BY <1>1, RoundEndedSent
<1>7. PICK v \in Shown(program) :
        /\ Brings(fits, u, SendAll("DividendStarted", <<d>>), v)
        /\ SameBook(u, v) /\ SameHoldings(u, v)
        /\ program = "client" =>
             v.end_round_port = u.end_round_port /\ v.last_dividend = d
  <2>1. d \in Int
    OBVIOUS
  <2> QED BY <1>1, <1>6, <2>1, DividendSent, Zenon
<1> DEFINE messages == [p \in Subjects |-> SendPortfolio(p)]
           reached == [S \in SUBSET Subjects |->
                         {x \in Shown(program) :
                            Knows(x, folio', S) /\ SameButPort(v, x)}]
<1>8. Knows(v, folio', {}) /\ SameButPort(v, v)
  BY DEF Knows, SameButPort, SameBook
<1>9. \A S \in SUBSET Subjects, p \in Subjects, x \in Shown(program) :
        Knows(x, folio', S) /\ SameButPort(v, x) =>
          \E w \in Shown(program) :
            /\ Brings(fits, x, SendPortfolio(p), w)
            /\ Knows(w, folio', S \cup {p}) /\ SameButPort(v, w)
  <2> TAKE S \in SUBSET Subjects, p \in Subjects, x \in Shown(program)
  <2> HAVE Knows(x, folio', S) /\ SameButPort(v, x)
  <2>1. PICK w \in Shown(program) :
          /\ Brings(fits, x, SendPortfolio(p), w)
          /\ Knows(w, folio', S \cup {p})
          /\ SameButPort(x, w)
    BY <1>1, <1>4, PortfolioNews
  <2>2. SameButPort(v, w)
    BY <2>1 DEF SameButPort, SameBook
  <2> QED BY <2>1, <2>2
<1>10. messages \in [Subjects -> Seq(Posts)]
       /\ \A p \in Subjects : messages[p] = SendPortfolio(p)
  <2>1. \A p \in Subjects : SendPortfolio(p) \in Seq(Posts)
    BY <1>7, <1>8, <1>9 DEF Brings
  <2> QED BY <2>1
<1>11. v \in reached[{}]
  BY <1>7, <1>8
<1> HIDE DEF messages
<1>12. \A S \in SUBSET Subjects, p \in Subjects : \A x \in reached[S] :
         \E w \in reached[S \cup {p}] : Brings(fits, x, messages[p], w)
  BY <1>9, <1>10
<1>13. PICK x \in reached[Subjects] : Brings(fits, v, ForEachSubject(messages), x)
  <2> HIDE DEF reached
  <2> QED BY <1>7, <1>10, <1>11, <1>12, BringsToEach
<1>14. x \in Shown(program) /\ Knows(x, folio', Subjects) /\ SameButPort(v, x)
  OBVIOUS
<1>15. Holds(x, folio')
  <2>1. program = "client" => x.config = Heard(Viewer)
    BY <1>5, <1>6, <1>7, <1>14 DEF Holds, SameHoldings, SameButPort
  <2> QED BY <1>1, <1>14, <2>1, KnowsAll
<1>16. fits /\ program = "client" => AddsUp([x EXCEPT !.post_dividend_port = x.port])
  <2> HAVE fits /\ program = "client"
  <2>1. x.end_round_port = Wrapped(folio[Viewer]) /\ x.last_dividend = d
    BY <1>5, <1>6, <1>7, <1>14 DEF Holds, SameButPort
  <2>2. x.port = Wrapped(folio'[Viewer])
    BY <1>15 DEF Holds
  <2>3. /\ Wrapped(folio[Viewer]) = folio[Viewer]
        /\ Wrapped(folio'[Viewer]) = folio'[Viewer]
    BY <1>4, ViewerAssumption, WrappedFacts DEF CountsFit
  <2>4. folio' = PayDividend(folio, d)
    BY <1>3 DEF EndRound
  <2>5. x \in ClientViews
    BY <1>14 DEF Shown, Views
  <2>6. Viewer \in Subjects
    BY ViewerAssumption
  <2>7. PICK w : w = [x EXCEPT !.post_dividend_port = x.port]
    OBVIOUS
  <2>8. AddsUp(w)
    BY <1>4, <2>1, <2>2, <2>3, <2>4, <2>5, <2>6, <2>7, DividendAddsUp
  <2> QED BY <2>7, <2>8
<1>17. PICK w \in Shown(program) :
         /\ Brings(fits, x, SendAll("ReviewStarted", <<>>), w)
         /\ SameBook(x, w) /\ SameHoldings(x, w)
  BY <1>1, <1>14, <1>16, ReviewSent
<1>18. Brings(fits, c,
              ((SendAll("RoundEnded", <<>>) \o SendAll("DividendStarted", <<d>>))
                 \o ForEachSubject(messages)) \o SendAll("ReviewStarted", <<>>), w)
  <2>1. Brings(fits, c, SendAll("RoundEnded", <<>>)
                          \o SendAll("DividendStarted", <<d>>), v)
    BY <1>6, <1>7, BringsOn
  <2>2. Brings(fits, c, (SendAll("RoundEnded", <<>>) \o SendAll("DividendStarted", <<d>>))
                          \o ForEachSubject(messages), x)
    BY <1>13, <2>1, BringsOn
  <2> QED BY <1>17, <2>2, BringsOn
<1>19. Told(w)'
  <2>1. Holds(w, folio')
    BY <1>15, <1>17 DEF Holds, SameHoldings
  <2>2. exp'.round = exp.round /\ callback' = "EndReview" /\ result'.trade = {}
    BY <1>2 DEF EndRound, WithStage, JustReporting, Reporting
  <2>3. w.round_conf = RoundSettings(exp.round)
    BY <1>5, <1>6, <1>7, <1>14, <1>17 DEF SameBook, SameButPort
  <2> QED BY <1>1, <2>1, <2>2, <2>3 DEF Told, Holds
<1> QED BY <1>3, <1>18, <1>19 DEF CatchesUp, messages

-----------------------------------------------------------------------------
(* Every step                                                              *)

\* Whatever the server does, what it sends lets the program catch up again.
LEMMA ServerCatchesUp ==
  ASSUME NEW fits, fits => CountsFit /\ CountsFit',
         NEW c, Acting(c), ServerNext
  PROVE  \E messages : CatchesUp(fits, c, messages) /\ Sends(messages)
<1>1. CASE SendTakeOffer
  <2>1. PICK p \in Subjects : (TakeBid(p) \/ TakeAsk(p)) /\ Sends(OfferNews(p))
    BY <1>1 DEF SendTakeOffer
  <2>2. CatchesUp(fits, c, OfferNews(p))
    BY <2>1, OfferCatchesUp
  <2> QED BY <2>1, <2>2
<1>2. CASE SendRetractOffer
  <2>1. PICK p \in Subjects : RetractOffer(p) /\ Sends(RetractionNews(p))
    BY <1>2 DEF SendRetractOffer, RetractionNews
  <2>2. CatchesUp(fits, c, RetractionNews(p))
    BY <2>1, RetractionCatchesUp
  <2> QED BY <2>1, <2>2
<1>3. CASE SendCreateAsset
  <2>1. PICK p \in Subjects : CreateAsset(p) /\ Sends(CreationNews(p))
    BY <1>3 DEF SendCreateAsset, CreationNews
  <2>2. CatchesUp(fits, c, CreationNews(p))
    BY <2>1, CreationCatchesUp
  <2> QED BY <2>1, <2>2
<1>4. CASE SendStartInstructions
  BY <1>4, InstructionsCatchUp DEF SendStartInstructions
<1>5. CASE SendStartExperiment
  BY <1>5, ExperimentCatchesUp DEF SendStartExperiment
<1>6. CASE SendEndRound
  BY <1>6, EndRoundCatchesUp DEF SendEndRound
<1>7. CASE SendEndReview
  BY <1>7, EndReviewCatchesUp DEF SendEndReview
<1>8. CASE SendNothing
  BY <1>8, NothingCatchesUp DEF SendNothing
<1> QED BY <1>1, <1>2, <1>3, <1>4, <1>5, <1>6, <1>7, <1>8 DEF ServerNext

\* The handlers do to the server's state what Trading says.
LEMMA ServerTrades == ASSUME ServerNext PROVE Next /\ program' = program
<1>1. Next
  BY DEF ServerNext, SendTakeOffer, SendRetractOffer, SendCreateAsset,
    SendStartInstructions, SendStartExperiment, SendEndRound, SendEndReview,
    SendNothing, Next, ClientRequest, TimerExpires, AdminCommand
<1>2. program' = program
  BY DEF ServerNext, SendTakeOffer, SendRetractOffer, SendCreateAsset,
    SendStartInstructions, SendStartExperiment, SendEndRound, SendEndReview,
    SendNothing, Sends
<1> QED BY <1>1, <1>2

LEMMA MirrorStart ==
  ASSUME NEW fits, MirrorInit
  PROVE  MirrorInvariant(fits)
<1>1. IsProgram /\ inbox = <<>> /\ BookInvariant
  BY BookInit DEF MirrorInit, IsProgram
<1>2. EmptyPortfolio \in Counts /\ NoConfiguration \in Configs /\ NoRound \in RoundConfigs
  <2>1. EmptyPortfolio \in Counts
    BY DEF EmptyPortfolio, Counts
  <2>2. PICK alloc \in Counts : alloc = EmptyPortfolio
    BY <2>1
  <2>3. PICK names \in {{}, {ReadLine(FileName)}} : names = {}
    OBVIOUS
  <2>4. [instructions_filename |-> names, init_alloc |-> alloc,
         is_creator |-> FALSE, eperdollar |-> 0] \in Configs
    BY DEF Configs
  <2>5. NoConfiguration \in Configs
    BY <2>2, <2>3, <2>4 DEF NoConfiguration
  <2>6. NoRound \in RoundConfigs
    BY DEF NoRound, RoundConfigs
  <2> QED BY <2>1, <2>5, <2>6
<1>3. view \in Shown(program)
  <2>1. <<>> \in Seq(TradeRecord)
    BY EmptySeq
  <2>2. PICK nothing \in SUBSET Offer : nothing = {}
    OBVIOUS
  <2>3. PICK none \in Seq(TradeRecord) : none = <<>>
    BY <2>1
  <2>4. CASE program = "client"
    <3>1. view = [bids |-> nothing, asks |-> nothing, transactions |-> none,
                  config |-> NoConfiguration, round_conf |-> NoRound, last_dividend |-> 0,
                  port |-> EmptyPortfolio, start_round_port |-> EmptyPortfolio,
                  end_round_port |-> EmptyPortfolio, post_dividend_port |-> EmptyPortfolio]
      BY <2>2, <2>3, <2>4 DEF MirrorInit, ClientState
    <3>2. view \in ClientViews /\ view.bids = {} /\ view.asks = {}
      BY <1>2, <2>2, <3>1 DEF ClientViews
    <3> QED BY <2>4, <3>2 DEF Shown, Views, ShowsABook
  <2>5. CASE program = "admin"
    <3>1. PICK ports \in [Subjects -> Counts] : ports = [p \in Subjects |-> EmptyPortfolio]
      BY <1>2
    <3>2. view = [bids |-> nothing, asks |-> nothing, transactions |-> none,
                  config |-> NoConfiguration, round_conf |-> NoRound, last_dividend |-> 0,
                  player_ports |-> ports]
      BY <2>2, <2>3, <2>5, <3>1 DEF MirrorInit, AdminState
    <3>3. view \in AdminViews /\ view.bids = {} /\ view.asks = {}
      BY <1>2, <2>2, <3>2 DEF AdminViews
    <3> QED BY <2>5, <3>3 DEF Shown, Views, ShowsABook
  <2> QED BY <1>1, <2>4, <2>5 DEF IsProgram
<1>4. Leads(fits, program, view, inbox, view)
  BY <1>1, <1>3, LeadsNowhere
<1>5. Told(view)
  BY DEF MirrorInit, Init, InitialState, JustReporting, Reporting, Told
<1> QED BY <1>1, <1>4, <1>5 DEF MirrorInvariant

\* The first message is handled, and what is left leads to the same view.
LEMMA HandledStep ==
  ASSUME NEW fits, MirrorInvariant(fits), HandleMessage
  PROVE  /\ MirrorInvariant(fits)'
         /\ Takes(fits, program, view, Head(inbox), view')
<1>1. PICK c : Leads(fits, program, view, inbox, c) /\ Told(c)
  BY DEF MirrorInvariant
<1>2. /\ inbox # <<>> /\ view' = Handle(view, Head(inbox))
      /\ inbox' = Tail(inbox) /\ UNCHANGED <<vars, program>>
  BY DEF HandleMessage
<1>3. PICK u : /\ Takes(fits, program, view, Head(inbox), u)
               /\ Leads(fits, program, u, Tail(inbox), c)
  BY <1>1, <1>2, LeadsFirst
<1>4. view' = u
  BY <1>2, <1>3, Zenon DEF Takes, Handle, HandleBy
<1>5. Leads(fits, program', view', inbox', c)
  BY <1>2, <1>3, <1>4
<1>6. BookInvariant'
  <2>1. BookInvariant /\ [Next]_vars
    BY <1>2 DEF MirrorInvariant
  <2> QED BY <2>1, BookStep
<1>7. Told(c)' /\ IsProgram'
  BY <1>1, <1>2 DEF MirrorInvariant, Told, Holds, IsProgram, vars
<1> QED BY <1>3, <1>4, <1>5, <1>6, <1>7 DEF MirrorInvariant

\* The server's step: more messages, that lead on to what is to be shown
LEMMA ServedStep ==
  ASSUME NEW fits, fits => CountsFit /\ CountsFit',
         MirrorInvariant(fits), ServerNext, view' = view
  PROVE  /\ MirrorInvariant(fits)'
         /\ Len(inbox') >= Len(inbox)
<1>1. PICK c : Leads(fits, program, view, inbox, c) /\ Told(c)
  BY DEF MirrorInvariant
<1>2. BookInvariant /\ BookInvariant'
  BY ServerTrades, BookStep DEF MirrorInvariant
<1>3. Acting(c)
  BY <1>1, <1>2, ServerTrades, LeadsShown DEF MirrorInvariant, Acting
<1>4. PICK messages : CatchesUp(fits, c, messages) /\ Sends(messages)
  BY <1>3, ServerCatchesUp
<1>5. MirrorInvariant(fits)'
  BY <1>1, <1>2, <1>4, InvariantExtends DEF MirrorInvariant
<1>6. Len(inbox') >= Len(inbox)
  <2>1. inbox \in Seq(Mail) /\ Delivered(messages) \in Seq(Mail)
    BY <1>1, <1>4 DEF Leads, CatchesUp, Brings
  <2>2. PICK more \in Seq(Mail) : more = Delivered(messages) /\ inbox' = inbox \o more
    BY <1>4, <2>1 DEF Sends
  <2> QED BY <2>1, <2>2
<1> QED BY <1>5, <1>6

LEMMA MirrorStep ==
  ASSUME NEW fits, fits => CountsFit /\ CountsFit',
         MirrorInvariant(fits), [MirrorNext]_mirrorVars
  PROVE  MirrorInvariant(fits)'
<1>1. CASE ServerNext /\ UNCHANGED view
  BY <1>1, ServedStep
<1>2. CASE HandleMessage
  BY <1>2, HandledStep
<1>3. CASE UNCHANGED mirrorVars
  <2>1. PICK c : Leads(fits, program, view, inbox, c) /\ Told(c)
    BY DEF MirrorInvariant
  <2>2. Leads(fits, program', view', inbox', c)
    BY <1>3, <2>1 DEF mirrorVars
  <2>3. BookInvariant'
    <3>1. BookInvariant /\ [Next]_vars
      BY <1>3 DEF MirrorInvariant, mirrorVars
    <3> QED BY <3>1, BookStep
  <2>4. Told(c)' /\ IsProgram'
    BY <1>3, <2>1 DEF MirrorInvariant, mirrorVars, Told, Holds, IsProgram, vars
  <2> QED BY <2>2, <2>3, <2>4 DEF MirrorInvariant
<1> QED BY <1>1, <1>2, <1>3 DEF MirrorNext

-----------------------------------------------------------------------------
(* Theorems                                                                *)

\* At any time the messages on their way lead, over books alone, to a view
\* that has been told everything.
THEOREM MirrorAlways == MirrorSpec => []MirrorInvariant(FALSE)
<1>1. MirrorInit => MirrorInvariant(FALSE)
  BY MirrorStart
<1>2. MirrorInvariant(FALSE) /\ [MirrorNext]_mirrorVars => MirrorInvariant(FALSE)'
  BY MirrorStep
<1> QED BY <1>1, <1>2, PTL DEF MirrorSpec

\* However late it handles its messages, a program never shows a bid and an
\* ask that could trade, or an offer twice.
THEOREM ViewAlwaysABook == MirrorSpec => []ViewIsABook
<1>1. MirrorInvariant(FALSE) => ViewIsABook
  <2> SUFFICES ASSUME MirrorInvariant(FALSE) PROVE ViewIsABook
    OBVIOUS
  <2>1. view \in Shown(program)
    BY LeadsShown DEF MirrorInvariant
  <2> QED BY <2>1 DEF Shown, ShowsABook, ViewIsABook
<1> QED BY MirrorAlways, <1>1, PTL

\* What has been told is what there is to know.
LEMMA CaughtIsTold ==
  ASSUME NEW fits, MirrorInvariant(fits)
  PROVE  Told(Caught) /\ Caught \in Shown(program) /\ IsProgram
<1>1. PICK c : Leads(fits, program, view, inbox, c) /\ Told(c)
  BY DEF MirrorInvariant
<1>2. Caught = c
  BY <1>1, LeadsToCaught
<1> QED BY <1>1, <1>2, LeadsShown DEF MirrorInvariant

\* Either program that has handled all it was sent shows the server's book, the
\* last trade and the settings of the round, whatever the counts have come to
\* (adminside_processor.hh:122-157, clientside_processor.hh:124-164).
THEOREM BookAlwaysCatchesUp == MirrorSpec => []BookCatchesUp(Caught)
<1>1. MirrorInvariant(FALSE) => BookCatchesUp(Caught)
  <2> SUFFICES ASSUME MirrorInvariant(FALSE) PROVE BookCatchesUp(Caught)
    OBVIOUS
  <2>1. PICK c : c = Caught
    OBVIOUS
  <2>2. Told(c)
    BY <2>1, CaughtIsTold
  <2> QED BY <2>1, <2>2 DEF BookCatchesUp, Told
<1> QED BY MirrorAlways, <1>1, PTL

\* A subject's program that has handled all it was sent shows the server's
\* book, and its own portfolio and settings, as long as the counts that the
\* server keeps are ints: any other would not come back from its text.
THEOREM ViewAlwaysCatchesUp == MirrorSpec => [](CountsFit => ViewCatchesUp)
<1>1. MirrorInvariant(FALSE) => (CountsFit => ViewCatchesUp)
  <2> SUFFICES ASSUME MirrorInvariant(FALSE), CountsFit, program = "client"
               PROVE  ViewCatchesUp
    BY DEF ViewCatchesUp
  <2>1. PICK c : c = Caught
    OBVIOUS
  <2>2. Told(c)
    BY <2>1, CaughtIsTold
  <2>3. BookCatchesUp(c)
    BY <2>2 DEF BookCatchesUp, Told
  <2>4. ASSUME exp.status # "NotStarted"
        PROVE  /\ c.port = folio[Viewer]
               /\ c.config.init_alloc = InitAlloc(Viewer)
               /\ c.config.is_creator = (Viewer \in Creators)
    <3>1. c.port = Wrapped(folio[Viewer]) /\ c.config = Heard(Viewer)
      BY <2>2, <2>4 DEF Told, Holds
    <3>2. Viewer \in Subjects /\ InitAlloc(Viewer) \in Portfolios /\ folio[Viewer] \in Portfolios
      BY ViewerAssumption DEF CountsFit
    <3>3. InitAlloc(Viewer) \in Counts /\ folio[Viewer] \in Counts
      BY <3>2, SubjectsAssumption DEF MirrorInvariant, BookInvariant, TypeOK, Portfolio,
        Counts, InitAlloc
    <3>4. Wrapped(folio[Viewer]) = folio[Viewer] /\ Wrapped(InitAlloc(Viewer)) = InitAlloc(Viewer)
      BY <3>2, <3>3, WrappedFacts
    <3> QED BY <3>1, <3>2, <3>4, HeardType, Zenon
  <2> QED BY <2>1, <2>3, <2>4, Zenon DEF ViewCatchesUp
<1> QED BY MirrorAlways, <1>1, PTL

\* An admin's program that has handled all it was sent shows the server's book
\* and the portfolio of every subject, as long as the counts are ints.
THEOREM AdminAlwaysCatchesUp == MirrorSpec => [](CountsFit => AdminCatchesUp)
<1>1. MirrorInvariant(FALSE) => (CountsFit => AdminCatchesUp)
  <2> SUFFICES ASSUME MirrorInvariant(FALSE), CountsFit, program = "admin"
               PROVE  AdminCatchesUp
    BY DEF AdminCatchesUp
  <2>1. PICK c : c = Caught
    OBVIOUS
  <2>2. Told(c) /\ c \in Shown(program)
    BY <2>1, CaughtIsTold
  <2>3. BookCatchesUp(c)
    BY <2>2 DEF BookCatchesUp, Told
  <2>4. ASSUME exp.status # "NotStarted" PROVE c.player_ports = folio
    <3>1. folio \in [Subjects -> Counts]
      BY DEF MirrorInvariant, BookInvariant, TypeOK, Portfolio, Counts
    <3>2. c.player_ports \in [Subjects -> Counts]
      BY <2>2 DEF Shown, Views, AdminViews
    <3>3. \A p \in Subjects : Wrapped(folio[p]) = folio[p]
      BY <3>1, WrappedFacts DEF CountsFit
    <3>4. \A p \in Subjects : c.player_ports[p] = folio[p]
      BY <2>2, <2>4, <3>3 DEF Told, Holds
    <3> QED BY <3>1, <3>2, <3>4
  <2> QED BY <2>1, <2>3, <2>4, Zenon DEF AdminCatchesUp
<1> QED BY MirrorAlways, <1>1, PTL

\* While the counts are ints, the portfolios shown before and after a dividend
\* differ by the dividend shown, however the messages of the round are delayed.
THEOREM ReviewAlwaysAddsUp == MirrorSpec /\ []CountsFit => ReviewAddsUp
<1>1. MirrorInit => MirrorInvariant(TRUE)
  BY MirrorStart
<1>2. CountsFit /\ CountsFit' /\ MirrorInvariant(TRUE) /\ [MirrorNext]_mirrorVars
        => MirrorInvariant(TRUE)'
  BY MirrorStep
<1>3. CountsFit /\ CountsFit' /\ MirrorInvariant(TRUE) /\ [MirrorNext]_mirrorVars =>
        [program = "client" /\ inbox # <<>> /\ Len(inbox') < Len(inbox)
           /\ Head(inbox).type = "ReviewStarted" =>
          LET before == view'.end_round_port
          IN view'.post_dividend_port =
               [before EXCEPT
                  !.Cash   = @ + before.Shares * view'.last_dividend,
                  !.Margin = @ - before.Derivatives * view'.last_dividend]]_mirrorVars
  <2> SUFFICES ASSUME CountsFit, CountsFit', MirrorInvariant(TRUE), MirrorNext,
                      program = "client", Len(inbox') < Len(inbox),
                      Head(inbox).type = "ReviewStarted"
               PROVE  AddsUp(view')
    BY DEF AddsUp
  <2>1. ~(ServerNext /\ UNCHANGED view)
    <3> SUFFICES ASSUME ServerNext, view' = view PROVE FALSE
      OBVIOUS
    <3>1. Len(inbox') >= Len(inbox)
      BY ServedStep
    <3>2. inbox \in Seq(Mail) /\ inbox' \in Seq(Mail)
      <4>1. MirrorInvariant(TRUE)'
        BY ServedStep
      <4> QED BY <4>1 DEF MirrorInvariant, Leads
    <3>3. Len(inbox) \in Nat /\ Len(inbox') \in Nat
      BY <3>2, LenProperties
    <3> QED BY <3>1, <3>3
  <2>2. HandleMessage
    BY <2>1 DEF MirrorNext
  <2>3. Takes(TRUE, program, view, Head(inbox), view')
    BY <2>2, HandledStep
  <2> QED BY <2>3 DEF Takes
<1> QED BY <1>1, <1>2, <1>3, PTL DEF MirrorSpec, ReviewAddsUp

=============================================================================
