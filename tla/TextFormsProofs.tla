--------------------------- MODULE TextFormsProofs ---------------------------
(***************************************************************************)
(* What is written is read back, whatever follows it in the text, and what *)
(* is not: a time below zero, and the blanks before a line.                *)
(***************************************************************************)
EXTENDS TextForms, SequenceTheorems, TLAPS

\* An int written with its sign, read as unsigned and cast back is itself: the
\* detour that every count of a portfolio takes (portfolio.cc:70-81).
THEOREM IntReadBack ==
  ASSUME NEW i \in IntRange
  PROVE  AsInt(AsUnsigned(i)) = i
BY ModulusAssumption, SMT DEF IntRange, AsInt, AsUnsigned

\* A remaining time is read back if it is not below zero; below zero it comes
\* back as one that is half the range of an unsigned or more (clock.cc:7-16).
THEOREM TimeReadBack ==
  ASSUME NEW ms \in IntRange
  PROVE  /\ ms >= 0 => ReadTime(WriteTime(ms)) = ms
         /\ ms < 0 => ReadTime(WriteTime(ms)) >= Modulus \div 2
BY ModulusAssumption, SMT DEF IntRange, WriteTime, ReadTime, AsUnsigned

\* Casting an enumerator to int and back gives the enumerator.
THEOREM EnumeratorReadBack ==
  ASSUME NEW Name, NEW enum \in Seq(Name), NEW i \in DOMAIN enum
  PROVE  /\ Enumerator(enum, Code(enum, enum[i])) = enum[i]
         /\ Code(enum, enum[i]) \in Nat
<1> DEFINE j == CHOOSE k \in DOMAIN enum : enum[k] = enum[i]
<1>1. j \in DOMAIN enum /\ enum[j] = enum[i]
  OBVIOUS
<1>2. j \in Nat /\ j >= 1
  BY <1>1
<1>3. Code(enum, enum[i]) = j - 1
  BY DEF Code
<1> HIDE DEF j
<1>4. (j - 1) + 1 = j /\ j - 1 \in Nat
  BY <1>2
<1> QED BY <1>1, <1>3, <1>4 DEF Enumerator

-----------------------------------------------------------------------------
\* The words from the k-th on, when something was written before them
LEMMA FromAppended ==
  ASSUME NEW Word, NEW w \in Seq(Word), NEW rest \in Seq(Word), NEW k,
         k = Len(w) + 1
  PROVE  From(w \o rest, k) = rest
BY DEF From

\* A text of one word
LEMMA OneWord ==
  ASSUME NEW Word, NEW x \in Word
  PROVE  <<x>> \in Seq(Word) /\ Len(<<x>>) = 1 /\ <<x>>[1] = x
OBVIOUS

\* Texts of two and of three words
LEMMA TwoWords ==
  ASSUME NEW Word, NEW x \in Word, NEW y \in Word
  PROVE  /\ <<x, y>> \in Seq(Word) /\ Len(<<x, y>>) = 2
         /\ <<x, y>>[1] = x /\ <<x, y>>[2] = y
OBVIOUS

LEMMA ThreeWords ==
  ASSUME NEW Word, NEW x \in Word, NEW y \in Word, NEW z \in Word
  PROVE  /\ <<x, y, z>> \in Seq(Word) /\ Len(<<x, y, z>>) = 3
         /\ <<x, y, z>>[1] = x /\ <<x, y, z>>[2] = y /\ <<x, y, z>>[3] = z
OBVIOUS

\* A text with one word before it
Follows(Word, text, first, w) ==
  /\ text \in Seq(Word)
  /\ Len(text) = Len(w) + 1
  /\ text[1] = first[1]
  /\ \A k \in 1..Len(w) : text[k + 1] = w[k]

LEMMA Prefixed ==
  ASSUME NEW Word, NEW first \in Seq(Word), Len(first) = 1, NEW w \in Seq(Word)
  PROVE  Follows(Word, first \o w, first, w)
<1>1. Len(w) \in Nat
  OBVIOUS
<1>2. /\ first \o w \in Seq(Word)
      /\ Len(first \o w) = Len(first) + Len(w)
      /\ \A i \in 1..(Len(first) + Len(w)) :
           (first \o w)[i] = IF i <= Len(first) THEN first[i] ELSE w[i - Len(first)]
  BY ConcatProperties, Zenon
<1>3. Len(first \o w) = Len(w) + 1
  BY <1>1, <1>2
<1>4. (first \o w)[1] = first[1]
  BY <1>1, <1>2
<1>5. ASSUME NEW k \in 1..Len(w) PROVE (first \o w)[k + 1] = w[k]
  <2>1. /\ k + 1 \in 1..(Len(first) + Len(w)) /\ ~(k + 1 <= Len(first))
        /\ (k + 1) - Len(first) = k
    BY <1>1
  <2> QED BY <1>2, <2>1
<1> QED BY <1>2, <1>3, <1>4, <1>5 DEF Follows

\* An offer is read back, whatever follows it (offer.cc:16-23).
THEOREM OfferReadBack ==
  ASSUME NEW Word, NEW rest \in Seq(Word),
         NEW o \in [id : Word, player_id : Word, price : Word, time_elapsed : Word]
  PROVE  ReadOffer(WriteOffer(o) \o rest) = o
BY DEF WriteOffer, ReadOffer

\* A trade is read back, whatever follows it (trade.cc:16-24).
THEOREM TradeReadBack ==
  ASSUME NEW Word, NEW rest \in Seq(Word),
         NEW t \in [buyer : Word, seller : Word, price : Word, bid_id : Word,
                    ask_id : Word]
  PROVE  ReadTrade(WriteTrade(t) \o rest) = t
BY DEF WriteTrade, ReadTrade

\* The settings of a round are read back (configuration.cc:59-68).
THEOREM RoundConfigurationReadBack ==
  ASSUME NEW Word,
         NEW c \in [round : Word, can_create : Word, dividend : Word,
                    margin_req : Word, margin_max : Word]
  PROVE  ReadRoundConfiguration(WriteRoundConfiguration(c)) = c
BY DEF WriteRoundConfiguration, ReadRoundConfiguration

-----------------------------------------------------------------------------
(* Portfolios                                                              *)

Portfolios == [Cash : IntRange, Shares : IntRange, Margin : IntRange,
               Derivatives : IntRange]

ItemNames == {"Cash", "Shares", "Margin", "Derivatives"}

\* Portfolios whatever their counts, and what is read of one: a count that
\* leaves the range of an int comes back as another one.
Counts == [Cash : Int, Shares : Int, Margin : Int, Derivatives : Int]

Wrapped(port) == [item \in ItemNames |-> AsInt(AsUnsigned(port[item]))]

\* What is read is a portfolio, and the one written if its counts are ints.
LEMMA WrappedFacts ==
  ASSUME NEW port \in Counts
  PROVE  /\ Wrapped(port) \in Counts
         /\ port \in Portfolios => Wrapped(port) = port
<1>1. \A i \in Int : AsInt(AsUnsigned(i)) \in Int
  BY ModulusAssumption DEF AsInt, AsUnsigned
<1>2. Wrapped(port) \in Counts
  <2>1. \A item \in ItemNames : port[item] \in Int
    BY DEF Counts, ItemNames
  <2>2. Wrapped(port) =
          [Cash |-> Wrapped(port).Cash, Shares |-> Wrapped(port).Shares,
           Margin |-> Wrapped(port).Margin, Derivatives |-> Wrapped(port).Derivatives]
    BY DEF Wrapped, ItemNames
  <2>3. \A item \in ItemNames : Wrapped(port)[item] \in Int
    BY <1>1, <2>1 DEF Wrapped
  <2> QED BY <2>2, <2>3 DEF Counts, ItemNames
<1>3. ASSUME port \in Portfolios PROVE Wrapped(port) = port
  <2>1. \A item \in ItemNames : AsInt(AsUnsigned(port[item])) = port[item]
    <3>1. \A item \in ItemNames : port[item] \in IntRange
      BY <1>3 DEF Portfolios, ItemNames
    <3> QED BY <3>1, IntReadBack
  <2>2. port = [item \in ItemNames |-> port[item]]
    BY <1>3 DEF Portfolios, ItemNames
  <2> QED BY <2>1, <2>2 DEF Wrapped
<1> QED BY <1>2, <1>3

\* The words of a portfolio, one by one
LEMMA PortfolioWords ==
  ASSUME NEW Word, Int \subseteq Word, ItemNames \subseteq Word,
         NEW port \in Counts
  PROVE  /\ WritePortfolio(port) \in Seq(Word)
         /\ Len(WritePortfolio(port)) = 9
         /\ WritePortfolio(port)[1] = 4
         /\ \A i \in 1..4 : /\ WritePortfolio(port)[2 * i] = Items[i]
                           /\ WritePortfolio(port)[2 * i + 1] = port[Items[i]]
<1> DEFINE body == [k \in 1..8 |-> IF k % 2 = 1 THEN Items[(k + 1) \div 2]
                                   ELSE port[Items[k \div 2]]]
<1>1. WritePortfolio(port) = <<4>> \o body
  BY DEF WritePortfolio, Items
<1>2. body \in Seq(Word) /\ Len(body) = 8
  <2>1. \A k \in 1..8 : body[k] \in Word
    BY DEF Items, Counts, ItemNames
  <2> QED BY <2>1
<1>3. \A i \in 1..4 : body[2 * i - 1] = Items[i] /\ body[2 * i] = port[Items[i]]
  BY DEF Items
<1> DEFINE count == <<4>>
<1>4. count \in Seq(Word) /\ Len(count) = 1 /\ count[1] = 4
  OBVIOUS
<1> HIDE DEF body, count
<1>5. /\ count \o body \in Seq(Word)
      /\ Len(count \o body) = Len(body) + 1
      /\ (count \o body)[1] = count[1]
      /\ \A k \in 1..Len(body) : (count \o body)[k + 1] = body[k]
  <2>1. body \in Seq(Word) BY <1>2
  <2>2. count \in Seq(Word) /\ Len(count) = 1 BY <1>4
  <2>3. Follows(Word, count \o body, count, body)
    BY <2>1, <2>2, Prefixed, Zenon
  <2> QED BY <2>3, Zenon DEF Follows
<1>6. Len(count \o body) = 9
  BY <1>2, <1>5
<1>7. ASSUME NEW i \in 1..4
      PROVE  /\ (count \o body)[2 * i] = Items[i]
             /\ (count \o body)[2 * i + 1] = port[Items[i]]
  <2>1. 2 * i - 1 \in 1..Len(body) /\ 2 * i \in 1..Len(body) /\ (2 * i - 1) + 1 = 2 * i
    BY <1>2
  <2> QED BY <2>1, <1>3, <1>5
<1> QED BY <1>1, <1>4, <1>5, <1>6, <1>7 DEF count

\* What the reader makes of a portfolio's text, whatever follows it
LEMMA PortfolioIsRead ==
  ASSUME NEW Word, Int \subseteq Word, ItemNames \subseteq Word,
         NEW port \in Counts, NEW rest \in Seq(Word)
  PROVE  ReadPortfolio(WritePortfolio(port) \o rest) = Wrapped(port)
<1> DEFINE w == WritePortfolio(port) \o rest
<1>1. /\ w[1] = 4
      /\ \A i \in 1..4 : w[2 * i] = Items[i] /\ w[2 * i + 1] = port[Items[i]]
  BY PortfolioWords, SMTT(30)
<1> HIDE DEF w
<1>2. ASSUME NEW i \in 1..4
      PROVE  ReadPortfolio(w)[Items[i]] = AsInt(AsUnsigned(port[Items[i]]))
  <2> DEFINE at == {k \in 1..w[1] : w[2 * k] = Items[i]}
  <2>1. at = {i}
    BY <1>1, <1>2 DEF Items
  <2>2. TheOnly(at) = i
    BY <2>1 DEF TheOnly
  <2>3. Items[i] \in ItemNames
    BY <1>2 DEF Items, ItemNames
  <2> HIDE DEF at
  <2>4. ReadPortfolio(w)[Items[i]] = AsInt(AsUnsigned(w[2 * TheOnly(at) + 1]))
    BY <2>1, <2>3 DEF ReadPortfolio, at, ItemNames
  <2> QED BY <2>2, <2>4, <1>1, <1>2
<1>3. \A item \in ItemNames :
        ReadPortfolio(w)[item] = AsInt(AsUnsigned(port[item]))
  <2>1. \A item \in ItemNames : \E i \in 1..4 : item = Items[i]
    BY DEF Items, ItemNames
  <2> QED BY <1>2, <2>1
<1>4. ReadPortfolio(w) = [item \in ItemNames |-> ReadPortfolio(w)[item]]
  BY DEF ReadPortfolio, ItemNames
<1>5. ReadPortfolio(w) = [item \in ItemNames |-> AsInt(AsUnsigned(port[item]))]
  BY <1>3, <1>4
<1> QED BY <1>5 DEF w, Wrapped

\* A portfolio is read back, negative counts included and whatever follows it,
\* although counts are read as unsigned (portfolio.cc:50-81).
THEOREM PortfolioReadBack ==
  ASSUME NEW Word, Int \subseteq Word, ItemNames \subseteq Word,
         NEW port \in Portfolios, NEW rest \in Seq(Word)
  PROVE  ReadPortfolio(WritePortfolio(port) \o rest) = port
<1>1. port \in Counts
  BY ModulusAssumption DEF Portfolios, Counts, IntRange
<1> QED BY <1>1, PortfolioIsRead, WrappedFacts

\* Three parts of a text, however they are put together
Regrouped(a, b, rest) == (a \o b) \o rest = a \o (b \o rest)

LEMMA AnyGrouping ==
  ASSUME NEW Word, NEW a \in Seq(Word), NEW b \in Seq(Word), NEW rest \in Seq(Word)
  PROVE  Regrouped(a, b, rest)
BY ConcatAssociative, SMTT(30) DEF Regrouped

\* Two parts of a text and what follows them
Joined(a, b, rest) == (a \o b) \o rest

\* The first part is read word by word, and the second part is found behind it.
Parted(w, a, b, rest) ==
  /\ From(w, Len(a) + 1) = b \o rest
  /\ \A k \in 1..Len(a) : w[k] = a[k]

LEMMA SecondPart ==
  ASSUME NEW Word, NEW a \in Seq(Word), NEW b \in Seq(Word), NEW rest \in Seq(Word)
  PROVE  /\ a \o b \in Seq(Word)
         /\ Len(a \o b) = Len(a) + Len(b)
         /\ Joined(a, b, rest) \in Seq(Word)
         /\ Parted(Joined(a, b, rest), a, b, rest)
         /\ Len(a) <= Len(Joined(a, b, rest))
<1>1. b \o rest \in Seq(Word) /\ a \o b \in Seq(Word)
  BY ConcatProperties
<1>2. Joined(a, b, rest) = a \o (b \o rest)
  <2>1. Regrouped(a, b, rest)
    BY AnyGrouping, Zenon
  <2> QED BY <2>1 DEF Joined, Regrouped
<1>3. From(a \o (b \o rest), Len(a) + 1) = b \o rest
  <2> DEFINE k == Len(a) + 1
             t == b \o rest
  <2>1. k = Len(a) + 1 /\ t \in Seq(Word)
    BY <1>1
  <2> HIDE DEF k, t
  <2>2. From(a \o t, k) = t
    BY <2>1, FromAppended
  <2> QED BY <2>2 DEF k, t
<1>4. \A k \in 1..Len(a) : (a \o (b \o rest))[k] = a[k]
  BY <1>1, ConcatProperties, LenProperties
<1>5. Len(a \o b) = Len(a) + Len(b)
  BY ConcatProperties
<1>6. Joined(a, b, rest) \in Seq(Word)
      /\ Len(Joined(a, b, rest)) = Len(a) + Len(b \o rest)
  BY <1>1, <1>2, ConcatProperties
<1>7. Len(a) <= Len(Joined(a, b, rest))
  <2>1. Len(a) \in Nat /\ Len(b \o rest) \in Nat
    BY <1>1, LenProperties
  <2> QED BY <1>6, <2>1
<1> QED BY <1>1, <1>2, <1>3, <1>4, <1>5, <1>6, <1>7 DEF Parted

\* The message of a portfolio: the subject it belongs to, and what is made of
\* its counts, whatever follows.  The admins' copy has the subject once more.
THEOREM SubjectPortfolioReadBack ==
  ASSUME NEW Word, Int \subseteq Word, ItemNames \subseteq Word,
         NEW id \in Word, NEW port \in Counts, NEW rest \in Seq(Word)
  PROVE  /\ WriteSubjectPortfolio(id, port) \in Seq(Word)
         /\ ReadSubjectPortfolio(WriteSubjectPortfolio(id, port) \o rest)
              = [id |-> id, port |-> Wrapped(port)]
<1> DEFINE a == <<id>>
           b == WritePortfolio(port)
           w == Joined(a, b, rest)
<1>1. a \in Seq(Word) /\ Len(a) = 1 /\ a[1] = id
  OBVIOUS
<1>2. b \in Seq(Word)
  BY PortfolioWords
<1>3. ReadPortfolio(b \o rest) = Wrapped(port)
  BY PortfolioIsRead
<1>4. WriteSubjectPortfolio(id, port) = a \o b
  BY DEF WriteSubjectPortfolio
<1> HIDE DEF a, b
<1>5. a \o b \in Seq(Word) /\ Parted(w, a, b, rest)
  BY <1>1, <1>2, SecondPart
<1> HIDE DEF w
<1>6. From(w, 2) = b \o rest /\ w[1] = id
  BY <1>1, <1>5 DEF Parted
<1>7. ReadSubjectPortfolio(w) = [id |-> id, port |-> Wrapped(port)]
  BY <1>3, <1>6 DEF ReadSubjectPortfolio
<1> QED BY <1>4, <1>5, <1>7 DEF w, Joined

-----------------------------------------------------------------------------
(* The result of an offer                                                  *)

Offers(Word) == [id : Word, player_id : Word, price : Word, time_elapsed : Word]

Trades(Word) ==
  [buyer : Word, seller : Word, price : Word, bid_id : Word, ask_id : Word]

RetractResults(Word) ==
  [validity : {RetractValidities[k] : k \in DOMAIN RetractValidities},
   request : [id : Word, offer_id : Word]]

\* The three words of a retraction's result, and what they are read as
LEMMA RetractResultWords ==
  ASSUME NEW Word, Int \subseteq Word, NEW rr \in RetractResults(Word)
  PROVE  /\ WriteRetractResult(rr) =
              <<Code(RetractValidities, rr.validity), rr.request.id,
                rr.request.offer_id>>
         /\ Code(RetractValidities, rr.validity) \in Nat
         /\ WriteRetractResult(rr) \in Seq(Word)
         /\ Len(WriteRetractResult(rr)) = 3
         /\ ReadRetractResult(WriteRetractResult(rr)) = rr
<1> DEFINE c == Code(RetractValidities, rr.validity)
           w == <<c, rr.request.id, rr.request.offer_id>>
<1>1. PICK k \in DOMAIN RetractValidities : rr.validity = RetractValidities[k]
  BY DEF RetractResults
<1>2. RetractValidities \in Seq({RetractValidities[i] : i \in DOMAIN RetractValidities})
  BY DEF RetractValidities
<1>3. c \in Nat /\ Enumerator(RetractValidities, c) = rr.validity
  BY <1>1, <1>2, EnumeratorReadBack
<1> HIDE DEF c
<1>4. rr.request \in [id : Word, offer_id : Word]
  BY DEF RetractResults
<1> DEFINE request == <<rr.request.id, rr.request.offer_id>>
<1>5. w \in Seq(Word) /\ Len(w) = 3
  BY <1>3, <1>4
<1>6. WriteRetractResult(rr) = w
  <2> DEFINE first == <<c>>
  <2>1. WriteRetractResult(rr) = first \o request
    BY DEF WriteRetractResult, WriteRetractRequest, c
  <2>2. /\ request \in Seq(Word) /\ Len(request) = 2
        /\ first \in Seq(Word) /\ Len(first) = 1
    BY <1>3, <1>4
  <2>3. w[1] = first[1] /\ w[2] = request[1] /\ w[3] = request[2]
    OBVIOUS
  <2> HIDE DEF request, first, w
  <2>4. /\ first \o request \in Seq(Word)
        /\ Len(first \o request) = Len(request) + 1
        /\ (first \o request)[1] = first[1]
        /\ \A n \in 1..Len(request) : (first \o request)[n + 1] = request[n]
    <3>1. request \in Seq(Word) BY <2>2
    <3>2. first \in Seq(Word) /\ Len(first) = 1 BY <2>2
    <3>3. Follows(Word, first \o request, first, request)
      BY <3>1, <3>2, Prefixed, Zenon
    <3> QED BY <3>3, Zenon DEF Follows
  <2>5. (first \o request)[2] = request[1] /\ (first \o request)[3] = request[2]
    BY <2>2, <2>4
  <2>6. Len(first \o request) = 3
    BY <2>2, <2>4
  <2>7. ASSUME NEW i \in 1..3 PROVE (first \o request)[i] = w[i]
    <3>1. i = 1 \/ i = 2 \/ i = 3 OBVIOUS
    <3> QED BY <3>1, <2>3, <2>4, <2>5
  <2> QED BY <2>1, <2>4, <2>6, <2>7, <1>5, SeqEqual
<1>7. ReadRetractRequest(From(w, 2)) = rr.request
  BY <1>3, <1>4 DEF ReadRetractRequest, From
<1>8. ReadRetractResult(w) = [validity |-> rr.validity, request |-> rr.request]
  BY <1>3, <1>7 DEF ReadRetractResult
<1>9. rr = [validity |-> rr.validity, request |-> rr.request]
  BY DEF RetractResults
<1> QED BY <1>3, <1>5, <1>6, <1>8, <1>9 DEF c, w

\* A vector of retractions is read back, whatever follows it
\* (market_submission_result.cc:38-41, 56-62).
THEOREM RetractsReadBack ==
  ASSUME NEW Word, Int \subseteq Word,
         NEW rrs \in Seq(RetractResults(Word)), NEW rest \in Seq(Word)
  PROVE  /\ WriteRetracts(rrs) \in Seq(Word)
         /\ ReadRetracts(WriteRetracts(rrs) \o rest) = rrs
<1> DEFINE n == Len(rrs)
           body == [k \in 1..(3 * n) |->
                      WriteRetractResult(rrs[(k + 2) \div 3])[((k - 1) % 3) + 1]]
           count == <<n>>
           w == WriteRetracts(rrs) \o rest
<1>1. n \in Nat /\ \A i \in 1..n : rrs[i] \in RetractResults(Word)
  OBVIOUS
<1> HIDE DEF n
<1>2. body \in Seq(Word) /\ Len(body) = 3 * n
  <2>1. ASSUME NEW k \in 1..(3 * n) PROVE body[k] \in Word
    <3>1. (k + 2) \div 3 \in 1..n /\ ((k - 1) % 3) + 1 \in 1..3
      BY <1>1
    <3>2. PICK rr \in RetractResults(Word) : rr = rrs[(k + 2) \div 3]
      BY <1>1, <3>1
    <3>3. PICK j \in 1..3 : j = ((k - 1) % 3) + 1
      BY <3>1
    <3>4. /\ WriteRetractResult(rr) \in Seq(Word)
          /\ Len(WriteRetractResult(rr)) = 3
      BY <3>2, RetractResultWords
    <3>5. WriteRetractResult(rr)[j] \in Word
      <4> HIDE DEF body, count, w
      <4>1. PICK words \in Seq(Word) : words = WriteRetractResult(rr) /\ Len(words) = 3
        BY <3>4
      <4>2. words[j] \in Word
        <5>1. words \in [1..Len(words) -> Word]
          BY LenProperties, Zenon
        <5>2. j \in 1..Len(words)
          BY <3>3, <4>1
        <5> QED BY <5>1, <5>2, Zenon
      <4> QED BY <4>1, <4>2
    <3> QED BY <3>2, <3>3, <3>5
  <2>2. 3 * n \in Nat
    BY <1>1
  <2> QED BY <2>1, <2>2, SMTT(30)
<1>3. ASSUME NEW i \in 1..n
      PROVE  /\ 3 * i - 2 \in 1..(3 * n) /\ 3 * i - 1 \in 1..(3 * n) /\ 3 * i \in 1..(3 * n)
             /\ body[3 * i - 2] = WriteRetractResult(rrs[i])[1]
             /\ body[3 * i - 1] = WriteRetractResult(rrs[i])[2]
             /\ body[3 * i] = WriteRetractResult(rrs[i])[3]
  <2>1. /\ ((3 * i - 2) + 2) \div 3 = i /\ ((3 * i - 2) - 1) % 3 = 0
        /\ ((3 * i - 1) + 2) \div 3 = i /\ ((3 * i - 1) - 1) % 3 = 1
        /\ (3 * i + 2) \div 3 = i /\ (3 * i - 1) % 3 = 2
    BY <1>1, SMTT(30)
  <2>2. 3 * i - 2 \in 1..(3 * n) /\ 3 * i - 1 \in 1..(3 * n) /\ 3 * i \in 1..(3 * n)
    BY <1>1
  <2> QED BY <2>1, <2>2, SMTT(30)
<1>4. count \in Seq(Word) /\ Len(count) = 1 /\ count[1] = n
  BY <1>1
<1>5. WriteRetracts(rrs) = count \o body
  BY DEF WriteRetracts, n
<1> HIDE DEF body, count
<1>6. /\ count \o body \in Seq(Word) /\ Len(count \o body) = 3 * n + 1
      /\ (count \o body)[1] = n
      /\ \A k \in 1..(3 * n) : (count \o body)[k + 1] = body[k]
  <2>1. /\ count \o body \in Seq(Word) /\ Len(count \o body) = Len(body) + 1
        /\ (count \o body)[1] = count[1]
        /\ \A k \in 1..Len(body) : (count \o body)[k + 1] = body[k]
    <3>1. Follows(Word, count \o body, count, body)
      BY <1>2, <1>4, Prefixed, Zenon
    <3> QED BY <3>1, Zenon DEF Follows
  <2> QED BY <2>1, <1>1, <1>2, <1>4
<1>7. w[1] = n /\ \A k \in 1..(3 * n) : w[k + 1] = body[k]
  BY <1>1, <1>5, <1>6, SMTT(30)
<1> HIDE DEF w
<1>8. ASSUME NEW i \in 1..n
      PROVE  ReadRetractResult(<<w[3 * i - 1], w[3 * i], w[3 * i + 1]>>) = rrs[i]
  <2>1. /\ w[3 * i - 1] = WriteRetractResult(rrs[i])[1]
        /\ w[3 * i] = WriteRetractResult(rrs[i])[2]
        /\ w[3 * i + 1] = WriteRetractResult(rrs[i])[3]
    <3>1. /\ (3 * i - 2) + 1 = 3 * i - 1 /\ (3 * i - 1) + 1 = 3 * i
      BY <1>1
    <3>2. /\ w[(3 * i - 2) + 1] = body[3 * i - 2]
          /\ w[(3 * i - 1) + 1] = body[3 * i - 1]
          /\ w[3 * i + 1] = body[3 * i]
      BY <1>3, <1>7
    <3> QED BY <1>3, <3>1, <3>2
  <2>2. rrs[i] \in RetractResults(Word)
    BY <1>1
  <2>3. WriteRetractResult(rrs[i]) = <<w[3 * i - 1], w[3 * i], w[3 * i + 1]>>
    <3>1. WriteRetractResult(rrs[i]) =
            <<Code(RetractValidities, rrs[i].validity), rrs[i].request.id,
              rrs[i].request.offer_id>>
      BY <2>2, RetractResultWords, ZenonT(30)
    <3> QED BY <2>1, <3>1
  <2>4. ReadRetractResult(WriteRetractResult(rrs[i])) = rrs[i]
    BY <2>2, RetractResultWords, ZenonT(30)
  <2> QED BY <2>3, <2>4, Zenon
<1>9. ReadRetracts(w) = [i \in 1..n |-> rrs[i]]
  BY <1>7, <1>8 DEF ReadRetracts
<1>10. rrs = [i \in 1..n |-> rrs[i]]
  BY DEF n
<1> QED BY <1>5, <1>6, <1>9, <1>10 DEF w

\* The words from the j-th on, one by one
LEMMA FromWords ==
  ASSUME NEW Word, NEW w \in Seq(Word), NEW j \in 1..Len(w)
  PROVE  \A k \in 1..(Len(w) - j + 1) : From(w, j)[k] = w[j + k - 1]
<1>1. Len(w) \in Nat /\ \A k \in 1..Len(w) : w[k] \in Word
  BY LenProperties
<1> QED BY <1>1 DEF From

\* Two parts of a text, word by word
Joins(w, a, b) ==
  /\ Len(w) = Len(a) + Len(b)
  /\ \A k \in 1..Len(a) : w[k] = a[k]
  /\ \A k \in 1..Len(b) : w[Len(a) + k] = b[k]

LEMMA JoinedWords ==
  ASSUME NEW Word, NEW a \in Seq(Word), NEW b \in Seq(Word)
  PROVE  a \o b \in Seq(Word) /\ Joins(a \o b, a, b)
<1>1. Len(a) \in Nat /\ Len(b) \in Nat
  BY LenProperties
<1>2. /\ a \o b \in Seq(Word)
      /\ Len(a \o b) = Len(a) + Len(b)
      /\ \A i \in 1..(Len(a) + Len(b)) :
           (a \o b)[i] = IF i <= Len(a) THEN a[i] ELSE b[i - Len(a)]
  BY ConcatProperties, Zenon
<1>3. ASSUME NEW k \in 1..Len(a) PROVE (a \o b)[k] = a[k]
  BY <1>1, <1>2
<1>4. ASSUME NEW k \in 1..Len(b) PROVE (a \o b)[Len(a) + k] = b[k]
  <2>1. /\ Len(a) + k \in 1..(Len(a) + Len(b)) /\ ~(Len(a) + k <= Len(a))
        /\ (Len(a) + k) - Len(a) = k
    BY <1>1
  <2> QED BY <1>2, <2>1
<1> QED BY <1>2, <1>3, <1>4 DEF Joins

SubmissionResults(Word) ==
  [validity : {OfferValidity[k] : k \in DOMAIN OfferValidity},
   offer    : Offers(Word),
   trade    : {{}} \cup {{t} : t \in Trades(Word)},
   retracts : Seq(RetractResults(Word))]

\* The words of the answer before the vector of retractions
SubmissionFront(res) ==
  <<Code(OfferValidity, res.validity)>> \o WriteOffer(res.offer)
    \o (IF res.trade = {} THEN <<FALSE>>
        ELSE <<TRUE>> \o WriteTrade(TheOnly(res.trade)))

FrontWords(p, res) ==
  /\ Len(p) = IF res.trade = {} THEN 6 ELSE 11
  /\ p[1] = Code(OfferValidity, res.validity)
  /\ p[2] = res.offer.id /\ p[3] = res.offer.player_id
  /\ p[4] = res.offer.price /\ p[5] = res.offer.time_elapsed
  /\ p[6] = IF res.trade = {} THEN FALSE ELSE TRUE
  /\ \A t \in res.trade :
       /\ p[7] = t.buyer /\ p[8] = t.seller /\ p[9] = t.price
       /\ p[10] = t.bid_id /\ p[11] = t.ask_id

LEMMA SubmissionFrontWords ==
  ASSUME NEW Word, Int \subseteq Word, BOOLEAN \subseteq Word,
         NEW res \in SubmissionResults(Word)
  PROVE  /\ SubmissionFront(res) \in Seq(Word)
         /\ FrontWords(SubmissionFront(res), res)
         /\ Enumerator(OfferValidity, Code(OfferValidity, res.validity)) = res.validity
<1> DEFINE c == Code(OfferValidity, res.validity)
           h == <<c>>
           o == WriteOffer(res.offer)
           t == IF res.trade = {} THEN <<FALSE>>
                ELSE <<TRUE>> \o WriteTrade(TheOnly(res.trade))
<1>1. c \in Nat /\ Enumerator(OfferValidity, c) = res.validity
  <2>1. PICK k \in DOMAIN OfferValidity : res.validity = OfferValidity[k]
    BY DEF SubmissionResults
  <2>2. OfferValidity \in Seq({OfferValidity[i] : i \in DOMAIN OfferValidity})
    BY DEF OfferValidity
  <2> QED BY <2>1, <2>2, EnumeratorReadBack
<1> HIDE DEF c
<1>2. h \in Seq(Word) /\ Len(h) = 1 /\ h[1] = c
  BY <1>1
<1>3. /\ o \in Seq(Word) /\ Len(o) = 4
      /\ o[1] = res.offer.id /\ o[2] = res.offer.player_id
      /\ o[3] = res.offer.price /\ o[4] = res.offer.time_elapsed
  BY DEF WriteOffer, SubmissionResults, Offers
<1>4. /\ t \in Seq(Word)
      /\ Len(t) = IF res.trade = {} THEN 1 ELSE 6
      /\ t[1] = IF res.trade = {} THEN FALSE ELSE TRUE
      /\ \A u \in res.trade :
           /\ t[2] = u.buyer /\ t[3] = u.seller /\ t[4] = u.price
           /\ t[5] = u.bid_id /\ t[6] = u.ask_id
  <2>1. CASE res.trade = {}
    <3>1. <<FALSE>> \in Seq(Word) /\ Len(<<FALSE>>) = 1 /\ <<FALSE>>[1] = FALSE
      BY OneWord, Zenon
    <3>2. t = <<FALSE>>
      BY <2>1
    <3> HIDE DEF t
    <3> QED BY <2>1, <3>1, <3>2
  <2>2. CASE res.trade # {}
    <3>1. PICK u \in Trades(Word) : res.trade = {u}
      BY <2>2 DEF SubmissionResults
    <3>2. TheOnly(res.trade) = u
      BY <3>1 DEF TheOnly
    <3> DEFINE x == WriteTrade(u)
               y == <<TRUE>>
    <3>3. /\ x \in Seq(Word) /\ Len(x) = 5
          /\ x[1] = u.buyer /\ x[2] = u.seller /\ x[3] = u.price
          /\ x[4] = u.bid_id /\ x[5] = u.ask_id
      BY DEF WriteTrade, Trades
    <3>4. y \in Seq(Word) /\ Len(y) = 1 /\ y[1] = TRUE
      BY OneWord, Zenon
    <3>5. t = y \o x
      BY <2>2, <3>2
    <3> HIDE DEF x, y, t
    <3>6. t \in Seq(Word) /\ Joins(t, y, x)
      BY <3>3, <3>4, <3>5, JoinedWords
    <3>7. Len(t) = 6 /\ t[1] = TRUE /\ \A k \in 1..5 : t[1 + k] = x[k]
      BY <3>3, <3>4, <3>6 DEF Joins
    <3>8. /\ t[2] = x[1] /\ t[3] = x[2] /\ t[4] = x[3]
          /\ t[5] = x[4] /\ t[6] = x[5]
      BY <3>7
    <3> QED BY <2>2, <3>1, <3>3, <3>6, <3>7, <3>8
  <2> QED BY <2>1, <2>2
<1>5. SubmissionFront(res) = (h \o o) \o t
  BY DEF SubmissionFront, c
<1> HIDE DEF h, o, t
<1> DEFINE ho == h \o o
<1>6. ho \in Seq(Word) /\ Joins(ho, h, o)
  BY <1>2, <1>3, JoinedWords
<1>a. SubmissionFront(res) = ho \o t
  BY <1>5
<1> HIDE DEF ho
<1>7. /\ ho \in Seq(Word) /\ Len(ho) = 5 /\ ho[1] = c
      /\ ho[2] = res.offer.id /\ ho[3] = res.offer.player_id
      /\ ho[4] = res.offer.price /\ ho[5] = res.offer.time_elapsed
  BY <1>2, <1>3, <1>6 DEF Joins
<1> DEFINE p == ho \o t
<1>8. p \in Seq(Word) /\ Joins(p, ho, t)
  BY <1>4, <1>7, JoinedWords
<1>10. SubmissionFront(res) = p
  BY <1>a
<1> HIDE DEF p
<1>9. /\ p \in Seq(Word)
      /\ Len(p) = 5 + Len(t)
      /\ \A k \in 1..5 : p[k] = ho[k]
      /\ \A k \in 1..Len(t) : p[5 + k] = t[k]
  BY <1>7, <1>8 DEF Joins
<1>11. p[6] = t[1]
  <2>1. 1 \in 1..Len(t)
    BY <1>4
  <2>2. p[5 + 1] = t[1]
    BY <1>9, <2>1
  <2> QED BY <2>2
<1>12. \A u \in res.trade :
         p[7] = t[2] /\ p[8] = t[3] /\ p[9] = t[4] /\ p[10] = t[5] /\ p[11] = t[6]
  BY <1>4, <1>9
<1>13. FrontWords(p, res)
  <2>1. Len(p) = IF res.trade = {} THEN 6 ELSE 11
    BY <1>4, <1>9
  <2>2. /\ p[1] = c
        /\ p[2] = res.offer.id /\ p[3] = res.offer.player_id
        /\ p[4] = res.offer.price /\ p[5] = res.offer.time_elapsed
    BY <1>7, <1>9
  <2>3. p[6] = IF res.trade = {} THEN FALSE ELSE TRUE
    BY <1>4, <1>11, Zenon
  <2>4. \A u \in res.trade :
          /\ p[7] = u.buyer /\ p[8] = u.seller /\ p[9] = u.price
          /\ p[10] = u.bid_id /\ p[11] = u.ask_id
    BY <1>4, <1>12
  <2> QED BY <2>1, <2>2, <2>3, <2>4, Zenon DEF FrontWords, c
<1> QED BY <1>1, <1>9, <1>10, <1>13 DEF c

\* The market's answer to an offer is read back: its verdict, the offer, the
\* trade if there is one, and every replaced offer
\* (market_submission_result.cc:30-67).
THEOREM SubmissionResultReadBack ==
  ASSUME NEW Word, Int \subseteq Word, BOOLEAN \subseteq Word,
         NEW res \in SubmissionResults(Word), NEW rest \in Seq(Word)
  PROVE  /\ WriteMarketSubmissionResult(res) \in Seq(Word)
         /\ ReadMarketSubmissionResult(WriteMarketSubmissionResult(res) \o rest) = res
<1> DEFINE p == SubmissionFront(res)
           r == WriteRetracts(res.retracts)
           w == Joined(p, r, rest)
<1>1. res.retracts \in Seq(RetractResults(Word))
  BY DEF SubmissionResults
<1>2. r \in Seq(Word) /\ ReadRetracts(r \o rest) = res.retracts
  BY <1>1, RetractsReadBack
<1>3. /\ p \in Seq(Word) /\ FrontWords(p, res)
      /\ Enumerator(OfferValidity, p[1]) = res.validity
  BY SubmissionFrontWords DEF FrontWords
<1>4. WriteMarketSubmissionResult(res) = p \o r
  BY DEF WriteMarketSubmissionResult, SubmissionFront
<1> HIDE DEF p, r
<1>5. p \o r \in Seq(Word) /\ Parted(w, p, r, rest)
  BY <1>2, <1>3, SecondPart
<1>6. w \in Seq(Word) /\ Len(w) \in Nat /\ Len(p) <= Len(w)
  BY <1>2, <1>3, SecondPart, LenProperties
<1> HIDE DEF w
<1>a. PICK n : n = Len(p)
  OBVIOUS
<1>7. /\ \A k \in 1..n : w[k] = p[k]
      /\ From(w, n + 1) = r \o rest
      /\ n <= Len(w)
  BY <1>5, <1>6, <1>a DEF Parted
<1>8. /\ res.trade = {} => n = 6
      /\ res.trade # {} => n = 11
  BY <1>3, <1>a, Zenon DEF FrontWords
<1>n. n \in Nat /\ (n = 6 \/ n = 11)
  BY <1>8
<1>9. ReadOffer(From(w, 2)) = res.offer
  <2>6. 2 \in 1..Len(w)
    BY <1>6, <1>7, <1>n
  <2>1. \A k \in 1..(Len(w) - 2 + 1) : From(w, 2)[k] = w[2 + k - 1]
    BY <1>6, <2>6, FromWords, ZenonT(30)
  <2>2. Len(w) - 2 + 1 \in Nat /\ Len(w) - 2 + 1 >= 4 /\ n \in Nat /\ n >= 6
    BY <1>6, <1>7, <1>n
  <2>4. /\ From(w, 2)[1] = w[2] /\ From(w, 2)[2] = w[3]
        /\ From(w, 2)[3] = w[4] /\ From(w, 2)[4] = w[5]
    BY <2>1, <2>2
  <2>5. /\ From(w, 2)[1] = p[2] /\ From(w, 2)[2] = p[3]
        /\ From(w, 2)[3] = p[4] /\ From(w, 2)[4] = p[5]
    BY <1>7, <2>2, <2>4
  <2>3. res.offer \in Offers(Word)
    BY DEF SubmissionResults
  <2> QED BY <1>3, <2>3, <2>5 DEF ReadOffer, FrontWords, Offers
<1>10. w[6] = IF res.trade = {} THEN FALSE ELSE TRUE
  <2>1. 6 \in 1..n
    BY <1>n
  <2>2. w[6] = p[6]
    BY <1>7, <2>1
  <2>3. p[6] = IF res.trade = {} THEN FALSE ELSE TRUE
    BY <1>3, Zenon DEF FrontWords
  <2> QED BY <2>2, <2>3, Zenon
<1>11. ASSUME res.trade # {} PROVE {ReadTrade(From(w, 7))} = res.trade
  <2>4. n = 11 /\ 7 \in 1..Len(w)
    BY <1>6, <1>7, <1>8, <1>11
  <2>1. \A k \in 1..(Len(w) - 7 + 1) : From(w, 7)[k] = w[7 + k - 1]
    BY <1>6, <2>4, FromWords
  <2>5. Len(w) - 7 + 1 \in Nat /\ Len(w) - 7 + 1 >= 5
    BY <1>6, <1>7, <2>4
  <2>6. /\ From(w, 7)[1] = w[7] /\ From(w, 7)[2] = w[8] /\ From(w, 7)[3] = w[9]
        /\ From(w, 7)[4] = w[10] /\ From(w, 7)[5] = w[11]
    BY <2>1, <2>5
  <2>2. /\ From(w, 7)[1] = p[7] /\ From(w, 7)[2] = p[8] /\ From(w, 7)[3] = p[9]
        /\ From(w, 7)[4] = p[10] /\ From(w, 7)[5] = p[11]
    BY <1>7, <2>4, <2>6
  <2>3. PICK t \in Trades(Word) : res.trade = {t}
    BY <1>11 DEF SubmissionResults
  <2> QED BY <1>3, <2>2, <2>3 DEF ReadTrade, FrontWords, Trades
<1>12. ReadRetracts(From(w, IF w[6] THEN 12 ELSE 7)) = res.retracts
  <2>1. From(w, n + 1) = r \o rest
    BY <1>7
  <2>2. CASE res.trade = {}
    <3>1. w[6] = FALSE /\ n + 1 = 7
      BY <1>n, <1>8, <1>10, <2>2
    <3> QED BY <1>2, <2>1, <3>1
  <2>3. CASE res.trade # {}
    <3>1. w[6] = TRUE /\ n + 1 = 12
      BY <1>n, <1>8, <1>10, <2>3
    <3> QED BY <1>2, <2>1, <3>1
  <2> QED BY <2>2, <2>3
<1>13. Enumerator(OfferValidity, w[1]) = res.validity
  BY <1>3, <1>7, <1>n
<1>14. ReadMarketSubmissionResult(w)
         = [validity |-> res.validity, offer |-> res.offer,
            trade |-> res.trade, retracts |-> res.retracts]
  BY <1>9, <1>10, <1>11, <1>12, <1>13 DEF ReadMarketSubmissionResult
<1>15. res = [validity |-> res.validity, offer |-> res.offer,
              trade |-> res.trade, retracts |-> res.retracts]
  BY DEF SubmissionResults
<1> QED BY <1>4, <1>5, <1>14, <1>15 DEF w, Joined

-----------------------------------------------------------------------------
(* The settings of a subject                                               *)

Configurations(Word) ==
  [instructions_filename : {{}} \cup {{l} : l \in Word}, init_alloc : Counts,
   is_creator : Word, eperdollar : Word]

\* The line of the file name gains a blank; all else comes back.
ConfigurationRead(c) ==
  [instructions_filename |-> {ReadLine(l) : l \in c.instructions_filename},
   init_alloc            |-> Wrapped(c.init_alloc),
   is_creator            |-> c.is_creator,
   eperdollar            |-> c.eperdollar]

\* The settings of a subject are read back but for the blank before the name
\* of the file, whatever follows them (configuration.cc:25-46).
THEOREM SubjectConfigurationReadBack ==
  ASSUME NEW Word, Int \subseteq Word, ItemNames \subseteq Word,
         BOOLEAN \subseteq Word, NEW c \in Configurations(Word),
         NEW rest \in Seq(Word)
  PROVE  /\ WriteSubjectConfiguration(c) \in Seq(Word)
         /\ ReadSubjectConfiguration(WriteSubjectConfiguration(c) \o rest)
              = ConfigurationRead(c)
<1> DEFINE named == IF c.instructions_filename = {} THEN FALSE ELSE TRUE
           front == IF c.instructions_filename = {} THEN <<FALSE>>
                    ELSE <<TRUE, TheOnly(c.instructions_filename)>>
           p == WritePortfolio(c.init_alloc)
           tail == <<c.is_creator, c.eperdollar>>
           t == tail \o rest
           w == Joined(front, p, t)
<1>1. c.init_alloc \in Counts /\ c.is_creator \in Word /\ c.eperdollar \in Word
  BY DEF Configurations
<1>2. /\ front \in Seq(Word)
      /\ Len(front) = IF c.instructions_filename = {} THEN 1 ELSE 2
      /\ front[1] = named
      /\ c.instructions_filename # {} => c.instructions_filename = {front[2]}
  <2>1. CASE c.instructions_filename = {}
    <3>1. FALSE \in Word
      OBVIOUS
    <3>2. <<FALSE>> \in Seq(Word) /\ Len(<<FALSE>>) = 1 /\ <<FALSE>>[1] = FALSE
      BY <3>1, OneWord, Zenon
    <3>3. front = <<FALSE>> /\ named = FALSE
      BY <2>1, Zenon
    <3>4. Len(front) = 1 /\ front[1] = named
      BY <3>2, <3>3, Zenon
    <3>5. front \in Seq(Word)
      BY <3>2, <3>3, Zenon
    <3> QED BY <2>1, <3>4, <3>5
  <2>2. CASE c.instructions_filename # {}
    <3>1. PICK l \in Word : c.instructions_filename = {l}
      BY <2>2 DEF Configurations
    <3>2. TheOnly(c.instructions_filename) = l
      BY <3>1 DEF TheOnly
    <3>3. TRUE \in Word
      OBVIOUS
    <3>4. /\ <<TRUE, l>> \in Seq(Word) /\ Len(<<TRUE, l>>) = 2
          /\ <<TRUE, l>>[1] = TRUE /\ <<TRUE, l>>[2] = l
      BY <3>3, TwoWords, Zenon
    <3>5. front = <<TRUE, l>> /\ named = TRUE
      BY <2>2, <3>2, Zenon
    <3>6. /\ Len(front) = 2 /\ front[1] = named /\ front[2] = l
          /\ front \in Seq(Word)
      BY <3>4, <3>5, Zenon
    <3> QED BY <2>2, <3>1, <3>6
  <2> QED BY <2>1, <2>2
<1>3. /\ p \in Seq(Word) /\ Len(p) = 9 /\ p[1] = 4
  BY <1>1, PortfolioWords
<1>4. tail \in Seq(Word) /\ Len(tail) = 2 /\ tail[1] = c.is_creator
      /\ tail[2] = c.eperdollar
  BY <1>1
<1>5. t \in Seq(Word) /\ t[1] = c.is_creator /\ t[2] = c.eperdollar
  <2>1. t \in Seq(Word) /\ \A k \in 1..2 : t[k] = tail[k]
    <3> HIDE DEF tail
    <3>1. tail \o rest \in Seq(Word) /\ Joins(tail \o rest, tail, rest)
      BY <1>4, JoinedWords
    <3> QED BY <1>4, <3>1 DEF Joins
  <2> QED BY <1>4, <2>1
<1>6. ReadPortfolio(p \o t) = Wrapped(c.init_alloc)
  BY <1>1, <1>5, PortfolioIsRead
<1>7. WriteSubjectConfiguration(c) = (front \o p) \o tail
  BY Zenon DEF WriteSubjectConfiguration
<1> HIDE DEF front, p, tail, named
<1>8. front \o p \in Seq(Word) /\ (front \o p) \o tail \in Seq(Word)
  BY <1>2, <1>3, <1>4, ConcatProperties
<1>9. ((front \o p) \o tail) \o rest = w
  <2>1. Regrouped(front \o p, tail, rest)
    BY <1>4, <1>8, AnyGrouping
  <2> QED BY <2>1, Zenon DEF Regrouped, Joined, t
<1> HIDE DEF t
<1>10. Parted(w, front, p, t)
  BY <1>2, <1>3, <1>5, SecondPart
<1>11. w[1] = named /\ (c.instructions_filename # {} => w[2] = front[2])
  BY <1>2, <1>10 DEF Parted
<1>12. From(w, IF w[1] THEN 3 ELSE 2) = p \o t
  <2>1. CASE c.instructions_filename = {}
    <3>1. From(w, 2) = p \o t
      BY <1>2, <1>10, <2>1 DEF Parted
    <3>2. w[1] = FALSE
      BY <1>11, <2>1, Zenon DEF named
    <3> QED BY <3>1, <3>2
  <2>2. CASE c.instructions_filename # {}
    <3>1. From(w, 3) = p \o t
      BY <1>2, <1>10, <2>2, SMTT(30) DEF Parted
    <3>2. w[1] = TRUE
      BY <1>11, <2>2, Zenon DEF named
    <3> QED BY <3>1, <3>2
  <2> QED BY <2>1, <2>2
<1>13. /\ (p \o t)[1] = 4
       /\ (p \o t)[10] = c.is_creator /\ (p \o t)[11] = c.eperdollar
  <2>1. Joins(p \o t, p, t)
    BY <1>3, <1>5, JoinedWords
  <2>2. 1 \in 1..Len(p) /\ 1 \in 1..Len(t) /\ 2 \in 1..Len(t)
    <3>1. t = tail \o rest /\ Len(t) = Len(tail) + Len(rest) /\ Len(rest) \in Nat
      BY <1>4, ConcatProperties, LenProperties DEF t
    <3> QED BY <1>3, <1>4, <3>1
  <2>3. PICK r : r = p \o t
    OBVIOUS
  <2>4. r[1] = p[1] /\ r[Len(p) + 1] = t[1] /\ r[Len(p) + 2] = t[2]
    BY <2>1, <2>2, <2>3 DEF Joins
  <2>5. Len(p) + 1 = 10 /\ Len(p) + 2 = 11
    BY <1>3
  <2>6. r[1] = 4 /\ r[10] = c.is_creator /\ r[11] = c.eperdollar
    BY <1>3, <1>5, <2>4, <2>5
  <2> QED BY <2>3, <2>6
<1>14. (IF w[1] THEN {ReadLine(w[2])} ELSE {})
         = {ReadLine(l) : l \in c.instructions_filename}
  <2>1. CASE c.instructions_filename = {}
    <3>1. w[1] = FALSE
      BY <1>11, <2>1, Zenon DEF named
    <3> QED BY <2>1, <3>1
  <2>2. CASE c.instructions_filename # {}
    <3>1. w[1] = TRUE
      BY <1>11, <2>2, Zenon DEF named
    <3>2. c.instructions_filename = {w[2]}
      BY <1>2, <1>11, <2>2
    <3> QED BY <3>1, <3>2
  <2> QED BY <2>1, <2>2
<1> HIDE DEF w
<1>15. PICK r : r = p \o t
  OBVIOUS
<1>16. ReadSubjectConfiguration(w)
         = [instructions_filename |-> IF w[1] THEN {ReadLine(w[2])} ELSE {},
            init_alloc |-> ReadPortfolio(r),
            is_creator |-> r[10], eperdollar |-> r[11]]
  <2>1. r[1] = 4 /\ From(w, IF w[1] THEN 3 ELSE 2) = r
    BY <1>12, <1>13, <1>15
  <2>2. (2 * r[1] + 1) + 1 = 10 /\ (2 * r[1] + 1) + 2 = 11
    BY <2>1
  <2> QED BY <2>1, <2>2, Zenon DEF ReadSubjectConfiguration
<1>17. ReadSubjectConfiguration(w) = ConfigurationRead(c)
  BY <1>6, <1>13, <1>14, <1>15, <1>16 DEF ConfigurationRead
<1> QED BY <1>7, <1>8, <1>9, <1>17

\* The answer to a loaded configuration is read back, its error or all of its
\* warnings (configuration_reader.cc:235-286).
THEOREM ConfigResultReadBack ==
  ASSUME NEW Word, Int \subseteq Word, BOOLEAN \subseteq Word,
         NEW error, error = {} \/ \E k \in DOMAIN ConfigError : error = {ConfigError[k]},
         NEW warnings \in Seq({ConfigWarning[k] : k \in DOMAIN ConfigWarning}),
         NEW rest \in Seq(Word),
         NEW res, res = [error |-> error, warnings |-> warnings]
  PROVE  ReadConfigResult(WriteConfigResult(res) \o rest) = res
<1> DEFINE n == Len(warnings)
           codes == [i \in 1..n |-> Code(ConfigWarning, warnings[i])]
           front == IF error = {} THEN <<FALSE, n>>
                    ELSE <<TRUE, Code(ConfigError, TheOnly(error)), n>>
           w == WriteConfigResult(res) \o rest
           last == IF error = {} THEN 2 ELSE 3
<1>1. /\ ConfigError \in Seq({ConfigError[k] : k \in DOMAIN ConfigError})
      /\ ConfigWarning \in Seq({ConfigWarning[k] : k \in DOMAIN ConfigWarning})
  BY DEF ConfigError, ConfigWarning
<1>2. ASSUME NEW i \in 1..n
      PROVE  /\ Code(ConfigWarning, warnings[i]) \in Nat
             /\ Enumerator(ConfigWarning, Code(ConfigWarning, warnings[i])) = warnings[i]
  <2>1. PICK k \in DOMAIN ConfigWarning : warnings[i] = ConfigWarning[k]
    OBVIOUS
  <2> QED BY <1>1, <2>1, EnumeratorReadBack
<1>3. ASSUME error # {}
      PROVE  /\ Code(ConfigError, TheOnly(error)) \in Nat
             /\ error = {Enumerator(ConfigError, Code(ConfigError, TheOnly(error)))}
  <2>1. PICK k \in DOMAIN ConfigError : error = {ConfigError[k]}
    BY <1>3
  <2>2. TheOnly(error) = ConfigError[k]
    BY <2>1 DEF TheOnly
  <2> QED BY <1>1, <2>1, <2>2, EnumeratorReadBack
<1>4. n \in Nat /\ codes \in Seq(Word) /\ Len(codes) = n
      /\ \A i \in 1..n : codes[i] = Code(ConfigWarning, warnings[i])
  <2>1. n \in Nat OBVIOUS
  <2> HIDE DEF n
  <2> QED BY <1>2, <2>1
<1>5. /\ front \in Seq(Word) /\ Len(front) = last
      /\ front[1] = (error # {}) /\ front[last] = n
      /\ error # {} => front[2] = Code(ConfigError, TheOnly(error))
  <2> HIDE DEF n
  <2>1. CASE error = {}
    <3>1. n \in Word /\ FALSE \in Word
      <4>1. n \in Int BY <1>4
      <4>2. FALSE \in BOOLEAN OBVIOUS
      <4> QED BY <4>1, <4>2, Zenon
    <3>2. front = <<FALSE, n>>
      BY <2>1
    <3>3. front \in Seq(Word) /\ Len(front) = 2 /\ front[1] = FALSE /\ front[2] = n
      BY <3>1, <3>2, TwoWords, Zenon
    <3> HIDE DEF front
    <3> QED BY <2>1, <3>3
  <2>2. CASE error # {}
    <3> DEFINE c == Code(ConfigError, TheOnly(error))
    <3>1. c \in Nat BY <1>3, <2>2
    <3> HIDE DEF c
    <3>2. front = <<TRUE, c, n>>
      BY <2>2 DEF c
    <3>3. c \in Word /\ n \in Word /\ TRUE \in Word
      <4>1. c \in Int /\ n \in Int BY <1>4, <3>1
      <4>2. TRUE \in BOOLEAN OBVIOUS
      <4> QED BY <4>1, <4>2, Zenon
    <3>4. /\ front \in Seq(Word) /\ Len(front) = 3
          /\ front[1] = TRUE /\ front[2] = c /\ front[3] = n
      BY <3>2, <3>3, ThreeWords, Zenon
    <3> HIDE DEF front
    <3> QED BY <2>2, <3>4 DEF c
  <2> QED BY <2>1, <2>2
<1>6. w = (front \o codes) \o rest
  BY DEF WriteConfigResult
<1> HIDE DEF codes, front, w, n
<1>7. last \in {2, 3} /\ (last = 3 <=> error # {})
  OBVIOUS
<1> HIDE DEF last
<1>8. /\ \A i \in 1..last : w[i] = front[i]
      /\ \A i \in 1..n : w[last + i] = codes[i]
  <2>1. /\ front \o codes \in Seq(Word)
        /\ Len(front \o codes) = last + n
        /\ \A i \in 1..last : (front \o codes)[i] = front[i]
        /\ \A i \in 1..n : (front \o codes)[last + i] = codes[i]
    BY <1>4, <1>5, <1>7
  <2>2. PICK all : all = front \o codes
    OBVIOUS
  <2>3. \A i \in 1..(last + n) : (all \o rest)[i] = all[i]
    BY <2>1, <2>2
  <2> QED BY <1>4, <1>6, <1>7, <2>1, <2>2, <2>3
<1>9. /\ w[1] = (error # {}) /\ w[last] = n
      /\ error # {} => w[2] = Code(ConfigError, TheOnly(error))
  BY <1>5, <1>7, <1>8
<1>10. ReadConfigResult(w) =
         [error    |-> IF error = {} THEN {}
                       ELSE {Enumerator(ConfigError, w[2])},
          warnings |-> [i \in 1..n |-> Enumerator(ConfigWarning, w[last + i])]]
  BY <1>7, <1>9 DEF ReadConfigResult
<1>11. \A i \in 1..n : Enumerator(ConfigWarning, w[last + i]) = warnings[i]
  BY <1>2, <1>4, <1>8
<1>12. warnings = [i \in 1..n |-> warnings[i]]
  BY DEF n
<1> QED BY <1>3, <1>9, <1>10, <1>11, <1>12 DEF w

-----------------------------------------------------------------------------
(* What is not read back as it was                                         *)

Lines == [text : Nat, blanks : Nat]

\* A subject is read back but for its name, which has one blank more before it
\* than the name that was written: >> skips no blanks ahead of getline, so a
\* name grows with every message it is handed on by (src/src/subject.cc:12-22).
THEOREM SubjectReadBack ==
  ASSUME NEW Word, Lines \subseteq Word,
         NEW subject \in [id : Word, name : Lines, student_id : Word, payoff_cents : Word],
         NEW rest \in Seq(Word)
  PROVE  LET read == ReadSubject(WriteSubject(subject) \o rest)
         IN /\ read = [subject EXCEPT !.name = ReadLine(@)]
            /\ read.name.text = subject.name.text
            /\ read.name.blanks = subject.name.blanks + 1
<1> DEFINE w == WriteSubject(subject)
<1>1. w \in Seq(Word) /\ Len(w) = 4
  BY DEF WriteSubject
<1>2. /\ (w \o rest)[1] = subject.id /\ (w \o rest)[2] = subject.name
      /\ (w \o rest)[3] = subject.student_id /\ (w \o rest)[4] = subject.payoff_cents
  BY <1>1 DEF WriteSubject
<1>3. ReadSubject(w \o rest) =
        [id |-> subject.id, name |-> ReadLine(subject.name),
         student_id |-> subject.student_id, payoff_cents |-> subject.payoff_cents]
  BY <1>2 DEF ReadSubject
<1>4. subject.name \in Lines
  OBVIOUS
<1>5. ReadLine(subject.name) = [text |-> subject.name.text, blanks |-> subject.name.blanks + 1]
  BY <1>4 DEF ReadLine, Lines
<1> QED BY <1>3, <1>5

=============================================================================
