--------------------------- MODULE TradingProofs ---------------------------
(***************************************************************************)
(* Theorems about Trading, for any subjects, configuration and prices.     *)
(***************************************************************************)
EXTENDS Trading, FoldProofs

-----------------------------------------------------------------------------
(* What the standing offer is, and what a retraction leaves                *)

LEMMA StandingFact ==
  ASSUME NEW side, NEW standing \in StandingOffer(side)
  PROVE  \/ side = {} /\ standing = {}
         \/ \E best \in side :
              standing = {best} /\ \A x \in side : AtLeast(best, x)
BY DEF StandingOffer

LEMMA RetractFact ==
  ASSUME NEW side, NEW ids
  PROVE  /\ Retract(side, ids) \subseteq side
         /\ \A x \in Retract(side, ids) : x.id \notin ids
         /\ ids = {} => Retract(side, ids) = side
BY DEF Retract

LEMMA SubsetFinite ==
  ASSUME NEW S, IsFiniteSet(S), NEW T, T \subseteq S
  PROVE  IsFiniteSet(T) /\ Cardinality(T) <= Cardinality(S)
BY FS_Subset

-----------------------------------------------------------------------------
(* The two ways an accepted offer can change the book                      *)

\* The offer stays in the book: nothing of the other side meets its price.
Rests(o) ==
  /\ \A x \in OtherSide(o) : ~Crosses(o, x)
  /\ bids' \subseteq bids \cup (IF IsAsk(o) THEN {} ELSE {o})
  /\ asks' \subseteq asks \cup (IF IsAsk(o) THEN {o} ELSE {})
  /\ folio' = folio
  /\ result'.offer = {o} /\ result'.trade = {}

TradeWith(o, r) == IF IsAsk(o) THEN Trade(r, o) ELSE Trade(o, r)

\* The offer trades with r, the best of the other side, and neither remains.
Fills(o, r) ==
  /\ r \in OtherSide(o)
  /\ r.player_id # o.player_id
  /\ Crosses(o, r)
  /\ \A x \in OtherSide(o) : AtLeast(r, x)
  /\ bids' \subseteq bids \ {r}
  /\ asks' \subseteq asks \ {r}
  /\ folio' = Settle(folio, TradeWith(o, r))
  /\ result'.offer = {o} /\ result'.trade = {TradeWith(o, r)}

\* With replace_offer_rule the subject's earlier offers of that side are gone.
Replaces(o) ==
  ReplaceOfferRule =>
    \A x \in IF IsAsk(o) THEN asks' ELSE bids' :
      x.player_id = o.player_id => x = o

\* PopTrade finds the incoming offer itself or no trade at all, because what
\* was in the book before did not cross.
LEMMA AcceptCases ==
  ASSUME BookInvariant,
         NEW o \in Offer, o.id = id,
         NEW standing, NEW opposite \in StandingOffer(OtherSide(o)),
         Validity(o, standing, opposite) = "Accepted",
         Accept(o, opposite)
  PROVE  /\ Rests(o) \/ \E r \in OtherSide(o) : Fills(o, r)
         /\ Replaces(o)
<1> DEFINE same == Retract(SameSide(o), Replaced(o)) \cup {o}
<1> USE DEF BookInvariant
<1>1. PICK mine \in StandingOffer(same) :
        LET trade == IF IsAsk(o) THEN PeekPotentialTrade(opposite, mine)
                                 ELSE PeekPotentialTrade(mine, opposite)
        IN /\ bids' = Retract(Retract(bids, Replaced(o)) \cup
                                (IF IsAsk(o) THEN {} ELSE {o}),
                              {t.bid_id : t \in trade})
           /\ asks' = Retract(Retract(asks, Replaced(o)) \cup
                                (IF IsAsk(o) THEN {o} ELSE {}),
                              {t.ask_id : t \in trade})
           /\ IF trade = {} THEN folio' = folio
              ELSE \E t \in trade : folio' = Settle(folio, t)
           /\ result' = Reporting("Accepted", {o}, trade, Replaced(o))
  BY DEF Accept
<1> DEFINE trade == IF IsAsk(o) THEN PeekPotentialTrade(opposite, mine)
                                ELSE PeekPotentialTrade(mine, opposite)
<1>2. /\ bids' \subseteq bids \cup (IF IsAsk(o) THEN {} ELSE {o})
      /\ asks' \subseteq asks \cup (IF IsAsk(o) THEN {o} ELSE {})
  BY <1>1 DEF Retract
<1>3. Replaces(o)
  BY <1>1 DEF Replaces, Replaced, Retract, IdsOf, OffersOf, SameSide
<1>4. PICK m \in same : mine = {m} /\ \A x \in same : AtLeast(m, x)
  BY StandingFact
<1>5. m \in SameSide(o) \cup {o}
  BY RetractFact
<1>6. CASE OtherSide(o) = {}
  <2>1. opposite = {}
    BY <1>6, StandingFact
  <2>2. trade = {}
    BY <2>1 DEF PeekPotentialTrade
  <2> QED BY <1>1, <1>2, <1>3, <1>6, <2>2 DEF Rests, Reporting
<1>7. CASE OtherSide(o) # {}
  <2>1. PICK r \in OtherSide(o) :
          opposite = {r} /\ \A x \in OtherSide(o) : AtLeast(r, x)
    BY <1>7, StandingFact
  <2>2. CASE Crosses(o, r)
    <3>1. m = o
      <4>1. AtLeast(m, o)
        BY <1>4
      <4>2. m # o => Crosses(m, r) /\ m \in SameSide(o)
        BY <1>5, <2>2, <4>1 DEF AtLeast, Crosses, CanTrade, IsAsk, SameSide,
          OtherSide, BookIsKeyedById, TypeOK, Offer
      <4> QED BY <4>2 DEF Uncrossed, Crosses, IsAsk, SameSide, OtherSide,
                  BookIsKeyedById, TypeOK, Offer
    <3>2. trade = {TradeWith(o, r)}
      BY <1>4, <2>1, <2>2, <3>1 DEF TradeWith, PeekPotentialTrade, Crosses
    <3>3. bids' \subseteq bids \ {r} /\ asks' \subseteq asks \ {r}
      <4>1. /\ {t.bid_id : t \in trade} = IF IsAsk(o) THEN {r.id} ELSE {o.id}
            /\ {t.ask_id : t \in trade} = IF IsAsk(o) THEN {o.id} ELSE {r.id}
        <5>1. /\ {t.bid_id : t \in trade} = {TradeWith(o, r).bid_id}
              /\ {t.ask_id : t \in trade} = {TradeWith(o, r).ask_id}
          BY <3>2
        <5> QED BY <5>1 DEF TradeWith, Trade
      <4>2. r \in OtherSide(o) /\ r \notin SameSide(o)
        BY DEF IsAsk, SameSide, OtherSide, BookIsKeyedById, TypeOK, Offer
      <4>3. CASE IsAsk(o)
        BY <1>1, <4>1, <4>2, <4>3 DEF Retract, SameSide, OtherSide
      <4>4. CASE ~IsAsk(o)
        BY <1>1, <4>1, <4>2, <4>4 DEF Retract, SameSide, OtherSide
      <4> QED BY <4>3, <4>4
    <3>4. r.player_id # o.player_id
      BY <2>1, <2>2 DEF Validity
    <3> QED BY <1>1, <1>3, <2>1, <2>2, <3>2, <3>3, <3>4 DEF Fills, Reporting
  <2>3. CASE ~Crosses(o, r)
    <3>1. trade = {}
      <4>1. m \in SameSide(o) => ~Crosses(m, r)
        BY DEF Uncrossed, Crosses, IsAsk, SameSide, OtherSide,
          BookIsKeyedById, TypeOK, Offer
      <4>2. ~Crosses(m, r) /\ (IsAsk(m) <=> IsAsk(o))
        BY <1>5, <2>3, <4>1 DEF IsAsk, SameSide, BookIsKeyedById, TypeOK, Offer
      <4> QED BY <1>4, <2>1, <4>2 DEF PeekPotentialTrade, Crosses
    <3>2. \A x \in OtherSide(o) : ~Crosses(o, x)
      BY <2>1, <2>3 DEF AtLeast, Crosses, CanTrade, IsAsk, OtherSide, TypeOK,
        Offer
    <3> QED BY <1>1, <1>2, <1>3, <3>1, <3>2 DEF Rests, Reporting
  <2> QED BY <2>2, <2>3
<1> QED BY <1>6, <1>7

-----------------------------------------------------------------------------
(* Types of what an accepted offer produces                                *)

LEMMA TradeType ==
  ASSUME NEW b \in Offer, NEW a \in Offer
  PROVE  Trade(b, a) \in TradeRecord
BY DEF Trade, TradePrice, TradeRecord, Offer

LEMMA PeekType ==
  ASSUME NEW b \in SUBSET Offer, NEW a \in SUBSET Offer
  PROVE  PeekPotentialTrade(b, a) \in SUBSET TradeRecord
BY TradeType DEF PeekPotentialTrade

LEMMA SettleType ==
  ASSUME NEW port \in [Subjects -> Portfolio], NEW t \in TradeRecord
  PROVE  Settle(port, t) \in [Subjects -> Portfolio]
BY SMTT(30) DEF Settle, Portfolio, TradeRecord

LEMMA SettleShares ==
  ASSUME NEW port \in [Subjects -> Portfolio], NEW t \in TradeRecord,
         t.buyer # t.seller, NEW p \in Subjects
  PROVE  Settle(port, t)[p].Shares =
           IF p = t.buyer THEN port[p].Shares + 1
           ELSE IF p = t.seller THEN port[p].Shares - 1
           ELSE port[p].Shares
BY DEF Settle, Portfolio, TradeRecord

LEMMA ReportType ==
  ASSUME NEW v \in Verdicts, NEW offer \in SUBSET Offer,
         NEW trade \in SUBSET TradeRecord, NEW retracts \in SUBSET Nat
  PROVE  Reporting(v, offer, trade, retracts) \in Report
BY Zenon DEF Report, Reporting

LEMMA AcceptReport ==
  ASSUME TypeOK, NEW o \in Offer,
         NEW opposite \in StandingOffer(OtherSide(o)),
         Accept(o, opposite)
  PROVE  result' \in Report
<1> DEFINE same == Retract(SameSide(o), Replaced(o)) \cup {o}
           trade(m) == IF IsAsk(o) THEN PeekPotentialTrade(opposite, m)
                       ELSE PeekPotentialTrade(m, opposite)
<1>1. PICK mine \in StandingOffer(same) :
        result' = Reporting("Accepted", {o}, trade(mine), Replaced(o))
  BY DEF Accept
<1>2. SameSide(o) \subseteq Offer /\ OtherSide(o) \subseteq Offer
  BY DEF TypeOK, SameSide, OtherSide
<1>3. mine \in SUBSET Offer /\ opposite \in SUBSET Offer
  <2>1. same \subseteq Offer
    BY <1>2, RetractFact
  <2> QED BY <1>2, <2>1, StandingFact
<1>4. Replaced(o) \in SUBSET Nat
  BY <1>2 DEF Replaced, IdsOf, OffersOf, Offer
<1>5. trade(mine) \in SUBSET TradeRecord
  BY <1>3, PeekType
<1>6. {o} \in SUBSET Offer /\ "Accepted" \in Verdicts
  BY DEF Verdicts
<1>7. Reporting("Accepted", {o}, trade(mine), Replaced(o)) \in Report
  <2> HIDE DEF trade
  <2> QED BY <1>4, <1>5, <1>6, ReportType
<1> QED BY <1>1, <1>7

LEMMA TradeWithFact ==
  ASSUME NEW o \in Offer, NEW r \in Offer
  PROVE  /\ TradeWith(o, r) \in TradeRecord
         /\ TradeWith(o, r).buyer = IF IsAsk(o) THEN r.player_id ELSE o.player_id
         /\ TradeWith(o, r).seller = IF IsAsk(o) THEN o.player_id ELSE r.player_id
BY TradeType DEF TradeWith, Trade

-----------------------------------------------------------------------------
(* Type correctness                                                        *)

LEMMA MakeOfferType ==
  ASSUME TypeOK, NEW p \in Subjects, NEW price \in Int
  PROVE  MakeOffer(p, price) \in Offer
BY DEF MakeOffer, Offer, TypeOK

\* What happens to the offer, given the two standing offers
Answers(o, standing, opposite) ==
  \/ /\ Validity(o, standing, opposite) = "Accepted"
     /\ Accept(o, opposite)
  \/ /\ Validity(o, standing, opposite) # "Accepted"
     /\ result' = Reporting(Validity(o, standing, opposite), {o}, {}, {})
     /\ UNCHANGED <<bids, asks, folio>>

\* A request to bid or to ask is one offer, refused or accepted.
LEMMA TakeOfferCases ==
  ASSUME TypeOK, NEW p \in Subjects, TakeBid(p) \/ TakeAsk(p)
  PROVE  \E price \in Int :
           LET o == MakeOffer(p, price) IN
           /\ o \in Offer
           /\ id' = id + 1
           /\ UNCHANGED <<payoff, exp, callback, clock>>
           /\ \E standing \in StandingOffer(SameSide(o)),
                 opposite \in StandingOffer(OtherSide(o)) :
                Answers(o, standing, opposite)
<1>1. PICK price \in Int : TakeOffer(p, price)
  BY MarketAssumption DEF TakeBid, TakeAsk
<1>2. MakeOffer(p, price) \in Offer
  BY MakeOfferType
<1> QED BY <1>1, <1>2 DEF TakeOffer, ProcessOffer, Answers

LEMMA ValidityType ==
  ASSUME NEW o, NEW standing, NEW opposite
  PROVE  Validity(o, standing, opposite) \in Verdicts
BY DEF Validity, Verdicts

LEMMA JustReportingType ==
  ASSUME NEW v \in Verdicts
  PROVE  JustReporting(v) \in Report
BY ReportType DEF JustReporting

\* An accepted offer leaves a typed book, typed holdings and a typed report.
LEMMA AcceptType ==
  ASSUME TypeOK, NEW o \in Offer,
         NEW opposite \in StandingOffer(OtherSide(o)),
         Accept(o, opposite)
  PROVE  /\ bids' \subseteq Offer /\ IsFiniteSet(bids')
         /\ asks' \subseteq Offer /\ IsFiniteSet(asks')
         /\ folio' \in [Subjects -> Portfolio]
         /\ result' \in Report
<1> DEFINE same == Retract(SameSide(o), Replaced(o)) \cup {o}
<1>1. PICK mine \in StandingOffer(same) :
        LET trade == IF IsAsk(o) THEN PeekPotentialTrade(opposite, mine)
                                 ELSE PeekPotentialTrade(mine, opposite)
        IN /\ bids' = Retract(Retract(bids, Replaced(o)) \cup
                                (IF IsAsk(o) THEN {} ELSE {o}),
                              {t.bid_id : t \in trade})
           /\ asks' = Retract(Retract(asks, Replaced(o)) \cup
                                (IF IsAsk(o) THEN {o} ELSE {}),
                              {t.ask_id : t \in trade})
           /\ IF trade = {} THEN folio' = folio
              ELSE \E t \in trade : folio' = Settle(folio, t)
           /\ result' = Reporting("Accepted", {o}, trade, Replaced(o))
  BY DEF Accept
<1>2. bids' \subseteq bids \cup {o} /\ asks' \subseteq asks \cup {o}
  BY <1>1 DEF Retract
<1>3. IsFiniteSet(bids \cup {o}) /\ IsFiniteSet(asks \cup {o})
  BY FS_AddElement DEF TypeOK
<1>4. result' \in Report
  BY AcceptReport
<1>5. result'.trade \in SUBSET TradeRecord
  BY <1>4 DEF Report
<1>6. folio' \in [Subjects -> Portfolio]
  <2>1. folio' = folio \/ \E t \in result'.trade : folio' = Settle(folio, t)
    BY <1>1 DEF Reporting
  <2> QED BY <1>5, <2>1, SettleType DEF TypeOK
<1> QED BY <1>2, <1>3, <1>4, <1>6, SubsetFinite DEF TypeOK

LEMMA DividendType ==
  ASSUME NEW port \in [Subjects -> Portfolio], NEW d \in Nat
  PROVE  /\ PayDividend(port, d) \in [Subjects -> Portfolio]
         /\ \A p \in Subjects : PayDividend(port, d)[p].Shares = port[p].Shares
<1>1. ASSUME NEW p \in Subjects
      PROVE  /\ port[p].Shares * d \in Int
             /\ port[p].Derivatives * d \in Int
  BY DEF Portfolio
<1>2. ASSUME NEW p \in Subjects
      PROVE  /\ PayDividend(port, d)[p] \in Portfolio
             /\ PayDividend(port, d)[p].Shares = port[p].Shares
  <2> DEFINE income == port[p].Shares * d
             due == port[p].Derivatives * d
  <2>1. income \in Int /\ due \in Int
    BY <1>1
  <2>2. PayDividend(port, d)[p] =
          [Cash |-> port[p].Cash + income, Shares |-> port[p].Shares,
           Margin |-> port[p].Margin - due,
           Derivatives |-> port[p].Derivatives]
    BY DEF PayDividend
  <2> HIDE DEF income, due
  <2> QED BY <2>1, <2>2 DEF Portfolio
<1> QED BY <1>2 DEF PayDividend

LEMMA PayoffType ==
  ASSUME NEW port \in Portfolio
  PROVE  PayoffCents(port) \in Int
BY SubjectsAssumption DEF PayoffCents, Portfolio

LEMMA StateTypes ==
  ASSUME NEW e \in [round : 0..NRounds, status : Status, stage : Stage]
  PROVE  /\ \A s \in Stage :
              WithStage(e, s) \in [round : 0..NRounds, status : Status, stage : Stage]
         /\ \A s \in Status :
              WithStatus(e, s) \in [round : 0..NRounds, status : Status, stage : Stage]
         /\ e.round < NRounds =>
              /\ NextRound(e) \in [round : 0..NRounds, status : Status, stage : Stage]
              /\ NextRound(e).round \in 1..NRounds
<1>1. \A s \in Stage :
        WithStage(e, s) \in [round : 0..NRounds, status : Status, stage : Stage]
  BY DEF WithStage
<1>2. \A s \in Status :
        WithStatus(e, s) \in [round : 0..NRounds, status : Status, stage : Stage]
  BY DEF WithStatus
<1>3. ASSUME e.round < NRounds
      PROVE  /\ NextRound(e) \in [round : 0..NRounds, status : Status, stage : Stage]
             /\ NextRound(e).round \in 1..NRounds
  BY <1>3, RoundsAssumption DEF NextRound, Status, Stage
<1> QED BY <1>1, <1>2, <1>3

LEMMA InitTypeOK == Init => TypeOK
<1> SUFFICES ASSUME Init PROVE TypeOK
  OBVIOUS
<1>1. folio \in [Subjects -> Portfolio]
  BY DEF Init, EmptyPortfolio, Portfolio
<1>2. result \in Report
  BY JustReportingType DEF Init, Verdicts
<1>3. IsFiniteSet(bids) /\ IsFiniteSet(asks)
  BY FS_EmptySet DEF Init
<1>4. exp \in [round : 0..NRounds, status : Status, stage : Stage]
  BY RoundsAssumption DEF Init, InitialState, Status, Stage
<1> QED BY <1>1, <1>2, <1>3, <1>4 DEF Init, TypeOK, InitialState, IsMarketOpen

\* The part of TypeOK that relates the round, the stage and the timer
PhaseOK ==
  /\ exp \in [round : 0..NRounds, status : Status, stage : Stage]
  /\ callback \in {"None", "EndRound", "EndReview"}
  /\ callback # "None" => exp.round \in 1..NRounds
  /\ IsMarketOpen(exp) => callback = "EndRound"
  /\ exp.status = "NotStarted" =>
       /\ exp.round = 0
       /\ exp.stage \in {"PreExperiment", "Instructions"}
       /\ callback = "None"

LEMMA PhaseStep ==
  ASSUME PhaseOK, [Next]_vars
  PROVE  PhaseOK'
<1> USE DEF PhaseOK
<1>1. CASE UNCHANGED <<exp, callback>>
  BY <1>1
<1>2. CASE StartInstructions
  BY <1>2, StateTypes DEF StartInstructions, WithStage, Stage, Status, IsMarketOpen
<1>3. CASE StartExperiment
  BY <1>3, RoundsAssumption, StateTypes
    DEF StartExperiment, StartRound, WithStatus, NextRound, Stage, Status
<1>4. CASE EndRound
  BY <1>4, StateTypes DEF EndRound, WithStage, Stage, Status, IsMarketOpen
<1>5. CASE EndReview
  <2>1. CASE exp.round < NRounds
    <3>1. exp' = NextRound(exp) /\ callback' = "EndRound"
      BY <1>5, <2>1 DEF EndReview, StartRound
    <3>2. exp'.status = "Running"
      BY <3>1 DEF NextRound
    <3> QED BY <2>1, <3>1, <3>2, StateTypes
  <2>2. CASE ~(exp.round < NRounds)
    BY <1>5, <2>2, StateTypes
      DEF EndReview, StartPayouts, WithStage, Stage, Status, IsMarketOpen
  <2> QED BY <2>1, <2>2
<1>6. CASE EndEarly
  BY <1>6, StateTypes
    DEF EndEarly, StartPayouts, WithStage, Stage, Status, IsMarketOpen
<1>7. ASSUME NEW p \in Subjects,
             TakeBid(p) \/ TakeAsk(p) \/ RetractOffer(p) \/ CreateAsset(p)
      PROVE  UNCHANGED <<exp, callback>>
  BY <1>7 DEF TakeBid, TakeAsk, TakeOffer, RetractOffer, CreateAsset
<1> QED BY <1>1, <1>2, <1>3, <1>4, <1>5, <1>6, <1>7
    DEF Next, ClientRequest, TimerExpires, AdminCommand, Tick, vars

\* What TypeOK says besides PhaseOK
DataOK ==
  /\ bids \subseteq Offer /\ IsFiniteSet(bids)
  /\ asks \subseteq Offer /\ IsFiniteSet(asks)
  /\ folio \in [Subjects -> Portfolio]
  /\ payoff \in [Subjects -> Int]
  /\ clock \in Nat
  /\ id \in Nat
  /\ result \in Report

LEMMA TypeSplit ==
  /\ TypeOK <=> PhaseOK /\ DataOK
  /\ TypeOK' <=> PhaseOK' /\ DataOK'
BY DEF TypeOK, PhaseOK, DataOK

LEMMA RetractFinite ==
  ASSUME NEW side, side \subseteq Offer, IsFiniteSet(side), NEW ids
  PROVE  Retract(side, ids) \subseteq Offer /\ IsFiniteSet(Retract(side, ids))
BY RetractFact, SubsetFinite

LEMMA PayoutsType ==
  ASSUME TypeOK, StartPayouts
  PROVE  payoff' \in [Subjects -> Int] /\ result' \in Report
BY PayoffType, JustReportingType DEF StartPayouts, TypeOK, Verdicts

LEMMA TypeStep ==
  ASSUME TypeOK, [Next]_vars
  PROVE  TypeOK'
<1> SUFFICES DataOK'
  BY TypeSplit, PhaseStep
<1> USE DEF DataOK
<1>1. DataOK
  BY TypeSplit
<1>2. CASE UNCHANGED vars
  BY <1>1, <1>2 DEF vars
<1>3. ASSUME NEW p \in Subjects, TakeBid(p) \/ TakeAsk(p) PROVE DataOK'
  <2>1. PICK price \in Int :
          LET o == MakeOffer(p, price) IN
          /\ o \in Offer
          /\ id' = id + 1
          /\ UNCHANGED <<payoff, exp, callback, clock>>
          /\ \E standing \in StandingOffer(SameSide(o)),
                opposite \in StandingOffer(OtherSide(o)) :
               Answers(o, standing, opposite)
    BY <1>3, TakeOfferCases
  <2> DEFINE o == MakeOffer(p, price)
  <2>2. ASSUME NEW opposite \in StandingOffer(OtherSide(o)), Accept(o, opposite)
        PROVE  DataOK'
    <3> HIDE DEF o
    <3> QED BY <1>1, <2>1, <2>2, AcceptType DEF o
  <2>3. ASSUME NEW v \in Verdicts,
               result' = Reporting(v, {o}, {}, {}),
               UNCHANGED <<bids, asks, folio>>
        PROVE  DataOK'
    <3>1. result' \in Report
      BY <2>1, <2>3, ReportType
    <3> QED BY <1>1, <2>1, <2>3, <3>1
  <2> QED BY <2>1, <2>2, <2>3, ValidityType DEF Answers
<1>4. ASSUME NEW p \in Subjects, RetractOffer(p) PROVE DataOK'
  <2>1. PICK offer_id \in 0..id :
          LET validity == RetractValidity(p, offer_id)
              gone == IF validity = "RetractAccepted" THEN {offer_id} ELSE {}
          IN /\ bids' = Retract(bids, gone)
             /\ asks' = Retract(asks, gone)
             /\ result' = Reporting(validity, {}, {}, gone)
             /\ UNCHANGED <<folio, payoff, exp, callback, clock, id>>
    BY <1>4 DEF RetractOffer
  <2>2. RetractValidity(p, offer_id) \in Verdicts
    BY DEF RetractValidity, Verdicts
  <2>3. result' \in Report
    BY <1>1, <2>1, <2>2, ReportType
  <2> QED BY <1>1, <2>1, <2>3, RetractFinite
<1>5. ASSUME NEW p \in Subjects, CreateAsset(p) PROVE DataOK'
  <2>1. CreateValidity(p) \in Verdicts
    BY DEF CreateValidity, Verdicts
  <2>2. result' \in Report
    BY <1>5, <2>1, JustReportingType DEF CreateAsset
  <2>3. CreateValidity(p) = "CreateAccepted" => MarginReq[exp.round] \in Nat
    BY RoundsAssumption DEF CreateValidity, TypeOK
  <2>4. folio' \in [Subjects -> Portfolio]
    BY <1>1, <1>5, <2>3 DEF CreateAsset, Portfolio
  <2> QED BY <1>1, <1>5, <2>2, <2>4 DEF CreateAsset
<1>6. CASE StartInstructions
  BY <1>1, <1>6 DEF StartInstructions
<1>7. CASE StartExperiment
  <2>1. folio' \in [Subjects -> Portfolio]
    BY <1>7, SubjectsAssumption DEF StartExperiment, InitAlloc, Portfolio
  <2>2. result' \in Report
    BY <1>7, JustReportingType DEF StartExperiment, StartRound, Verdicts
  <2> QED BY <1>1, <1>7, <2>1, <2>2 DEF StartExperiment, StartRound
<1>8. CASE EndRound
  <2>1. Dividend[exp.round] \in Nat
    BY <1>8, RoundsAssumption DEF EndRound, TypeOK
  <2>2. folio' \in [Subjects -> Portfolio]
    BY <1>1, <1>8, <2>1, DividendType DEF EndRound
  <2>3. result' \in Report
    BY <1>8, JustReportingType DEF EndRound, Verdicts
  <2> QED BY <1>1, <1>8, <2>2, <2>3, FS_EmptySet DEF EndRound
<1>9. CASE EndReview
  <2>1. CASE exp.round < NRounds
    BY <1>1, <1>9, <2>1, JustReportingType DEF EndReview, StartRound, Verdicts
  <2>2. CASE ~(exp.round < NRounds)
    BY <1>1, <1>9, <2>2, PayoutsType DEF EndReview
  <2> QED BY <2>1, <2>2
<1>10. CASE EndEarly
  BY <1>1, <1>10, PayoutsType DEF EndEarly
<1>11. CASE Tick
  BY <1>1, <1>11 DEF Tick
<1> QED BY <1>2, <1>3, <1>4, <1>5, <1>6, <1>7, <1>8, <1>9, <1>10, <1>11
    DEF Next, ClientRequest, TimerExpires, AdminCommand

\* The state of the server is well-typed in every reachable state.
THEOREM TypeCorrect == Spec => []TypeOK
<1>1. TypeOK /\ [Next]_vars => TypeOK'
  BY TypeStep
<1> QED BY InitTypeOK, <1>1, PTL DEF Spec

-----------------------------------------------------------------------------
(* The book                                                                *)

\* Taking offers away, or adding shares, keeps the book in order.
LEMMA SmallerBook ==
  ASSUME BookInvariant, TypeOK',
         bids' \subseteq bids, asks' \subseteq asks,
         \A p \in Subjects : folio'[p].Shares >= folio[p].Shares,
         id' >= id,
         clock' >= clock \/ (bids' = {} /\ asks' = {}),
         callback' # "EndRound" => bids' = {} /\ asks' = {},
         callback' # "None" => exp'.stage # "PreExperiment"
  PROVE  BookInvariant'
<1> USE DEF BookInvariant
<1>1. Uncrossed' /\ BookIsKeyedById' /\ NewestIsBest' /\ OneOfferPerSide'
  BY DEF Uncrossed, BookIsKeyedById, NewestIsBest, OneOfferPerSide
<1>2. AsksCovered'
  <2> SUFFICES ASSUME NEW p \in Subjects
               PROVE  Cardinality(OffersOf(asks', p)) <= folio'[p].Shares
    BY DEF AsksCovered
  <2>1. OffersOf(asks', p) \subseteq OffersOf(asks, p)
    BY DEF OffersOf
  <2>2. IsFiniteSet(OffersOf(asks, p))
    BY SubsetFinite DEF OffersOf, TypeOK
  <2>3. IsFiniteSet(OffersOf(asks', p))
    BY <2>1, <2>2, SubsetFinite
  <2>4. Cardinality(OffersOf(asks', p)) <= Cardinality(OffersOf(asks, p))
    BY <2>1, <2>2, SubsetFinite
  <2>5. Cardinality(OffersOf(asks, p)) <= folio[p].Shares
    BY DEF AsksCovered
  <2>6. folio[p].Shares \in Int /\ folio'[p].Shares \in Int
    BY DEF TypeOK, Portfolio
  <2>7. folio'[p].Shares >= folio[p].Shares
    OBVIOUS
  <2>8. /\ Cardinality(OffersOf(asks, p)) \in Nat
        /\ Cardinality(OffersOf(asks', p)) \in Nat
    BY <2>2, <2>3, FS_CardinalityType
  <2> HIDE DEF BookInvariant
  <2> QED BY <2>4, <2>5, <2>6, <2>7, <2>8
<1>3. \A x \in bids' \cup asks' :
       /\ x.id < id' /\ x.time_elapsed <= clock'
       /\ x.price \in -PriceLimit..PriceLimit
  BY DEF TypeOK, Offer
<1> QED BY <1>1, <1>2, <1>3

\* A subject's number of asks after it added o, or after r was removed
LEMMA AsksAfter ==
  ASSUME IsFiniteSet(asks), NEW o, NEW p, NEW more, more \subseteq asks \cup {o}
  PROVE  /\ IsFiniteSet(OffersOf(asks, p)) /\ IsFiniteSet(OffersOf(more, p))
         /\ Cardinality(OffersOf(asks, p)) \in Nat
         /\ Cardinality(OffersOf(more, p)) \in Nat
         /\ Cardinality(OffersOf(more, p)) <= Cardinality(OffersOf(asks, p)) + 1
         /\ o.player_id # p =>
              Cardinality(OffersOf(more, p)) <= Cardinality(OffersOf(asks, p))
         /\ more \subseteq asks =>
              Cardinality(OffersOf(more, p)) <= Cardinality(OffersOf(asks, p))
         /\ o \in asks /\ o.player_id = p /\ o \notin more =>
              Cardinality(OffersOf(more, p)) <= Cardinality(OffersOf(asks, p)) - 1
<1> DEFINE A == OffersOf(asks, p)
           M == OffersOf(more, p)
<1>1. IsFiniteSet(A)
  BY SubsetFinite DEF OffersOf
<1>2. M \subseteq A \cup {o}
  BY DEF OffersOf
<1>3. /\ o.player_id # p => M \subseteq A
      /\ more \subseteq asks => M \subseteq A
      /\ o \in asks /\ o.player_id = p /\ o \notin more => o \in A /\ M \subseteq A \ {o}
  BY DEF OffersOf
<1> HIDE DEF A, M
<1>4. /\ IsFiniteSet(A \cup {o})
      /\ Cardinality(A \cup {o}) = IF o \in A THEN Cardinality(A)
                                    ELSE Cardinality(A) + 1
  BY <1>1, FS_AddElement
<1>5. IsFiniteSet(M) /\ Cardinality(M) <= Cardinality(A \cup {o})
  BY <1>2, <1>4, SubsetFinite
<1>6. Cardinality(A) \in Nat /\ Cardinality(M) \in Nat
  BY <1>1, <1>5, FS_CardinalityType
<1>7. M \subseteq A => Cardinality(M) <= Cardinality(A)
  BY <1>1, SubsetFinite
<1>8. o \in A /\ M \subseteq A \ {o} => Cardinality(M) <= Cardinality(A) - 1
  <2>1. /\ IsFiniteSet(A \ {o})
        /\ Cardinality(A \ {o}) = IF o \in A THEN Cardinality(A) - 1
                                   ELSE Cardinality(A)
    BY <1>1, FS_RemoveElement
  <2>2. M \subseteq A \ {o} => Cardinality(M) <= Cardinality(A \ {o})
    BY <2>1, SubsetFinite
  <2> QED BY <2>1, <2>2
<1>9. Cardinality(M) <= Cardinality(A) + 1
  BY <1>4, <1>5, <1>6
<1> QED BY <1>1, <1>3, <1>5, <1>6, <1>7, <1>8, <1>9 DEF A, M

LEMMA AcceptedFacts ==
  ASSUME TypeOK, NEW o \in Offer, NEW standing, NEW opposite,
         Validity(o, standing, opposite) = "Accepted"
  PROVE  /\ IsMarketOpen(exp)
         /\ callback = "EndRound"
         /\ Covered(o)
         /\ ImprovementRule => Improves(o, standing)
         /\ o.price \in -PriceLimit..PriceLimit
BY MarketAssumption DEF Validity, TypeOK, Offer

\* An offer that comes to rest keeps the book in order.
LEMMA RestsStep ==
  ASSUME BookInvariant, TypeOK',
         NEW o \in Offer, o.id = id, o.time_elapsed = clock,
         callback = "EndRound", callback' = callback,
         id' = id + 1, clock' = clock,
         NEW standing \in StandingOffer(SameSide(o)),
         Covered(o), ImprovementRule => Improves(o, standing),
         o.price \in -PriceLimit..PriceLimit, exp' = exp,
         Rests(o), Replaces(o)
  PROVE  BookInvariant'
<1> USE DEF BookInvariant
<1>1. /\ bids' \subseteq bids \cup (IF IsAsk(o) THEN {} ELSE {o})
      /\ asks' \subseteq asks \cup (IF IsAsk(o) THEN {o} ELSE {})
      /\ folio' = folio
      /\ \A x \in OtherSide(o) : ~Crosses(o, x)
  BY DEF Rests
<1>2. Uncrossed'
  BY <1>1 DEF Uncrossed, Crosses, OtherSide
<1>3. BookIsKeyedById'
  <2>1. \A x \in bids \cup asks : x.id # o.id
    BY DEF TypeOK, Offer
  <2>2. bids' \cup asks' \subseteq bids \cup asks \cup {o}
    BY <1>1
  <2>3. \A x, y \in bids' \cup asks' : x.id = y.id => x = y
    BY <2>1, <2>2 DEF BookIsKeyedById
  <2>4. (\A b \in bids' : b.price >= 0) /\ (\A a \in asks' : a.price < 0)
    BY <1>1 DEF BookIsKeyedById, IsAsk, Offer
  <2> QED BY <2>3, <2>4 DEF BookIsKeyedById
<1>4. AsksCovered'
  <2> SUFFICES ASSUME NEW p \in Subjects
               PROVE  Cardinality(OffersOf(asks', p)) <= folio[p].Shares
    BY <1>1 DEF AsksCovered
  <2>1. Cardinality(OffersOf(asks, p)) <= folio[p].Shares
    BY DEF AsksCovered
  <2>2. folio[p].Shares \in Int
    BY DEF TypeOK, Portfolio
  <2>3. asks' \subseteq asks \cup {o} /\ (asks' \subseteq asks \/ IsAsk(o))
    BY <1>1
  <2>4. IsAsk(o) => Cardinality(OffersOf(asks, o.player_id)) < folio[o.player_id].Shares
    <3>1. Cardinality(OffersOf(asks, o.player_id)) \in Nat
      BY <2>3, AsksAfter DEF TypeOK
    <3>2. folio[o.player_id].Shares \in Int
      BY DEF TypeOK, Portfolio, Offer
    <3> QED BY <3>1, <3>2 DEF Covered
  <2>5. /\ Cardinality(OffersOf(asks, p)) \in Nat
        /\ Cardinality(OffersOf(asks', p)) \in Nat
        /\ Cardinality(OffersOf(asks', p)) <= Cardinality(OffersOf(asks, p)) + 1
        /\ o.player_id # p =>
             Cardinality(OffersOf(asks', p)) <= Cardinality(OffersOf(asks, p))
        /\ asks' \subseteq asks =>
             Cardinality(OffersOf(asks', p)) <= Cardinality(OffersOf(asks, p))
    BY <2>3, AsksAfter DEF TypeOK
  <2>6. CASE o.player_id # p \/ asks' \subseteq asks
    BY <2>1, <2>2, <2>5, <2>6
  <2>7. CASE o.player_id = p /\ IsAsk(o)
    BY <2>2, <2>4, <2>5, <2>7
  <2> QED BY <2>3, <2>6, <2>7
<1>5. NewestIsBest'
  <2> SUFFICES ASSUME ImprovementRule,
                      NEW side \in {bids', asks'}, NEW x \in side, NEW y \in side,
                      x.id < y.id
               PROVE  x.price < y.price
    BY DEF NewestIsBest
  <2>1. side \subseteq bids \/ side \subseteq asks \/ side \subseteq SameSide(o) \cup {o}
    BY <1>1 DEF SameSide
  <2>2. CASE side \subseteq bids \/ side \subseteq asks
    BY <2>2 DEF NewestIsBest
  <2>3. CASE x \in SameSide(o) /\ y \in SameSide(o)
    BY <2>3 DEF NewestIsBest, SameSide
  <2>4. CASE x \in SameSide(o) /\ y = o
    <3>1. PICK best \in SameSide(o) : AtLeast(best, x) /\ ~AtLeast(best, o)
      BY <2>4, StandingFact DEF Improves
    <3> QED BY <2>4, <3>1 DEF AtLeast, SameSide, TypeOK, Offer
  <2>5. x # o
    <3>1. x \in bids \cup asks \cup {o} /\ y \in bids \cup asks \cup {o}
      BY <1>1
    <3> QED BY <3>1 DEF TypeOK, Offer
  <2> QED BY <2>1, <2>2, <2>3, <2>4, <2>5
<1>6. OneOfferPerSide'
  <2> SUFFICES ASSUME ReplaceOfferRule,
                      NEW side \in {bids', asks'}, NEW x \in side, NEW y \in side,
                      x.player_id = y.player_id
               PROVE  x = y
    BY DEF OneOfferPerSide
  <2>1. CASE side = (IF IsAsk(o) THEN asks' ELSE bids')
    BY <1>1, <2>1 DEF Replaces, OneOfferPerSide, SameSide
  <2>2. CASE side = (IF IsAsk(o) THEN bids' ELSE asks')
    BY <1>1, <2>2 DEF OneOfferPerSide
  <2> QED BY <2>1, <2>2
<1>7. \A x \in bids' \cup asks' :
       /\ x.id < id' /\ x.time_elapsed <= clock'
       /\ x.price \in -PriceLimit..PriceLimit
  BY <1>1 DEF TypeOK, Offer
<1>8. callback' # "EndRound" => bids' = {} /\ asks' = {}
  OBVIOUS
<1> QED BY <1>2, <1>3, <1>4, <1>5, <1>6, <1>7, <1>8

\* A trade takes an ask of the seller, or the offer it has just covered, away
\* together with the share.
LEMMA FillsStep ==
  ASSUME BookInvariant, TypeOK',
         NEW o \in Offer, NEW r \in OtherSide(o),
         callback = "EndRound", callback' = callback,
         id' = id + 1, clock' = clock,
         Covered(o), Fills(o, r), exp' = exp
  PROVE  BookInvariant'
<1> USE DEF BookInvariant
<1>1. bids' \subseteq bids \ {r} /\ asks' \subseteq asks \ {r}
  BY DEF Fills
<1>2. Uncrossed' /\ BookIsKeyedById' /\ NewestIsBest' /\ OneOfferPerSide'
  BY <1>1 DEF Uncrossed, BookIsKeyedById, NewestIsBest, OneOfferPerSide
<1>3. AsksCovered'
  <2> SUFFICES ASSUME NEW p \in Subjects
               PROVE  Cardinality(OffersOf(asks', p)) <= folio'[p].Shares
    BY DEF AsksCovered
  <2> DEFINE t == TradeWith(o, r)
  <2>1. r \in Offer /\ r.player_id # o.player_id
    BY DEF Fills, OtherSide, TypeOK
  <2>2. /\ t \in TradeRecord
        /\ t.buyer = IF IsAsk(o) THEN r.player_id ELSE o.player_id
        /\ t.seller = IF IsAsk(o) THEN o.player_id ELSE r.player_id
    BY <2>1, TradeWithFact
  <2> HIDE DEF t
  <2>3. folio'[p].Shares = IF p = t.buyer THEN folio[p].Shares + 1
                           ELSE IF p = t.seller THEN folio[p].Shares - 1
                           ELSE folio[p].Shares
    <3>1. folio' = Settle(folio, t)
      BY DEF Fills, t
    <3>2. t.buyer # t.seller
      BY <2>1, <2>2
    <3> QED BY <2>2, <3>1, <3>2, SettleShares DEF TypeOK
  <2>4. folio[p].Shares \in Int /\ Cardinality(OffersOf(asks, p)) <= folio[p].Shares
    BY DEF AsksCovered, TypeOK, Portfolio
  <2>5. /\ Cardinality(OffersOf(asks, p)) \in Nat
        /\ Cardinality(OffersOf(asks', p)) \in Nat
        /\ Cardinality(OffersOf(asks', p)) <= Cardinality(OffersOf(asks, p))
        /\ r \in asks /\ r.player_id = p =>
             Cardinality(OffersOf(asks', p)) <= Cardinality(OffersOf(asks, p)) - 1
    BY <1>1, AsksAfter DEF TypeOK
  <2>6. CASE p # t.seller
    BY <2>3, <2>4, <2>5, <2>6
  <2>7. CASE p = t.seller /\ IsAsk(o)
    <3>1. p = o.player_id /\ p # t.buyer
      BY <2>1, <2>2, <2>7
    <3>2. Cardinality(OffersOf(asks, p)) < folio[p].Shares
      BY <2>4, <2>5, <2>7, <3>1 DEF Covered
    <3> QED BY <2>3, <2>4, <2>5, <2>7, <3>1, <3>2
  <2>8. CASE p = t.seller /\ ~IsAsk(o)
    <3>1. p = r.player_id /\ p # t.buyer /\ r \in asks
      BY <2>1, <2>2, <2>8 DEF OtherSide
    <3> QED BY <2>3, <2>4, <2>5, <2>8, <3>1
  <2> QED BY <2>6, <2>7, <2>8
<1>4. \A x \in bids' \cup asks' :
       /\ x.id < id' /\ x.time_elapsed <= clock'
       /\ x.price \in -PriceLimit..PriceLimit
  BY <1>1 DEF TypeOK, Offer
<1> QED BY <1>2, <1>3, <1>4

LEMMA BookInit == Init => BookInvariant
<1> SUFFICES ASSUME Init PROVE BookInvariant
  OBVIOUS
<1>1. AsksCovered
  <2>1. \A p \in Subjects : OffersOf(asks, p) = {}
    BY DEF Init, OffersOf
  <2> QED BY <2>1, FS_EmptySet DEF Init, AsksCovered, EmptyPortfolio
<1> QED BY <1>1, InitTypeOK DEF Init, BookInvariant, Uncrossed, BookIsKeyedById,
  NewestIsBest, OneOfferPerSide

LEMMA BookStep ==
  ASSUME BookInvariant, [Next]_vars
  PROVE  BookInvariant'
<1>1. TypeOK /\ TypeOK'
  BY TypeStep DEF BookInvariant
<1>2. CASE UNCHANGED vars
  BY <1>1, <1>2, SmallerBook DEF vars, BookInvariant, TypeOK, Portfolio
<1>3. ASSUME NEW p \in Subjects, TakeBid(p) \/ TakeAsk(p) PROVE BookInvariant'
  <2>1. PICK price \in Int :
          LET o == MakeOffer(p, price) IN
          /\ o \in Offer
          /\ id' = id + 1
          /\ UNCHANGED <<payoff, exp, callback, clock>>
          /\ \E standing \in StandingOffer(SameSide(o)),
                opposite \in StandingOffer(OtherSide(o)) :
               Answers(o, standing, opposite)
    BY <1>1, <1>3, TakeOfferCases
  <2> DEFINE o == MakeOffer(p, price)
  <2>2. o \in Offer /\ o.id = id /\ o.time_elapsed = clock
    BY <2>1 DEF MakeOffer
  <2>3. ASSUME NEW standing \in StandingOffer(SameSide(o)),
               NEW opposite \in StandingOffer(OtherSide(o)),
               Validity(o, standing, opposite) = "Accepted",
               Accept(o, opposite)
        PROVE  BookInvariant'
    <3> HIDE DEF o
    <3>1. /\ callback = "EndRound"
          /\ Covered(o)
          /\ ImprovementRule => Improves(o, standing)
          /\ o.price \in -PriceLimit..PriceLimit
      BY <1>1, <2>2, <2>3, AcceptedFacts
    <3>2. /\ Rests(o) \/ \E r \in OtherSide(o) : Fills(o, r)
          /\ Replaces(o)
      BY <2>2, <2>3, AcceptCases
    <3>3. CASE Rests(o)
      BY <1>1, <2>1, <2>2, <3>1, <3>2, <3>3, RestsStep
    <3>4. ASSUME NEW r \in OtherSide(o), Fills(o, r) PROVE BookInvariant'
      BY <1>1, <2>1, <2>2, <3>1, <3>4, FillsStep
    <3> QED BY <3>2, <3>3, <3>4
  <2>4. CASE UNCHANGED <<bids, asks, folio>>
    BY <1>1, <2>1, <2>4, SmallerBook DEF BookInvariant, TypeOK, Portfolio
  <2> QED BY <2>1, <2>3, <2>4 DEF Answers
<1>4. ASSUME NEW p \in Subjects, RetractOffer(p) PROVE BookInvariant'
  <2>1. /\ bids' \subseteq bids /\ asks' \subseteq asks
        /\ UNCHANGED <<folio, exp, callback, clock, id>>
    BY <1>4, RetractFact DEF RetractOffer
  <2> QED BY <1>1, <2>1, SmallerBook DEF BookInvariant, TypeOK, Portfolio
<1>5. ASSUME NEW p \in Subjects, CreateAsset(p) PROVE BookInvariant'
  <2>1. \A q \in Subjects : folio'[q].Shares >= folio[q].Shares
    BY <1>1, <1>5 DEF CreateAsset, TypeOK, Portfolio
  <2>2. UNCHANGED <<bids, asks, exp, callback, clock, id>>
    BY <1>5 DEF CreateAsset
  <2> QED BY <1>1, <2>1, <2>2, SmallerBook, SMTT(30) DEF BookInvariant, TypeOK, Portfolio
<1>6. CASE StartInstructions
  BY <1>1, <1>6, SmallerBook DEF StartInstructions, BookInvariant, TypeOK, Portfolio
<1>7. CASE StartExperiment
  <2>1. bids = {} /\ asks = {} /\ bids' = {} /\ asks' = {}
    BY <1>1, <1>7 DEF StartExperiment, BookInvariant, TypeOK
  <2>2. AsksCovered'
    <3> SUFFICES ASSUME NEW q \in Subjects
                 PROVE  Cardinality(OffersOf(asks', q)) <= folio'[q].Shares
      BY DEF AsksCovered
    <3>1. Cardinality(OffersOf(asks', q)) = 0
      BY <2>1, FS_EmptySet DEF OffersOf
    <3>2. folio'[q].Shares = InitShares[q] /\ InitShares[q] \in Nat
      BY <1>7, SubjectsAssumption DEF StartExperiment, InitAlloc
    <3> QED BY <3>1, <3>2
  <2>3. exp'.stage = "Round"
    BY <1>7 DEF StartExperiment, StartRound, NextRound
  <2> QED BY <1>1, <2>1, <2>2, <2>3 DEF BookInvariant, Uncrossed, BookIsKeyedById,
            NewestIsBest, OneOfferPerSide
<1>8. CASE EndRound
  <2>1. Dividend[exp.round] \in Nat
    BY <1>1, <1>8, RoundsAssumption DEF EndRound, TypeOK
  <2>2. \A q \in Subjects : folio'[q].Shares = folio[q].Shares
    BY <1>1, <1>8, <2>1, DividendType DEF EndRound, TypeOK
  <2> QED BY <1>1, <1>8, <2>2, SmallerBook DEF EndRound, WithStage, BookInvariant, TypeOK, Portfolio
<1>9. CASE EndReview
  <2>1. bids = {} /\ asks = {}
    BY <1>9 DEF EndReview, BookInvariant
  <2> QED BY <1>1, <1>9, <2>1, SmallerBook
        DEF EndReview, StartRound, NextRound, StartPayouts, BookInvariant, TypeOK, Portfolio
<1>10. CASE EndEarly
  BY <1>1, <1>10, SmallerBook
    DEF EndEarly, StartPayouts, WithStage, BookInvariant, TypeOK, Portfolio
<1>11. CASE Tick
  BY <1>1, <1>11, SmallerBook DEF Tick, BookInvariant, TypeOK, Portfolio
<1> QED BY <1>2, <1>3, <1>4, <1>5, <1>6, <1>7, <1>8, <1>9, <1>10, <1>11
    DEF Next, ClientRequest, TimerExpires, AdminCommand

\* The book keeps its rules for any subjects, prices, rounds and combination
\* of the two rules: the invariant that the theorems below are parts of.
THEOREM BookAlways == Spec => []BookInvariant
<1>1. BookInvariant /\ [Next]_vars => BookInvariant'
  BY BookStep
<1> QED BY BookInit, <1>1, PTL DEF Spec

\* One trade for each offer is enough: the book never stays crossed.
THEOREM BookUncrossed == Spec => []Uncrossed
<1>1. BookInvariant => Uncrossed
  BY DEF BookInvariant
<1> QED BY BookAlways, <1>1, PTL

\* No id names two offers, so a retraction by id removes what was meant.
THEOREM BookKeyed == Spec => []BookIsKeyedById
<1>1. BookInvariant => BookIsKeyedById
  BY DEF BookInvariant
<1> QED BY BookAlways, <1>1, PTL

\* Nobody can sell a share it does not have, however the requests interleave
\* with creations, retractions, replacements and the end of the round.
THEOREM AsksAlwaysCovered == Spec => []AsksCovered
<1>1. BookInvariant => AsksCovered
  BY DEF BookInvariant
<1> QED BY BookAlways, <1>1, PTL

\* With improvement_rule the newest offer of a side is its best, also after
\* retractions and trades.
THEOREM NewestAlwaysBest == Spec => []NewestIsBest
<1>1. BookInvariant => NewestIsBest
  BY DEF BookInvariant
<1> QED BY BookAlways, <1>1, PTL

\* With replace_offer_rule nobody has two offers on a side.
THEOREM OneOfferEach == Spec => []OneOfferPerSide
<1>1. BookInvariant => OneOfferPerSide
  BY DEF BookInvariant
<1> QED BY BookAlways, <1>1, PTL

-----------------------------------------------------------------------------
(* What a step may never do                                                *)

\* A request to bid or to ask is refused, or rests in the book, or fills.
LEMMA OfferCases ==
  ASSUME BookInvariant, NEW p \in Subjects, TakeBid(p) \/ TakeAsk(p)
  PROVE  \E o \in Offer :
           /\ o.id = id /\ o.time_elapsed = clock
           /\ id' = id + 1
           /\ UNCHANGED <<payoff, exp, callback, clock>>
           /\ \/ result'.trade = {} /\ UNCHANGED <<bids, asks, folio>>
              \/ /\ IsMarketOpen(exp)
                 /\ Covered(o)
                 /\ o.price \in -PriceLimit..PriceLimit
                 /\ Rests(o) \/ \E r \in OtherSide(o) : Fills(o, r)
<1>1. TypeOK
  BY DEF BookInvariant
<1>2. PICK price \in Int :
        LET o == MakeOffer(p, price) IN
        /\ o \in Offer
        /\ id' = id + 1
        /\ UNCHANGED <<payoff, exp, callback, clock>>
        /\ \E standing \in StandingOffer(SameSide(o)),
              opposite \in StandingOffer(OtherSide(o)) :
             Answers(o, standing, opposite)
  BY <1>1, TakeOfferCases
<1> DEFINE o == MakeOffer(p, price)
<1>3. o \in Offer /\ o.id = id /\ o.time_elapsed = clock
  BY <1>2 DEF MakeOffer
<1> SUFFICES \/ result'.trade = {} /\ UNCHANGED <<bids, asks, folio>>
             \/ /\ IsMarketOpen(exp)
                /\ Covered(o)
                /\ o.price \in -PriceLimit..PriceLimit
                /\ Rests(o) \/ \E r \in OtherSide(o) : Fills(o, r)
  BY <1>2, <1>3
<1>4. PICK standing \in StandingOffer(SameSide(o)),
           opposite \in StandingOffer(OtherSide(o)) :
        Answers(o, standing, opposite)
  BY <1>2
<1> HIDE DEF o
<1>5. CASE Validity(o, standing, opposite) = "Accepted" /\ Accept(o, opposite)
  BY <1>1, <1>3, <1>5, AcceptCases, AcceptedFacts
<1>6. CASE /\ result' = Reporting(Validity(o, standing, opposite), {o}, {}, {})
           /\ UNCHANGED <<bids, asks, folio>>
  BY <1>6 DEF Reporting
<1> QED BY <1>4, <1>5, <1>6 DEF Answers

\* The price of a trade lies between what the two parties have asked for.
LEMMA TradePriceFact ==
  ASSUME NEW b \in Offer, NEW a \in Offer, CanTrade(b, a)
  PROVE  /\ -a.price <= TradePrice(b, a) /\ TradePrice(b, a) <= b.price
         /\ b.time_elapsed > a.time_elapsed => TradePrice(b, a) = -a.price
         /\ b.time_elapsed < a.time_elapsed => TradePrice(b, a) = b.price
BY DEF TradePrice, CanTrade, Offer

\* Every trade is with the best resting offer, between two subjects, at a
\* price that both accept, the resting offer's if it is the older one.
THEOREM TradesAreFair == Spec => FairTrade
<1>1. ASSUME BookInvariant, [Next]_vars PROVE [FairTradeStep]_vars
  <2> USE DEF BookInvariant
  <2>1. ASSUME NEW p \in Subjects, TakeBid(p) \/ TakeAsk(p)
        PROVE  FairTradeStep
    <3>1. PICK o \in Offer :
            /\ o.id = id /\ o.time_elapsed = clock
            /\ \/ result'.trade = {}
               \/ Rests(o)
               \/ \E r \in OtherSide(o) : Fills(o, r)
      BY <1>1, <2>1, OfferCases
    <3>2. CASE result'.trade = {} \/ Rests(o)
      BY <3>2 DEF FairTradeStep, Rests
    <3>3. ASSUME NEW r \in OtherSide(o), Fills(o, r)
          PROVE  FairTradeStep
      <4> DEFINE t == TradeWith(o, r)
                 resting == {x \in OtherSide(o) : x.id \in {t.bid_id, t.ask_id}}
      <4>1. r \in Offer /\ o.id \notin IdsOf(bids \cup asks)
        BY <1>1, <3>1, <3>3 DEF OtherSide, TypeOK, IdsOf, Offer
      <4>2. /\ t.bid_id = IF IsAsk(o) THEN r.id ELSE o.id
            /\ t.ask_id = IF IsAsk(o) THEN o.id ELSE r.id
        BY DEF TradeWith, Trade
      <4>3. resting = {r}
        BY <1>1, <3>3, <4>1, <4>2 DEF BookIsKeyedById, OtherSide, IdsOf
      <4>4. t.buyer # t.seller
        BY <3>3, <4>1, TradeWithFact DEF Fills
      <4>5. \A x \in OtherSide(o) : AtLeast(r, x)
        BY <3>3 DEF Fills
      <4>6. /\ IF IsAsk(o) THEN -o.price <= t.price /\ t.price <= r.price
                           ELSE -r.price <= t.price /\ t.price <= o.price
            /\ r.time_elapsed # o.time_elapsed =>
                 t.price = IF IsAsk(o) THEN r.price ELSE -r.price
        <5>1. Crosses(o, r)
          BY <3>3 DEF Fills
        <5>2. r.time_elapsed <= clock /\ o.time_elapsed = clock
          BY <1>1, <3>1, <3>3 DEF OtherSide
        <5> QED BY <4>1, <5>1, <5>2, TradePriceFact
              DEF Crosses, TradeWith, Trade, TypeOK, Offer
      <4>7. result'.offer = {o} /\ result'.trade = {t}
        BY <3>3 DEF Fills
      <4> HIDE DEF t
      <4> QED BY <3>1, <4>2, <4>3, <4>4, <4>5, <4>6, <4>7 DEF FairTradeStep
    <3> QED BY <3>1, <3>2, <3>3
  <2>2. CASE id' = id
    BY <2>2 DEF FairTradeStep
  <2>3. id' = id \/ \E p \in Subjects : TakeBid(p) \/ TakeAsk(p)
    BY <1>1 DEF Next, ClientRequest, RetractOffer, CreateAsset, TimerExpires,
      EndRound, EndReview, AdminCommand, StartInstructions, StartExperiment,
      EndEarly, Tick, vars
  <2> QED BY <2>1, <2>2, <2>3
<1> QED BY BookAlways, <1>1, PTL DEF Spec, FairTrade

\* A round opens with an empty book, and while the market is closed nothing
\* but the end of the round touches the book and the holdings.
THEOREM MarketClosedIsStill == Spec => ClosedMarketIsStill
<1>1. ASSUME BookInvariant, [Next]_vars PROVE [ClosedMarketStep]_vars
  <2>1. ASSUME NEW p \in Subjects, TakeBid(p) \/ TakeAsk(p)
        PROVE  ClosedMarketStep
    BY <1>1, <2>1, OfferCases DEF ClosedMarketStep
  <2>2. ASSUME NEW p \in Subjects, RetractOffer(p) PROVE ClosedMarketStep
    <3>1. exp' = exp /\ folio' = folio
      BY <2>2 DEF RetractOffer
    <3>2. ~IsMarketOpen(exp) => bids' = bids /\ asks' = asks
      BY <2>2, RetractFact DEF RetractOffer, RetractValidity
    <3> QED BY <3>1, <3>2 DEF ClosedMarketStep
  <2>3. ASSUME NEW p \in Subjects, CreateAsset(p) PROVE ClosedMarketStep
    BY <2>3 DEF CreateAsset, CreateValidity, ClosedMarketStep
  <2>4. CASE StartExperiment
    <3>1. bids' = {} /\ asks' = {} /\ callback = "None" /\ callback' = "EndRound"
      BY <1>1, <2>4 DEF StartExperiment, StartRound, BookInvariant, TypeOK
    <3> QED BY <3>1 DEF ClosedMarketStep
  <2>5. CASE EndRound
    BY <1>1, <2>5 DEF EndRound, WithStage, ClosedMarketStep, BookInvariant, TypeOK
  <2>6. CASE EndReview
    <3>1. bids' = {} /\ asks' = {} /\ UNCHANGED <<bids, asks, folio>>
      BY <1>1, <2>6 DEF EndReview, BookInvariant
    <3> QED BY <3>1 DEF ClosedMarketStep
  <2>7. CASE StartInstructions \/ EndEarly \/ Tick
    <3>1. exp'.round = exp.round /\ UNCHANGED <<bids, asks, folio>>
      BY <1>1, <2>7 DEF StartInstructions, EndEarly, StartPayouts, Tick,
        WithStage, BookInvariant, TypeOK
    <3> QED BY <3>1 DEF ClosedMarketStep
  <2> QED BY <1>1, <2>1, <2>2, <2>3, <2>4, <2>5, <2>6, <2>7
      DEF Next, ClientRequest, TimerExpires, AdminCommand
<1> QED BY BookAlways, <1>1, PTL DEF Spec, ClosedMarketIsStill

-----------------------------------------------------------------------------
(* The server implements the ledger                                        *)

\* Nobody sells to itself, and the seller has a share: its ask was covered.
LEMMA FillTransfers ==
  ASSUME BookInvariant, NEW o \in Offer, Covered(o),
         o.price \in -PriceLimit..PriceLimit, o.time_elapsed = clock,
         NEW r \in OtherSide(o), Fills(o, r),
         exp.status # "NotStarted", exp' = exp, callback' = callback
  PROVE  \E buyer, seller \in Subjects, price \in 0..PriceLimit :
           HoldingsLedger!Transfer(buyer, seller, price)
<1> USE DEF BookInvariant
<1> DEFINE t == TradeWith(o, r)
<1>1. r \in Offer /\ r.price \in -PriceLimit..PriceLimit /\ r.time_elapsed <= clock
  BY DEF OtherSide, TypeOK
<1>2. /\ t \in TradeRecord
      /\ t.buyer = IF IsAsk(o) THEN r.player_id ELSE o.player_id
      /\ t.seller = IF IsAsk(o) THEN o.player_id ELSE r.player_id
  BY <1>1, TradeWithFact
<1>3. t.buyer \in Subjects /\ t.seller \in Subjects /\ t.buyer # t.seller
  BY <1>1, <1>2 DEF Fills, TradeRecord
<1>4. t.price \in 0..PriceLimit
  BY <1>1, MarketAssumption DEF TradeWith, Trade, TradePrice, IsAsk,
    OtherSide, BookIsKeyedById, Offer
<1>5. folio[t.seller].Shares > 0
  <2>1. folio[t.seller].Shares \in Int
    BY <1>3 DEF TypeOK, Portfolio
  <2>2. Cardinality(OffersOf(asks, t.seller)) \in Nat
    BY <1>1, AsksAfter DEF TypeOK
  <2>3. CASE IsAsk(o)
    BY <1>2, <2>1, <2>2, <2>3 DEF Covered
  <2>4. CASE ~IsAsk(o)
    <3>1. r \in OffersOf(asks, t.seller)
      BY <1>2, <2>4 DEF OtherSide, OffersOf
    <3>2. IsFiniteSet(OffersOf(asks, t.seller))
      BY SubsetFinite DEF OffersOf, TypeOK
    <3>3. Cardinality(OffersOf(asks, t.seller)) # 0
      BY <3>1, <3>2, FS_EmptySet
    <3>4. Cardinality(OffersOf(asks, t.seller)) <= folio[t.seller].Shares
      BY <1>3 DEF AsksCovered
    <3> QED BY <2>1, <2>2, <3>3, <3>4
  <2> QED BY <2>3, <2>4
<1>6. folio' = [folio EXCEPT ![t.buyer].Shares  = @ + 1,
                             ![t.seller].Shares = @ - 1,
                             ![t.buyer].Cash    = @ - t.price,
                             ![t.seller].Cash   = @ + t.price]
  BY DEF Fills, Settle
<1> HIDE DEF t
<1>7. HoldingsLedger!Transfer(t.buyer, t.seller, t.price)
  BY <1>3, <1>5, <1>6 DEF HoldingsLedger!Transfer, DividendsPaid
<1> QED BY <1>3, <1>4, <1>7

LEMMA LedgerInit == Init => HoldingsLedger!Init
BY DEF Init, HoldingsLedger!Init, HoldingsLedger!NoHolding, EmptyPortfolio,
  InitialState, DividendsPaid

LEMMA LedgerStep ==
  ASSUME BookInvariant, [Next]_vars
  PROVE  [HoldingsLedger!Next]_HoldingsLedger!vars
<1> USE DEF HoldingsLedger!vars
<1>1. TypeOK
  BY DEF BookInvariant
<1>2. CASE UNCHANGED <<folio, exp, callback>>
  BY <1>2 DEF DividendsPaid
<1>3. ASSUME NEW p \in Subjects, TakeBid(p) \/ TakeAsk(p)
      PROVE  [HoldingsLedger!Next]_HoldingsLedger!vars
  <2>1. PICK o \in Offer :
          /\ o.id = id /\ o.time_elapsed = clock
          /\ UNCHANGED <<payoff, exp, callback, clock>>
          /\ \/ result'.trade = {} /\ UNCHANGED <<bids, asks, folio>>
             \/ /\ IsMarketOpen(exp)
                /\ Covered(o)
                /\ o.price \in -PriceLimit..PriceLimit
                /\ Rests(o) \/ \E r \in OtherSide(o) : Fills(o, r)
    BY <1>3, OfferCases
  <2>2. CASE UNCHANGED folio
    BY <1>2, <2>1, <2>2
  <2>3. ASSUME NEW r \in OtherSide(o), Fills(o, r), IsMarketOpen(exp),
               Covered(o), o.price \in -PriceLimit..PriceLimit
        PROVE  HoldingsLedger!Next
    BY <2>1, <2>3, FillTransfers DEF HoldingsLedger!Next, IsMarketOpen
  <2> QED BY <2>1, <2>2, <2>3 DEF Rests
<1>4. ASSUME NEW p \in Subjects, CreateAsset(p)
      PROVE  [HoldingsLedger!Next]_HoldingsLedger!vars
  <2>1. exp' = exp /\ callback' = callback
    BY <1>4 DEF CreateAsset
  <2>2. CASE CreateValidity(p) # "CreateAccepted"
    BY <1>2, <1>4, <2>1, <2>2 DEF CreateAsset
  <2>3. CASE CreateValidity(p) = "CreateAccepted"
    <3>1. /\ IsMarketOpen(exp) /\ p \in Creators
          /\ ~(folio[p].Cash < MarginReq[exp.round])
      BY <2>3 DEF CreateValidity
    <3>2. /\ callback = "EndRound" /\ exp.round \in 1..NRounds
          /\ exp.status # "NotStarted"
      BY <1>1, <3>1 DEF TypeOK, IsMarketOpen
    <3>3. DividendsPaid < NRounds /\ DividendsPaid + 1 = exp.round
      BY <3>2, RoundsAssumption DEF DividendsPaid
    <3>4. folio[p].Cash \in Int /\ MarginReq[exp.round] \in Int
      BY <1>1, <3>2, RoundsAssumption DEF TypeOK, Portfolio
    <3>5. HoldingsLedger!Create(p, MarginReq[exp.round])
      BY <1>4, <2>1, <2>3, <3>1, <3>2, <3>4
        DEF CreateAsset, HoldingsLedger!Create, DividendsPaid
    <3> QED BY <3>1, <3>3, <3>5 DEF HoldingsLedger!Next
  <2> QED BY <2>2, <2>3
<1>5. CASE StartInstructions \/ EndEarly
  <2>1. /\ exp'.status = exp.status /\ exp'.round = exp.round
        /\ callback' = callback /\ folio' = folio
    BY <1>1, <1>5 DEF StartInstructions, EndEarly, StartPayouts, WithStage, TypeOK
  <2> QED BY <2>1 DEF DividendsPaid
<1>6. CASE StartExperiment
  <2>1. /\ exp.round = 0 /\ callback = "None"
        /\ callback' = "EndRound" /\ exp'.round = 1 /\ exp'.status = "Running"
    BY <1>1, <1>6 DEF StartExperiment, StartRound, NextRound, WithStatus, TypeOK
  <2>2. DividendsPaid = 0 /\ DividendsPaid' = 0
    BY <2>1 DEF DividendsPaid
  <2>3. HoldingsLedger!Allocate
    BY <1>6, <2>1, <2>2 DEF StartExperiment, InitAlloc, HoldingsLedger!Allocate
  <2> QED BY <2>3 DEF HoldingsLedger!Next
<1>7. CASE EndRound
  <2>1. /\ callback = "EndRound" /\ callback' = "EndReview"
        /\ exp.round \in 1..NRounds /\ exp'.round = exp.round
        /\ exp.status # "NotStarted" /\ exp'.status = exp.status
    BY <1>1, <1>7 DEF EndRound, WithStage, TypeOK
  <2>2. /\ DividendsPaid < NRounds /\ DividendsPaid + 1 = exp.round
        /\ DividendsPaid' = exp.round
    BY <2>1, RoundsAssumption DEF DividendsPaid
  <2>3. folio' = PayDividend(folio, Dividend[exp.round])
    BY <1>7 DEF EndRound
  <2>4. HoldingsLedger!PayDividend(Dividend[exp.round])
    BY <2>1, <2>2, <2>3 DEF PayDividend, HoldingsLedger!PayDividend
  <2> QED BY <2>2, <2>4 DEF HoldingsLedger!Next
<1>8. CASE EndReview
  <2>1. /\ callback = "EndReview" /\ exp.round \in 1..NRounds
        /\ exp.stage # "PreExperiment" /\ exp.status # "NotStarted"
    BY <1>1, <1>8 DEF EndReview, BookInvariant, TypeOK
  <2>2. /\ folio' = folio /\ exp'.status # "NotStarted"
        /\ \/ callback' = "EndRound" /\ exp'.round = exp.round + 1
           \/ callback' = "None" /\ exp'.round = exp.round
    BY <1>1, <1>8, <2>1 DEF EndReview, StartRound, NextRound, StartPayouts,
      WithStage, TypeOK
  <2>3. DividendsPaid' = DividendsPaid
    BY <2>1, <2>2 DEF DividendsPaid
  <2> QED BY <2>1, <2>2, <2>3
<1>9. CASE Tick \/ UNCHANGED vars
  BY <1>2, <1>9 DEF Tick, vars
<1>10. ASSUME NEW p \in Subjects, RetractOffer(p)
       PROVE  UNCHANGED <<folio, exp, callback>>
  BY <1>10 DEF RetractOffer
<1> QED BY <1>2, <1>3, <1>4, <1>5, <1>6, <1>7, <1>8, <1>9, <1>10
    DEF Next, ClientRequest, TimerExpires, AdminCommand

\* Every behaviour of the server is one of the ledger.
THEOREM ServerImplementsLedger == Spec => ImplementsLedger
<1>1. BookInvariant /\ [Next]_vars => [HoldingsLedger!Next]_HoldingsLedger!vars
  BY LedgerStep
<1> QED BY BookAlways, LedgerInit, <1>1, PTL
    DEF Spec, ImplementsLedger, HoldingsLedger!Spec

-----------------------------------------------------------------------------
(* The cash that is promised to bids                                       *)

\* What a proof needs to know of the prices' total: it is an integer and not
\* negative, fewer bids promise less, any one of them can be taken out.
LEMMA TotalFacts ==
  ASSUME NEW S, IsFiniteSet(S), \A x \in S : x.price \in Int /\ x.price >= 0
  PROVE  /\ TotalPrice(S) \in Int /\ TotalPrice(S) >= 0
         /\ S = {} => TotalPrice(S) = 0
         /\ \A T \in SUBSET S : TotalPrice(T) <= TotalPrice(S)
         /\ \A x \in S : TotalPrice(S) = x.price + TotalPrice(S \ {x})
<1> DEFINE f == [x \in S |-> x.price]
           Sum(T) == SumFunctionOnSet(f, T)
<1>1. IntegerOn(f, S) /\ \A x \in S : f[x] = x.price
  BY DEF IntegerOn
<1>2. \A T \in SUBSET S : TotalPrice(T) = Sum(T)
  <2> TAKE T \in SUBSET S
  <2> DEFINE g == [x \in T |-> x.price]
  <2>1. TotalPrice(T) = SumFunctionOnSet(g, T)
    <3>1. DOMAIN g = T
      OBVIOUS
    <3> QED BY <3>1, Zenon DEF TotalPrice, SumFunction
  <2>2. IsFiniteSet(T) /\ IntegerOn(f, T) /\ \A x \in T : g[x] = f[x]
    BY FS_Subset DEF IntegerOn
  <2> HIDE DEF f, g
  <2>3. SumFunctionOnSet(g, T) = SumFunctionOnSet(f, T)
    BY <2>2, SumSame
  <2> QED BY <2>1, <2>3
<1> HIDE DEF f
<1>3. Sum(S) \in Int /\ Sum({}) = 0
  BY <1>1, SumUnfold, FS_EmptySet DEF IntegerOn
<1>4. \A T \in SUBSET S : Sum(T) <= Sum(S)
  BY <1>1, SumSubset
<1>5. \A x \in S : Sum(S) = x.price + Sum(S \ {x})
  <2> TAKE x \in S
  <2>1. Sum(S) = f[x] + Sum(S \ {x})
    BY <1>1, SumRemove
  <2> QED BY <1>1, <2>1
<1>6. {} \in SUBSET S /\ \A x \in S : S \ {x} \in SUBSET S
  OBVIOUS
<1> HIDE DEF Sum
<1>7. TotalPrice(S) = Sum(S) /\ TotalPrice({}) = 0
  BY <1>2, <1>3, <1>6
<1> QED BY <1>2, <1>3, <1>4, <1>5, <1>6, <1>7

\* A subject's own bids promise a total, whatever else the book holds.
LEMMA OwnBids ==
  ASSUME TypeOK, BookIsKeyedById, NEW p
  PROVE  /\ IsFiniteSet(OffersOf(bids, p))
         /\ \A x \in OffersOf(bids, p) : x.price \in Int /\ x.price >= 0
BY SubsetFinite DEF OffersOf, TypeOK, BookIsKeyedById, Offer

\* Fewer bids of a subject promise no more, and the cash of a subject without
\* a created share is at least what its bids promise, so never negative.
LEMMA PromisedFacts ==
  ASSUME TypeOK, BookIsKeyedById, BidsCovered, NEW p \in Subjects,
         folio[p].Derivatives = 0
  PROVE  /\ TotalPrice(OffersOf(bids, p)) \in Int
         /\ TotalPrice(OffersOf(bids, p)) <= folio[p].Cash
         /\ folio[p].Cash >= 0
         /\ \A more : more \subseteq bids =>
              TotalPrice(OffersOf(more, p)) <= TotalPrice(OffersOf(bids, p))
<1> DEFINE own == OffersOf(bids, p)
<1>1. IsFiniteSet(own) /\ \A x \in own : x.price \in Int /\ x.price >= 0
  BY OwnBids
<1>2. \A more : more \subseteq bids => OffersOf(more, p) \in SUBSET own
  BY DEF OffersOf
<1>3. TotalPrice(own) <= folio[p].Cash
  BY DEF BidsCovered
<1>4. folio[p].Cash \in Int
  BY DEF TypeOK, Portfolio
<1> HIDE DEF own
<1>5. /\ TotalPrice(own) \in Int /\ TotalPrice(own) >= 0
      /\ \A T \in SUBSET own : TotalPrice(T) <= TotalPrice(own)
  BY <1>1, TotalFacts
<1> QED BY <1>2, <1>3, <1>4, <1>5 DEF own

\* What the first facts of a step are, for the holdings of a trade: the buyer
\* pays the price, the seller gets it, and no derivative changes hands.
LEMMA SettleCash ==
  ASSUME NEW port \in [Subjects -> Portfolio], NEW t \in TradeRecord,
         t.buyer # t.seller, NEW p \in Subjects
  PROVE  /\ Settle(port, t)[p].Cash =
              IF p = t.buyer THEN port[p].Cash - t.price
              ELSE IF p = t.seller THEN port[p].Cash + t.price
              ELSE port[p].Cash
         /\ Settle(port, t)[p].Derivatives = port[p].Derivatives
         /\ Settle(port, t)[p].Margin = port[p].Margin
BY DEF Settle, Portfolio, TradeRecord

\* Fewer bids and no less cash keep the bids covered.
LEMMA FewerBids ==
  ASSUME TypeOK, TypeOK', BookIsKeyedById, BidsCovered,
         bids' \subseteq bids,
         \A p \in Subjects : folio'[p].Derivatives = 0 =>
           folio[p].Derivatives = 0 /\ folio'[p].Cash >= folio[p].Cash
  PROVE  BidsCovered'
<1> SUFFICES ASSUME NEW p \in Subjects, folio'[p].Derivatives = 0
             PROVE  TotalPrice(OffersOf(bids', p)) <= folio'[p].Cash
  BY DEF BidsCovered
<1>1. folio[p].Derivatives = 0 /\ folio'[p].Cash >= folio[p].Cash
  OBVIOUS
<1>2. /\ TotalPrice(OffersOf(bids, p)) \in Int
      /\ TotalPrice(OffersOf(bids, p)) <= folio[p].Cash
      /\ TotalPrice(OffersOf(bids', p)) <= TotalPrice(OffersOf(bids, p))
  BY <1>1, PromisedFacts
<1>3. folio[p].Cash \in Int /\ folio'[p].Cash \in Int
  BY DEF TypeOK, Portfolio
<1>4. TotalPrice(OffersOf(bids', p)) \in Int
  <2>1. IsFiniteSet(OffersOf(bids', p))
    BY SubsetFinite DEF OffersOf, TypeOK
  <2>2. \A x \in OffersOf(bids', p) : x.price \in Int /\ x.price >= 0
    BY DEF OffersOf, TypeOK, BookIsKeyedById, Offer
  <2> QED BY <2>1, <2>2, TotalFacts
<1> QED BY <1>1, <1>2, <1>3, <1>4

\* A bid that comes to rest was counted together with the bids before it.
LEMMA RestsCovered ==
  ASSUME TypeOK, BookIsKeyedById, BidsCovered,
         NEW o \in Offer, o.id = id, \A x \in bids : x.id < id,
         Covered(o), Rests(o)
  PROVE  BidsCovered'
<1> SUFFICES ASSUME NEW p \in Subjects, folio[p].Derivatives = 0
             PROVE  TotalPrice(OffersOf(bids', p)) <= folio[p].Cash
  BY DEF BidsCovered, Rests
<1> DEFINE own == OffersOf(bids, p)
           new == OffersOf(bids', p)
<1>1. /\ TotalPrice(own) \in Int
      /\ TotalPrice(own) <= folio[p].Cash
      /\ \A more : more \subseteq bids => TotalPrice(OffersOf(more, p)) <= TotalPrice(own)
  BY PromisedFacts
<1>2. IsFiniteSet(own) /\ \A x \in own : x.price \in Int /\ x.price >= 0
  BY OwnBids
<1>3. bids' \subseteq bids \cup (IF IsAsk(o) THEN {} ELSE {o})
  BY DEF Rests
<1>4. CASE IsAsk(o) \/ o.player_id # p
  <2>1. new = OffersOf(bids' \cap bids, p)
    BY <1>3, <1>4 DEF OffersOf
  <2>2. folio[p].Cash \in Int
    BY DEF TypeOK, Portfolio
  <2>3. TotalPrice(new) <= TotalPrice(own)
    BY <1>1, <2>1
  <2>4. TotalPrice(new) \in Int
    <3>1. new \in SUBSET own
      BY <2>1 DEF OffersOf
    <3>2. IsFiniteSet(new) /\ \A x \in new : x.price \in Int /\ x.price >= 0
      BY <1>2, <3>1, SubsetFinite
    <3> HIDE DEF new
    <3> QED BY <3>2, TotalFacts
  <2> HIDE DEF own, new
  <2>5. TotalPrice(new) <= folio[p].Cash
    BY <1>1, <2>2, <2>3, <2>4
  <2> QED BY <2>5 DEF new
<1>5. CASE ~IsAsk(o) /\ o.player_id = p
  <2> DEFINE all == own \cup {o}
  <2>1. new \in SUBSET all
    BY <1>3 DEF OffersOf
  <2>2. o.price \in Int /\ o.price >= 0
    BY <1>5 DEF Offer, IsAsk
  <2>3. IsFiniteSet(all) /\ \A x \in all : x.price \in Int /\ x.price >= 0
    BY <1>2, <2>2, FS_AddElement
  <2>4. all \ {o} = own
    BY DEF OffersOf, TypeOK, Offer
  <2>5. folio[p].Cash >= o.price + TotalPrice(own)
    BY <1>5 DEF Covered
  <2>6. o \in all
    OBVIOUS
  <2>7. IsFiniteSet(new) /\ \A x \in new : x.price \in Int /\ x.price >= 0
    <3> HIDE DEF all, new
    <3> QED BY <2>1, <2>3, SubsetFinite
  <2> HIDE DEF all, new, own
  <2>8. TotalPrice(new) <= TotalPrice(all)
        /\ TotalPrice(all) = o.price + TotalPrice(own) /\ TotalPrice(new) \in Int
    BY <2>1, <2>3, <2>4, <2>6, <2>7, TotalFacts
  <2>9. folio[p].Cash \in Int
    BY DEF TypeOK, Portfolio
  <2>10. TotalPrice(own) \in Int
    BY <1>1
  <2>11. TotalPrice(new) <= folio[p].Cash
    BY <2>2, <2>5, <2>8, <2>9, <2>10
  <2> QED BY <2>11 DEF new
<1> QED BY <1>4, <1>5

\* A trade costs the buyer no more than its bid, which leaves the book.
LEMMA FillsCovered ==
  ASSUME TypeOK, BookIsKeyedById, BidsCovered,
         NEW o \in Offer, Covered(o), NEW r \in OtherSide(o), Fills(o, r)
  PROVE  BidsCovered'
<1> DEFINE t == TradeWith(o, r)
<1>1. r \in Offer /\ r.player_id # o.player_id /\ (IsAsk(o) <=> r \in bids)
  BY DEF Fills, OtherSide, TypeOK, BookIsKeyedById, IsAsk, Offer
<1>2. /\ t \in TradeRecord /\ t.buyer # t.seller
      /\ t.buyer = IF IsAsk(o) THEN r.player_id ELSE o.player_id
  BY <1>1, TradeWithFact
<1>3. /\ t.price \in Int /\ t.price >= 0
      /\ t.price <= IF IsAsk(o) THEN r.price ELSE o.price
  <2>1. CASE IsAsk(o)
    <3>1. CanTrade(r, o) /\ t.price = TradePrice(r, o)
      BY <2>1 DEF Fills, Crosses, TradeWith, Trade
    <3> QED BY <1>1, <2>1, <3>1, TradePriceFact DEF IsAsk, Offer, TradePrice
  <2>2. CASE ~IsAsk(o)
    <3>1. CanTrade(o, r) /\ t.price = TradePrice(o, r) /\ r \in asks
      BY <2>2 DEF Fills, Crosses, TradeWith, Trade, OtherSide
    <3>2. r.price < 0
      BY <3>1 DEF BookIsKeyedById
    <3> QED BY <1>1, <2>2, <3>1, <3>2, TradePriceFact DEF IsAsk, Offer, TradePrice
  <2> QED BY <2>1, <2>2
<1>4. folio' = Settle(folio, t) /\ bids' \subseteq bids \ {r}
  BY DEF Fills
<1> HIDE DEF t
<1> SUFFICES ASSUME NEW p \in Subjects, folio'[p].Derivatives = 0
             PROVE  TotalPrice(OffersOf(bids', p)) <= folio'[p].Cash
  BY DEF BidsCovered
<1>5. /\ folio[p].Derivatives = 0
      /\ folio'[p].Cash = IF p = t.buyer THEN folio[p].Cash - t.price
                          ELSE IF p = t.seller THEN folio[p].Cash + t.price
                          ELSE folio[p].Cash
  BY <1>2, <1>4, SettleCash DEF TypeOK
<1>6. /\ TotalPrice(OffersOf(bids, p)) \in Int
      /\ TotalPrice(OffersOf(bids, p)) <= folio[p].Cash
      /\ TotalPrice(OffersOf(bids', p)) <= TotalPrice(OffersOf(bids, p))
  BY <1>4, <1>5, PromisedFacts
<1>7. folio[p].Cash \in Int
  BY DEF TypeOK, Portfolio
<1> DEFINE own == OffersOf(bids, p)
           new == OffersOf(bids', p)
<1>8. IsFiniteSet(own) /\ \A x \in own : x.price \in Int /\ x.price >= 0
  BY OwnBids
<1>9. new \in SUBSET own /\ (r \in own => new \in SUBSET (own \ {r}))
  BY <1>4 DEF OffersOf
<1>10. TotalPrice(new) \in Int
  <2>1. IsFiniteSet(new) /\ \A x \in new : x.price \in Int /\ x.price >= 0
    <3> HIDE DEF new, own
    <3> QED BY <1>8, <1>9, SubsetFinite
  <2> HIDE DEF new
  <2> QED BY <2>1, TotalFacts
<1>11. CASE p # t.buyer
  <2> HIDE DEF own, new
  <2> QED BY <1>3, <1>5, <1>6, <1>7, <1>10, <1>11 DEF own, new
<1>12. CASE p = t.buyer /\ ~IsAsk(o)
  <2>1. o.player_id = p
    BY <1>2, <1>12
  <2>2. folio[p].Cash >= o.price + TotalPrice(own)
    BY <1>12, <2>1 DEF Covered
  <2>3. o.price \in Int
    BY DEF Offer
  <2> HIDE DEF own, new
  <2>4. TotalPrice(own) \in Int /\ TotalPrice(new) <= TotalPrice(own)
    BY <1>6 DEF own, new
  <2>5. folio'[p].Cash = folio[p].Cash - t.price /\ t.price <= o.price
    BY <1>3, <1>5, <1>12
  <2> QED BY <1>3, <1>7, <1>10, <2>2, <2>3, <2>4, <2>5 DEF new
<1>13. CASE p = t.buyer /\ IsAsk(o)
  <2>1. r \in own
    BY <1>1, <1>2, <1>13 DEF OffersOf
  <2>2. IsFiniteSet(own \ {r}) /\ \A x \in own \ {r} : x.price \in Int /\ x.price >= 0
    BY <1>8, FS_RemoveElement
  <2>3. new \in SUBSET (own \ {r})
    BY <1>9, <2>1
  <2>4. r.price \in Int
    BY <1>1 DEF Offer
  <2> HIDE DEF own, new
  <2>5. TotalPrice(own) = r.price + TotalPrice(own \ {r})
    BY <1>8, <2>1, TotalFacts
  <2>6. TotalPrice(new) <= TotalPrice(own \ {r}) /\ TotalPrice(own \ {r}) \in Int
    BY <2>2, <2>3, TotalFacts
  <2>7. TotalPrice(own) <= folio[p].Cash
    BY <1>6 DEF own
  <2>8. folio'[p].Cash = folio[p].Cash - t.price /\ t.price <= r.price
    BY <1>3, <1>5, <1>13
  <2> QED BY <1>3, <1>7, <1>10, <2>4, <2>5, <2>6, <2>7, <2>8 DEF new
<1> QED BY <1>11, <1>12, <1>13

LEMMA CoverInit == Init => BidsCovered /\ DerivativesOK
<1> SUFFICES ASSUME Init PROVE BidsCovered /\ DerivativesOK
  OBVIOUS
<1>1. \A p : OffersOf(bids, p) = {}
  BY DEF Init, OffersOf
<1>2. TotalPrice({}) = 0
  <2>1. IsFiniteSet({}) /\ \A x \in {} : x.price \in Int /\ x.price >= 0
    BY FS_EmptySet
  <2> QED BY <2>1, TotalFacts
<1> QED BY <1>1, <1>2 DEF Init, BidsCovered, DerivativesOK, EmptyPortfolio

\* Every step keeps the bids covered, of all who have not created a share.
LEMMA CoverStep ==
  ASSUME MarketInvariant, [Next]_vars
  PROVE  BidsCovered' /\ DerivativesOK'
<1> USE DEF MarketInvariant
<1>1. TypeOK /\ TypeOK' /\ BookIsKeyedById
  BY TypeStep DEF BookInvariant
<1>2. ASSUME bids' \subseteq bids, folio' = folio
      PROVE  BidsCovered' /\ DerivativesOK'
  <2>1. \A q \in Subjects : folio'[q].Cash >= folio[q].Cash
    BY <1>1, <1>2 DEF TypeOK, Portfolio
  <2> QED BY <1>1, <1>2, <2>1, FewerBids DEF DerivativesOK
<1>3. ASSUME NEW p \in Subjects, TakeBid(p) \/ TakeAsk(p)
      PROVE  BidsCovered' /\ DerivativesOK'
  <2>1. PICK o \in Offer :
          /\ o.id = id
          /\ \/ UNCHANGED <<bids, asks, folio>>
             \/ /\ Covered(o)
                /\ Rests(o) \/ \E r \in OtherSide(o) : Fills(o, r)
    BY <1>3, OfferCases
  <2>2. CASE UNCHANGED <<bids, asks, folio>>
    BY <1>2, <2>2
  <2>3. CASE Covered(o) /\ Rests(o)
    <3>1. \A x \in bids : x.id < id
      BY DEF BookInvariant
    <3>2. BidsCovered'
      BY <1>1, <2>1, <2>3, <3>1, RestsCovered
    <3> QED BY <2>3, <3>2 DEF Rests, DerivativesOK
  <2>4. ASSUME Covered(o), NEW r \in OtherSide(o), Fills(o, r)
        PROVE  BidsCovered' /\ DerivativesOK'
    <3>1. BidsCovered'
      BY <1>1, <2>4, FillsCovered
    <3>2. TradeWith(o, r) \in TradeRecord
          /\ TradeWith(o, r).buyer # TradeWith(o, r).seller
          /\ folio' = Settle(folio, TradeWith(o, r))
      BY <1>1, <2>4, TradeWithFact DEF Fills, OtherSide, TypeOK
    <3>3. \A q \in Subjects : folio'[q].Derivatives = folio[q].Derivatives
      BY <1>1, <3>2, SettleCash DEF TypeOK
    <3> QED BY <3>1, <3>3 DEF DerivativesOK
  <2> QED BY <2>1, <2>2, <2>3, <2>4
<1>4. ASSUME NEW p \in Subjects, RetractOffer(p)
      PROVE  BidsCovered' /\ DerivativesOK'
  BY <1>2, <1>4, RetractFact DEF RetractOffer
<1>5. ASSUME NEW p \in Subjects, CreateAsset(p)
      PROVE  BidsCovered' /\ DerivativesOK'
  <2>1. CASE CreateValidity(p) # "CreateAccepted"
    BY <1>2, <1>5, <2>1 DEF CreateAsset
  <2>2. CASE CreateValidity(p) = "CreateAccepted"
    <3>1. p \in Creators
      BY <2>2 DEF CreateValidity
    <3>2. \A q \in Subjects :
            /\ folio[q].Derivatives \in Int /\ folio[q].Cash \in Int
            /\ folio'[q].Derivatives =
                 IF q = p THEN folio[q].Derivatives + 1 ELSE folio[q].Derivatives
            /\ q # p => folio'[q].Cash = folio[q].Cash
      BY <1>1, <1>5, <2>2 DEF CreateAsset, TypeOK, Portfolio
    <3>3. \A q \in Subjects : folio'[q].Derivatives = 0 =>
            folio[q].Derivatives = 0 /\ folio'[q].Cash >= folio[q].Cash
      BY <3>2 DEF DerivativesOK
    <3>4. bids' = bids
      BY <1>5 DEF CreateAsset
    <3>5. BidsCovered'
      BY <1>1, <3>3, <3>4, FewerBids
    <3> QED BY <3>1, <3>2, <3>5 DEF DerivativesOK
  <2> QED BY <2>1, <2>2
<1>6. CASE StartExperiment
  <2>1. bids = {} /\ bids' = {}
    BY <1>1, <1>6 DEF StartExperiment, BookInvariant, TypeOK
  <2>2. \A q \in Subjects : /\ folio'[q].Cash = InitCash[q] /\ InitCash[q] \in Nat
                            /\ folio'[q].Derivatives = 0
    BY <1>6, SubjectsAssumption DEF StartExperiment, InitAlloc
  <2>3. \A q : OffersOf(bids', q) = {}
    BY <2>1 DEF OffersOf
  <2>4. TotalPrice({}) = 0
    <3>1. IsFiniteSet({}) /\ \A x \in {} : x.price \in Int /\ x.price >= 0
      BY FS_EmptySet
    <3> QED BY <3>1, TotalFacts
  <2> QED BY <2>2, <2>3, <2>4 DEF BidsCovered, DerivativesOK
<1>7. CASE EndRound
  <2>1. Dividend[exp.round] \in Nat
    BY <1>1, <1>7, RoundsAssumption DEF EndRound, TypeOK
  <2>2. ASSUME NEW q \in Subjects
        PROVE  /\ folio'[q].Derivatives = folio[q].Derivatives
               /\ folio'[q].Cash >= folio[q].Cash
    <3>1. folio[q].Shares \in Nat
      <4>1. Cardinality(OffersOf(asks, q)) \in Nat
        BY <1>1, FS_CardinalityType, SubsetFinite DEF OffersOf, TypeOK
      <4>2. folio[q].Shares \in Int
            /\ Cardinality(OffersOf(asks, q)) <= folio[q].Shares
        BY <1>1 DEF BookInvariant, AsksCovered, TypeOK, Portfolio
      <4> QED BY <4>1, <4>2
    <3>2. folio[q].Shares * Dividend[exp.round] \in Nat
      BY <2>1, <3>1
    <3>3. folio'[q].Cash = folio[q].Cash + folio[q].Shares * Dividend[exp.round]
          /\ folio'[q].Derivatives = folio[q].Derivatives
      BY <1>7 DEF EndRound, PayDividend
    <3>4. folio[q].Cash \in Int
      BY <1>1 DEF TypeOK, Portfolio
    <3> QED BY <3>2, <3>3, <3>4
  <2>3. bids' = {}
    BY <1>7 DEF EndRound
  <2> QED BY <1>1, <2>2, <2>3, FewerBids DEF DerivativesOK
<1>8. CASE StartInstructions \/ EndReview \/ EndEarly \/ Tick \/ UNCHANGED vars
  BY <1>2, <1>8 DEF StartInstructions, EndReview, EndEarly, Tick, vars
<1> QED BY <1>3, <1>4, <1>5, <1>6, <1>7, <1>8
    DEF Next, ClientRequest, TimerExpires, AdminCommand

\* The book, the cover of the bids and the derivatives hold together for any
\* subjects, creators, prices, rounds and rules.
THEOREM MarketAlways == Spec => []MarketInvariant
<1>1. Init => MarketInvariant
  BY BookInit, CoverInit DEF MarketInvariant
<1>2. MarketInvariant /\ [Next]_vars => MarketInvariant'
  BY BookStep, CoverStep DEF MarketInvariant
<1> QED BY <1>1, <1>2, PTL DEF Spec

\* The bids of a subject that has not created a share never promise more cash
\* than it has, however they interleave with its trades, in both directions,
\* and with retractions, replacements and dividends.
THEOREM BidsAlwaysCovered == Spec => []BidsCovered
<1>1. MarketInvariant => BidsCovered
  BY DEF MarketInvariant
<1> QED BY MarketAlways, <1>1, PTL

\* A subject whose configuration does not let it create shares never has a
\* negative cash: the creation of shares is the only way to overdraw.
THEOREM OnlyCreatorsOverdraw ==
  Spec => [](\A p \in Subjects \ Creators : folio[p].Cash >= 0)
<1>1. MarketInvariant => \A p \in Subjects \ Creators : folio[p].Cash >= 0
  BY PromisedFacts DEF MarketInvariant, BookInvariant, DerivativesOK
<1> QED BY MarketAlways, <1>1, PTL

-----------------------------------------------------------------------------
(* Where money comes from                                                  *)

NetOf(port) == [p \in Subjects |-> port[p].Shares - port[p].Derivatives]

MoneyOf(port) == [p \in Subjects |-> port[p].Cash + port[p].Margin]

\* The two totals are sums over the finite set of subjects.
LEMMA TotalsAreSums ==
  ASSUME NEW port
  PROVE  /\ NetShares(port) = SumFunctionOnSet(NetOf(port), Subjects)
         /\ Money(port) = SumFunctionOnSet(MoneyOf(port), Subjects)
         /\ port \in [Subjects -> Portfolio] =>
              /\ IntegerOn(NetOf(port), Subjects) /\ NetShares(port) \in Int
              /\ IntegerOn(MoneyOf(port), Subjects) /\ Money(port) \in Int
<1>1. DOMAIN NetOf(port) = Subjects /\ DOMAIN MoneyOf(port) = Subjects
  BY DEF NetOf, MoneyOf
<1>2. NetShares(port) = SumFunctionOnSet(NetOf(port), Subjects)
  <2>1. NetShares(port) = SumFunctionOnSet(NetOf(port), DOMAIN NetOf(port))
    BY Zenon DEF NetShares, NetOf, SumFunction
  <2> QED BY <1>1, <2>1
<1>3. Money(port) = SumFunctionOnSet(MoneyOf(port), Subjects)
  <2>1. Money(port) = SumFunctionOnSet(MoneyOf(port), DOMAIN MoneyOf(port))
    BY Zenon DEF Money, MoneyOf, SumFunction
  <2> QED BY <1>1, <2>1
<1>4. ASSUME port \in [Subjects -> Portfolio]
      PROVE  IntegerOn(NetOf(port), Subjects) /\ IntegerOn(MoneyOf(port), Subjects)
  BY <1>4 DEF IntegerOn, NetOf, MoneyOf, Portfolio
<1> QED BY <1>2, <1>3, <1>4, SubjectsAssumption, SumUnfold

\* A trade moves a share one way and its price the other.
LEMMA SettleKeepsTotals ==
  ASSUME NEW port \in [Subjects -> Portfolio], NEW t \in TradeRecord,
         t.buyer # t.seller
  PROVE  /\ NetShares(Settle(port, t)) = NetShares(port)
         /\ Money(Settle(port, t)) = Money(port)
<1> DEFINE after == Settle(port, t)
<1>1. after \in [Subjects -> Portfolio] /\ t.buyer \in Subjects
      /\ t.seller \in Subjects /\ t.price \in Int
  BY SettleType DEF TradeRecord
<1>2. ASSUME NEW p \in Subjects
      PROVE  /\ NetOf(after)[p] = NetOf(port)[p] +
                  (IF p = t.buyer THEN 1 ELSE IF p = t.seller THEN -1 ELSE 0)
             /\ MoneyOf(after)[p] = MoneyOf(port)[p] +
                  (IF p = t.buyer THEN -t.price
                   ELSE IF p = t.seller THEN t.price ELSE 0)
  <2>1. /\ after[p].Shares =
             IF p = t.buyer THEN port[p].Shares + 1
             ELSE IF p = t.seller THEN port[p].Shares - 1
             ELSE port[p].Shares
        /\ after[p].Cash =
             IF p = t.buyer THEN port[p].Cash - t.price
             ELSE IF p = t.seller THEN port[p].Cash + t.price
             ELSE port[p].Cash
        /\ after[p].Derivatives = port[p].Derivatives
        /\ after[p].Margin = port[p].Margin
    BY SettleShares, SettleCash
  <2>2. /\ port[p].Shares \in Int /\ port[p].Derivatives \in Int
        /\ port[p].Cash \in Int /\ port[p].Margin \in Int
    BY DEF Portfolio
  <2> HIDE DEF after
  <2> QED BY <1>1, <2>1, <2>2 DEF NetOf, MoneyOf
<1> HIDE DEF after
<1>3. /\ IntegerOn(NetOf(port), Subjects) /\ IntegerOn(NetOf(after), Subjects)
      /\ IntegerOn(MoneyOf(port), Subjects) /\ IntegerOn(MoneyOf(after), Subjects)
  BY <1>1, TotalsAreSums
<1>4. \A p \in Subjects : NetOf(port)[p] \in Int /\ MoneyOf(port)[p] \in Int
  BY <1>3 DEF IntegerOn
<1>5. SumFunctionOnSet(NetOf(after), Subjects) = SumFunctionOnSet(NetOf(port), Subjects)
  <2>1. NetOf(after)[t.buyer] + NetOf(after)[t.seller]
          = NetOf(port)[t.buyer] + NetOf(port)[t.seller]
    BY <1>1, <1>2, <1>4
  <2>2. \A z \in Subjects : z # t.buyer /\ z # t.seller =>
          NetOf(after)[z] = NetOf(port)[z]
    BY <1>2, <1>4
  <2>3. Exchange(Subjects, NetOf(port), NetOf(after), t.buyer, t.seller)
    BY <1>1, <2>1, <2>2 DEF Exchange
  <2> QED BY <1>3, <2>3, SumTransfer, SubjectsAssumption
<1>6. SumFunctionOnSet(MoneyOf(after), Subjects) = SumFunctionOnSet(MoneyOf(port), Subjects)
  <2>1. MoneyOf(after)[t.buyer] + MoneyOf(after)[t.seller]
          = MoneyOf(port)[t.buyer] + MoneyOf(port)[t.seller]
    BY <1>1, <1>2, <1>4
  <2>2. \A z \in Subjects : z # t.buyer /\ z # t.seller =>
          MoneyOf(after)[z] = MoneyOf(port)[z]
    BY <1>2, <1>4
  <2>3. Exchange(Subjects, MoneyOf(port), MoneyOf(after), t.buyer, t.seller)
    BY <1>1, <2>1, <2>2 DEF Exchange
  <2> QED BY <1>3, <2>3, SumTransfer, SubjectsAssumption
<1> QED BY <1>5, <1>6, TotalsAreSums DEF after

\* The dividend pays every net share once.
LEMMA DividendAddsMoney ==
  ASSUME NEW port \in [Subjects -> Portfolio], NEW d \in Nat
  PROVE  /\ NetShares(PayDividend(port, d)) = NetShares(port)
         /\ Money(PayDividend(port, d)) = Money(port) + d * NetShares(port)
<1> DEFINE after == PayDividend(port, d)
<1>1. after \in [Subjects -> Portfolio]
  BY DividendType
<1>2. ASSUME NEW p \in Subjects
      PROVE  /\ NetOf(after)[p] = NetOf(port)[p]
             /\ MoneyOf(after)[p] = MoneyOf(port)[p] + d * NetOf(port)[p]
  <2>1. /\ after[p].Shares = port[p].Shares
        /\ after[p].Derivatives = port[p].Derivatives
        /\ after[p].Cash = port[p].Cash + port[p].Shares * d
        /\ after[p].Margin = port[p].Margin - port[p].Derivatives * d
    BY DEF PayDividend
  <2>2. /\ port[p].Shares \in Int /\ port[p].Derivatives \in Int
        /\ port[p].Cash \in Int /\ port[p].Margin \in Int
    BY DEF Portfolio
  <2>3. d * (port[p].Shares - port[p].Derivatives)
          = port[p].Shares * d - port[p].Derivatives * d
        /\ port[p].Shares * d \in Int /\ port[p].Derivatives * d \in Int
    BY <2>2
  <2>4. /\ NetOf(after)[p] = after[p].Shares - after[p].Derivatives
        /\ NetOf(port)[p] = port[p].Shares - port[p].Derivatives
        /\ MoneyOf(after)[p] = after[p].Cash + after[p].Margin
        /\ MoneyOf(port)[p] = port[p].Cash + port[p].Margin
    BY DEF NetOf, MoneyOf
  <2> HIDE DEF after
  <2> QED BY <2>1, <2>2, <2>3, <2>4
<1> HIDE DEF after
<1>3. /\ IntegerOn(NetOf(port), Subjects)
      /\ IntegerOn(MoneyOf(port), Subjects) /\ IntegerOn(MoneyOf(after), Subjects)
  BY <1>1, TotalsAreSums
<1>4. SumFunctionOnSet(NetOf(after), Subjects) = SumFunctionOnSet(NetOf(port), Subjects)
  BY <1>2, <1>3, SumSame, SubjectsAssumption
<1>5. SumFunctionOnSet(MoneyOf(after), Subjects)
        = SumFunctionOnSet(MoneyOf(port), Subjects)
            + d * SumFunctionOnSet(NetOf(port), Subjects)
  BY <1>2, <1>3, SumLinear, SubjectsAssumption
<1> QED BY <1>4, <1>5, TotalsAreSums DEF after

\* Creating a share turns cash into margin and owes what it adds.
LEMMA CreateKeepsTotals ==
  ASSUME TypeOK, TypeOK', NEW p \in Subjects, CreateAsset(p)
  PROVE  NetShares(folio') = NetShares(folio) /\ Money(folio') = Money(folio)
<1>1. folio \in [Subjects -> Portfolio] /\ folio' \in [Subjects -> Portfolio]
  BY DEF TypeOK
<1>2. ASSUME NEW q \in Subjects
      PROVE  /\ NetOf(folio')[q] = NetOf(folio)[q]
             /\ MoneyOf(folio')[q] = MoneyOf(folio)[q]
  <2>1. CASE CreateValidity(p) # "CreateAccepted"
    BY <2>1 DEF CreateAsset
  <2>2. CASE CreateValidity(p) = "CreateAccepted"
    <3>1. MarginReq[exp.round] \in Int
      <4>1. IsMarketOpen(exp)
        BY <2>2 DEF CreateValidity
      <4> QED BY <4>1, RoundsAssumption DEF TypeOK
    <3>2. /\ folio[q].Shares \in Int /\ folio[q].Derivatives \in Int
          /\ folio[q].Cash \in Int /\ folio[q].Margin \in Int
      BY <1>1 DEF Portfolio
    <3>3. folio' = [folio EXCEPT
                      ![p].Derivatives = @ + 1,
                      ![p].Shares      = @ + 1,
                      ![p].Margin      = @ + MarginReq[exp.round],
                      ![p].Cash        = @ - MarginReq[exp.round]]
      BY <2>2 DEF CreateAsset
    <3>4. IF q = p
          THEN /\ folio'[q].Shares = folio[q].Shares + 1
               /\ folio'[q].Derivatives = folio[q].Derivatives + 1
               /\ folio'[q].Cash = folio[q].Cash - MarginReq[exp.round]
               /\ folio'[q].Margin = folio[q].Margin + MarginReq[exp.round]
          ELSE folio'[q] = folio[q]
      BY <1>1, <3>3 DEF Portfolio
    <3>5. /\ NetOf(folio')[q] = folio'[q].Shares - folio'[q].Derivatives
          /\ NetOf(folio)[q] = folio[q].Shares - folio[q].Derivatives
          /\ MoneyOf(folio')[q] = folio'[q].Cash + folio'[q].Margin
          /\ MoneyOf(folio)[q] = folio[q].Cash + folio[q].Margin
      BY DEF NetOf, MoneyOf
    <3> QED BY <3>1, <3>2, <3>4, <3>5
  <2> QED BY <2>1, <2>2
<1>3. /\ IntegerOn(NetOf(folio), Subjects)
      /\ IntegerOn(MoneyOf(folio), Subjects)
  BY <1>1, TotalsAreSums
<1>4. /\ SumFunctionOnSet(NetOf(folio'), Subjects) = SumFunctionOnSet(NetOf(folio), Subjects)
      /\ SumFunctionOnSet(MoneyOf(folio'), Subjects) = SumFunctionOnSet(MoneyOf(folio), Subjects)
  BY <1>2, <1>3, SumSame, SubjectsAssumption
<1> QED BY <1>4, TotalsAreSums

\* Once the experiment runs, money enters only as the dividend of a round,
\* once for each net share; trades, creations, retractions and the changes of
\* phase only move it between the accounts.
THEOREM MoneyIsConserved == Spec => OnlyDividendsAddMoney
<1>1. ASSUME MarketInvariant, [Next]_vars PROVE [MoneyStep]_vars
  <2>1. BookInvariant /\ TypeOK /\ TypeOK' /\ folio \in [Subjects -> Portfolio]
    BY <1>1, TypeStep DEF MarketInvariant, BookInvariant, TypeOK
  <2>2. NetShares(folio) \in Int /\ Money(folio) \in Int
    BY <2>1, TotalsAreSums
  <2>3. ASSUME folio' = folio, ~(callback = "EndRound" /\ callback' = "EndReview")
        PROVE  MoneyStep
    BY <2>2, <2>3 DEF MoneyStep
  <2>4. ASSUME NEW p \in Subjects, TakeBid(p) \/ TakeAsk(p) PROVE MoneyStep
    <3>1. PICK o \in Offer :
            /\ callback' = callback
            /\ \/ UNCHANGED <<bids, asks, folio>>
               \/ Rests(o) \/ \E r \in OtherSide(o) : Fills(o, r)
      BY <2>1, <2>4, OfferCases
    <3>2. CASE folio' = folio
      BY <2>3, <3>1, <3>2
    <3>3. ASSUME NEW r \in OtherSide(o), Fills(o, r) PROVE MoneyStep
      <4>1. TradeWith(o, r) \in TradeRecord
            /\ TradeWith(o, r).buyer # TradeWith(o, r).seller
            /\ folio' = Settle(folio, TradeWith(o, r))
        BY <2>1, <3>3, TradeWithFact DEF Fills, OtherSide, TypeOK
      <4>2. NetShares(folio') = NetShares(folio) /\ Money(folio') = Money(folio)
        BY <2>1, <4>1, SettleKeepsTotals
      <4> QED BY <2>2, <3>1, <4>2 DEF MoneyStep
    <3> QED BY <3>1, <3>2, <3>3 DEF Rests
  <2>5. ASSUME NEW p \in Subjects, CreateAsset(p) PROVE MoneyStep
    <3>1. NetShares(folio') = NetShares(folio) /\ Money(folio') = Money(folio)
          /\ callback' = callback
      BY <2>1, <2>5, CreateKeepsTotals DEF CreateAsset
    <3> QED BY <2>2, <3>1 DEF MoneyStep
  <2>6. CASE EndRound
    <3>1. Dividend[exp.round] \in Nat
      BY <2>1, <2>6, RoundsAssumption DEF EndRound, TypeOK
    <3>2. folio' = PayDividend(folio, Dividend[exp.round])
          /\ callback = "EndRound" /\ callback' = "EndReview"
      BY <2>6 DEF EndRound
    <3> QED BY <2>1, <3>1, <3>2, DividendAddsMoney DEF MoneyStep
  <2>7. CASE StartExperiment
    BY <2>7 DEF StartExperiment, MoneyStep
  <2>8. ASSUME NEW p \in Subjects, RetractOffer(p) PROVE MoneyStep
    BY <2>3, <2>8 DEF RetractOffer
  <2>9. CASE StartInstructions \/ EndReview \/ EndEarly \/ Tick
    BY <2>3, <2>9 DEF StartInstructions, EndReview, EndEarly, Tick
  <2> QED BY <1>1, <2>4, <2>5, <2>6, <2>7, <2>8, <2>9
        DEF Next, ClientRequest, TimerExpires, AdminCommand
<1> QED BY MarketAlways, <1>1, PTL DEF Spec, OnlyDividendsAddMoney

=============================================================================
