------------------------------ MODULE Trading ------------------------------
(***************************************************************************)
(* The trading server: OfferProcessorMarket behind ClientController, with  *)
(* the part of ExperimentController that opens and closes the market.      *)
(* Every handler runs to completion on the one io_context thread, so each  *)
(* is one action.                                                          *)
(***************************************************************************)
EXTENDS Market, ExperimentState

CONSTANTS
  Subjects,           \* subjects that have joined
  Creators,           \* subjects whose configuration has is_creator
  InitCash, InitShares,  \* init_alloc, per subject
  NRounds,            \* n_rounds
  Dividend,           \* dividend of each round
  MarginReq,          \* margin_req of each round
  FirstCreateRound,   \* first_create_round
  ImprovementRule,    \* improvement_rule
  ReplaceOfferRule,   \* replace_offer_rule
  EPerDollar,         \* eperdollar, taken as a whole number
  PriceLimit,         \* 999 in the code
  BidPrices,          \* prices carried by Bid messages
  AskPrices,          \* prices carried by Ask messages
  MaxTime,            \* bound: milliseconds the round timer is observed for
  MaxOffers           \* bound: offers submitted in a run

ASSUME RoundsAssumption ==
  /\ NRounds \in Nat \ {0}
  /\ Dividend \in [1..NRounds -> Nat]
  /\ MarginReq \in [1..NRounds -> Nat]
  /\ FirstCreateRound \in Nat

ASSUME SubjectsAssumption ==
  /\ IsFiniteSet(Subjects)
  /\ Creators \subseteq Subjects
  /\ InitCash \in [Subjects -> Nat]
  /\ InitShares \in [Subjects -> Nat]
  /\ EPerDollar \in Nat \ {0}

ASSUME MarketAssumption ==
  /\ BidPrices \subseteq Int
  /\ AskPrices \subseteq Int
  /\ PriceLimit \in Nat
  /\ MaxTime \in Nat
  /\ MaxOffers \in Nat
  /\ ImprovementRule \in BOOLEAN
  /\ ReplaceOfferRule \in BOOLEAN

-----------------------------------------------------------------------------
(* State                                                                   *)

VARIABLES
  bids, asks,   \* Market::bids_, asks_
  folio,        \* PortfolioSet, shared with PeriodAssetProcessor
  payoff,       \* Subject::payoff_cents
  exp,          \* ExperimentState
  callback,     \* the callback registered on the running round timer
  clock,        \* PausableTimer::GetTimeElapsed, in milliseconds
  id,           \* ClientController::id, the next offer id
  result        \* what the last handler reports to the clients

vars == <<bids, asks, folio, payoff, exp, callback, clock, id, result>>

Offer == [id : Nat, player_id : Subjects, price : Int, time_elapsed : Nat]

Portfolio == [Cash : Int, Shares : Int, Margin : Int, Derivatives : Int]

EmptyPortfolio == [Cash |-> 0, Shares |-> 0, Margin |-> 0, Derivatives |-> 0]

InitAlloc(p) ==
  [Cash |-> InitCash[p], Shares |-> InitShares[p], Margin |-> 0, Derivatives |-> 0]

\* offer and trade are optional, retracts the ids that were retracted
Reporting(validity, offer, trade, retracts) ==
  [validity |-> validity, offer |-> offer,
   trade |-> trade, retracts |-> retracts]

JustReporting(validity) == Reporting(validity, {}, {}, {})

Init ==
  /\ bids = {} /\ asks = {}
  /\ folio = [p \in Subjects |-> EmptyPortfolio]
  /\ payoff = [p \in Subjects |-> 0]
  /\ exp = InitialState
  /\ callback = "None"
  /\ clock = 0
  /\ id = 0
  /\ result = JustReporting("None")

-----------------------------------------------------------------------------
(* Submitting an offer                                                     *)

IsAsk(o) == o.price < 0

SameSide(o) == IF IsAsk(o) THEN asks ELSE bids

OtherSide(o) == IF IsAsk(o) THEN bids ELSE asks

\* Can o trade with x, an offer of the other side?
Crosses(o, x) == IF IsAsk(o) THEN CanTrade(x, o) ELSE CanTrade(o, x)

\* Mutant: the new ask itself is not counted.
CoveredOffByOne(o) ==
  LET port == folio[o.player_id] IN
  IF IsAsk(o)
  THEN port.Shares >= Cardinality(OffersOf(asks, o.player_id))
  ELSE port.Cash >= o.price + TotalPrice(OffersOf(bids, o.player_id))

\* Mutant: every bid is compared with the cash by itself.
CoveredOneByOne(o) ==
  LET port == folio[o.player_id] IN
  IF IsAsk(o)
  THEN port.Shares > Cardinality(OffersOf(asks, o.player_id))
  ELSE port.Cash >= o.price

\* Every own ask needs a share of its own, and the own bids together the cash.
Covered(o) ==
  LET port == folio[o.player_id] IN
  IF IsAsk(o)
  THEN port.Shares > Cardinality(OffersOf(asks, o.player_id))
  ELSE port.Cash >= o.price + TotalPrice(OffersOf(bids, o.player_id))

\* Mutant: an offer may equal the standing one.
ImprovesOrEquals(o, standing) == \A best \in standing : best.price <= o.price

\* standing is the (optional) standing offer of the same side.
Improves(o, standing) == \A best \in standing : ~AtLeast(best, o)

\* The checks of ProcessOffer in the order of its early returns;
\* opposite is the (optional) standing offer of the other side.
Validity(o, standing, opposite) ==
  IF ~IsMarketOpen(exp) THEN "RejectedMarketClosed"
  ELSE IF ~Covered(o) /\ IsAsk(o) THEN "RejectedInsufficientUnits"
  ELSE IF ~Covered(o) THEN "RejectedInsufficientCash"
  ELSE IF ImprovementRule /\ ~Improves(o, standing) THEN "RejectedNonImproving"
  ELSE IF \E x \in opposite : x.player_id = o.player_id /\ Crosses(o, x)
       THEN "RejectedTradeWithSelf"
  ELSE IF o.price < -PriceLimit \/ o.price > PriceLimit
       THEN "RejectedPriceOutOfRange"
  ELSE "Accepted"

\* Mutant: the seller is not paid.
SettleUnpaid(port, t) ==
  [port EXCEPT ![t.buyer].Shares  = @ + 1,
               ![t.seller].Shares = @ - 1,
               ![t.buyer].Cash    = @ - t.price]

\* ProcessTrade
Settle(port, t) ==
  [port EXCEPT ![t.buyer].Shares  = @ + 1,
               ![t.seller].Shares = @ - 1,
               ![t.buyer].Cash    = @ - t.price,
               ![t.seller].Cash   = @ + t.price]

\* Mutant: the offers of the other side are retracted.
ReplacedOpposite(o) ==
  IF ReplaceOfferRule THEN IdsOf(OffersOf(OtherSide(o), o.player_id)) ELSE {}

\* With replace_offer_rule the own offers of the side are retracted.
Replaced(o) ==
  IF ReplaceOfferRule THEN IdsOf(OffersOf(SameSide(o), o.player_id)) ELSE {}

\* ProcessOffer once every check has passed: the replaced offers are retracted
\* (by id, from both sides), the offer is added, and at most one trade is
\* popped: that of the two standing offers.
Accept(o, opposite) ==
  \E mine \in StandingOffer(Retract(SameSide(o), Replaced(o)) \cup {o}) :
    LET trade == IF IsAsk(o) THEN PeekPotentialTrade(opposite, mine)
                             ELSE PeekPotentialTrade(mine, opposite)
    IN /\ bids' = Retract(Retract(bids, Replaced(o)) \cup
                            (IF IsAsk(o) THEN {} ELSE {o}),
                          {t.bid_id : t \in trade})
       /\ asks' = Retract(Retract(asks, Replaced(o)) \cup
                            (IF IsAsk(o) THEN {o} ELSE {}),
                          {t.ask_id : t \in trade})
       /\ IF trade = {} THEN folio' = folio
          ELSE \E t \in trade : folio' = Settle(folio, t)
       /\ result' = Reporting("Accepted", {o}, trade, Replaced(o))

ProcessOffer(o) ==
  \E standing \in StandingOffer(SameSide(o)),
     opposite \in StandingOffer(OtherSide(o)) :
    LET validity == Validity(o, standing, opposite) IN
    IF validity = "Accepted" THEN Accept(o, opposite)
    ELSE /\ result' = Reporting(validity, {o}, {}, {})
         /\ UNCHANGED <<bids, asks, folio>>

\* ClientController::MakeOffer
MakeOffer(player_id, price) ==
  [id |-> id, player_id |-> player_id, price |-> price, time_elapsed |-> clock]

\* Mutant: the id is not advanced.
TakeOfferReusingId(player_id, price) ==
  /\ id < MaxOffers
  /\ id' = id
  /\ ProcessOffer(MakeOffer(player_id, price))
  /\ UNCHANGED <<payoff, exp, callback, clock>>

\* ClientController::TakeOffer.  An id is used up by a rejected offer too.
TakeOffer(player_id, price) ==
  /\ id < MaxOffers
  /\ id' = id + 1
  /\ ProcessOffer(MakeOffer(player_id, price))
  /\ UNCHANGED <<payoff, exp, callback, clock>>

TakeBid(p) == \E price \in BidPrices : TakeOffer(p, price)

\* The controller negates the price of an Ask; the sign alone decides the side.
TakeAsk(p) == \E price \in AskPrices : TakeOffer(p, -price)

-----------------------------------------------------------------------------
(* Retracting an offer and creating a share                                *)

\* ProcessRetract; an id is looked up among the bids first
RetractValidity(p, offer_id) ==
  LET found == IF offer_id \in IdsOf(bids) THEN {o \in bids : o.id = offer_id}
               ELSE {o \in asks : o.id = offer_id}
  IN IF ~IsMarketOpen(exp) THEN "RetractRejectedMarketClosed"
     ELSE IF found = {} THEN "RetractRejectedNonExistent"
     ELSE IF \E o \in found : o.player_id # p
          THEN "RetractRejectedOwnerMismatch"
     ELSE "RetractAccepted"

\* A client knows the ids that have been given out; id stands for any other.
RetractOffer(p) ==
  \E offer_id \in 0..id :
    LET validity == RetractValidity(p, offer_id)
        gone == IF validity = "RetractAccepted" THEN {offer_id} ELSE {}
    IN /\ bids' = Retract(bids, gone)
       /\ asks' = Retract(asks, gone)
       /\ result' = Reporting(validity, {}, {}, gone)
       /\ UNCHANGED <<folio, payoff, exp, callback, clock, id>>

\* ProcessCreate.  The cash promised to outstanding bids is not looked at.
CreateValidity(p) ==
  IF ~IsMarketOpen(exp) THEN "CreateRejectedMarketClosed"
  ELSE IF exp.round < FirstCreateRound \/ p \notin Creators
       THEN "CreateRejectedCannotCreate"
  ELSE IF folio[p].Cash < MarginReq[exp.round]
       THEN "CreateRejectedInsufficientCash"
  ELSE "CreateAccepted"

CreateAsset(p) ==
  /\ result' = JustReporting(CreateValidity(p))
  /\ folio' = IF CreateValidity(p) # "CreateAccepted" THEN folio
              ELSE [folio EXCEPT
                      ![p].Derivatives = @ + 1,
                      ![p].Shares      = @ + 1,
                      ![p].Margin      = @ + MarginReq[exp.round],
                      ![p].Cash        = @ - MarginReq[exp.round]]
  /\ UNCHANGED <<bids, asks, payoff, exp, callback, clock, id>>

-----------------------------------------------------------------------------
(* Opening and closing the market                                          *)

\* ExperimentController::StartRound after the experiment was in state e
StartRound(e) ==
  /\ exp' = NextRound(e)
  /\ callback' = "EndRound"
  /\ clock' = 0
  /\ result' = JustReporting("RoundStarted")

\* Accepted only when every configured player has joined, as Subjects have.
StartInstructions ==
  /\ exp.status = "NotStarted"
  /\ exp' = WithStage(exp, "Instructions")
  /\ UNCHANGED <<bids, asks, folio, payoff, callback, clock, id, result>>

StartExperiment ==
  /\ exp.status = "NotStarted"
  /\ folio' = [p \in Subjects |-> InitAlloc(p)]
  /\ StartRound(WithStatus(exp, "Running"))
  /\ UNCHANGED <<bids, asks, payoff, id>>

\* Mutant: created shares earn, and their creators do not pay.
PayDividendForFree(port, dividend) ==
  [p \in Subjects |->
    [port[p] EXCEPT !.Cash = @ + port[p].Shares * dividend]]

\* PeriodAssetProcessor::PayDividend
PayDividend(port, dividend) ==
  [p \in Subjects |->
    [Cash        |-> port[p].Cash + port[p].Shares * dividend,
     Shares      |-> port[p].Shares,
     Margin      |-> port[p].Margin - port[p].Derivatives * dividend,
     Derivatives |-> port[p].Derivatives]]

\* Mutant: the book is kept.
EndRoundKeepingBook ==
  /\ callback = "EndRound"
  /\ folio' = PayDividend(folio, Dividend[exp.round])
  /\ exp' = WithStage(exp, "Review")
  /\ callback' = "EndReview"
  /\ clock' = 0
  /\ result' = JustReporting("ReviewStarted")
  /\ UNCHANGED <<bids, asks, payoff, id>>

\* The timer callback EndRound: one synchronous chain that clears the book,
\* pays the dividend and starts the review phase and its timer.
EndRound ==
  /\ callback = "EndRound"
  /\ bids' = {} /\ asks' = {}
  /\ folio' = PayDividend(folio, Dividend[exp.round])
  /\ exp' = WithStage(exp, "Review")
  /\ callback' = "EndReview"
  /\ clock' = 0
  /\ result' = JustReporting("ReviewStarted")
  /\ UNCHANGED <<payoff, id>>

\* (cash + margin) * 100 / eperdollar, truncated towards zero
PayoffCents(port) ==
  LET total == (port.Cash + port.Margin) * 100
  IN IF total >= 0 THEN total \div EPerDollar ELSE -((-total) \div EPerDollar)

StartPayouts ==
  /\ payoff' = [p \in Subjects |-> PayoffCents(folio[p])]
  /\ exp' = WithStage(exp, "Payouts")
  /\ result' = JustReporting("PayoutsStarted")

\* Mutant: one round too many.
EndReviewOneTooMany ==
  /\ callback = "EndReview"
  /\ IF exp.round <= NRounds
     THEN StartRound(exp) /\ UNCHANGED payoff
     ELSE StartPayouts /\ callback' = "None" /\ UNCHANGED clock
  /\ UNCHANGED <<bids, asks, folio, id>>

\* The timer callback EndReview
EndReview ==
  /\ callback = "EndReview"
  /\ IF exp.round < NRounds
     THEN StartRound(exp) /\ UNCHANGED payoff
     ELSE StartPayouts /\ callback' = "None" /\ UNCHANGED clock
  /\ UNCHANGED <<bids, asks, folio, id>>

\* The admin's EndEarly.  It neither stops the timer nor clears the book.
\* Before the experiment has started it ends the server: see Lifecycle.
EndEarly ==
  /\ exp.status # "NotStarted"
  /\ StartPayouts
  /\ UNCHANGED <<bids, asks, folio, callback, clock, id>>

\* Time passes in steps of a millisecond, or not at all between two messages.
Tick ==
  /\ callback # "None"
  /\ clock < MaxTime
  /\ clock' = clock + 1
  /\ UNCHANGED <<bids, asks, folio, payoff, exp, callback, id, result>>

-----------------------------------------------------------------------------
ClientRequest ==
  \E p \in Subjects :
    TakeBid(p) \/ TakeAsk(p) \/ RetractOffer(p) \/ CreateAsset(p)

TimerExpires == EndRound \/ EndReview

AdminCommand == StartInstructions \/ StartExperiment \/ EndEarly

Next == ClientRequest \/ TimerExpires \/ AdminCommand \/ Tick

Spec == Init /\ [][Next]_vars

-----------------------------------------------------------------------------
(* Properties                                                              *)

TradeRecord == [buyer : Subjects, seller : Subjects, price : Int,
                bid_id : Nat, ask_id : Nat]

Verdicts ==
  {"None", "Accepted", "RejectedMarketClosed", "RejectedInsufficientUnits",
   "RejectedInsufficientCash", "RejectedNonImproving", "RejectedTradeWithSelf",
   "RejectedPriceOutOfRange",
   "RetractAccepted", "RetractRejectedMarketClosed",
   "RetractRejectedNonExistent", "RetractRejectedOwnerMismatch",
   "CreateAccepted", "CreateRejectedMarketClosed",
   "CreateRejectedCannotCreate", "CreateRejectedInsufficientCash",
   "RoundStarted", "ReviewStarted", "PayoutsStarted"}

Report == [validity : Verdicts, offer : SUBSET Offer,
           trade : SUBSET TradeRecord, retracts : SUBSET Nat]

\* The types of the variables.  The round never leaves the range that the
\* per-round configuration is indexed with, and a timer runs only in a round.
TypeOK ==
  /\ bids \subseteq Offer /\ IsFiniteSet(bids)
  /\ asks \subseteq Offer /\ IsFiniteSet(asks)
  /\ folio \in [Subjects -> Portfolio]
  /\ payoff \in [Subjects -> Int]
  /\ exp \in [round : 0..NRounds, status : Status, stage : Stage]
  /\ callback \in {"None", "EndRound", "EndReview"}
  /\ callback # "None" => exp.round \in 1..NRounds
  /\ IsMarketOpen(exp) => callback = "EndRound"
  /\ exp.status = "NotStarted" =>
       /\ exp.round = 0
       /\ exp.stage \in {"PreExperiment", "Instructions"}
       /\ callback = "None"
  /\ clock \in Nat
  /\ id \in Nat
  /\ result \in Report

\* No bid and ask that could trade are left in the book, although Market pops
\* at most one trade for every offer it takes (market.cc:75-78).
Uncrossed == \A b \in bids, a \in asks : ~CanTrade(b, a)

\* The sign of the price tells the side, and no id names two offers of the
\* book: Retract erases by id on both sides (market.cc:32-35).
BookIsKeyedById ==
  /\ \A b \in bids : b.price >= 0
  /\ \A a \in asks : a.price < 0
  /\ \A x, y \in bids \cup asks : x.id = y.id => x = y

\* A subject owns a share for each of its outstanding asks, so no trade can
\* sell a share that is not there (offer_processor_market.cc:23-30).
AsksCovered ==
  \A p \in Subjects : Cardinality(OffersOf(asks, p)) <= folio[p].Shares

\* The outstanding bids of a subject together never promise more than its
\* cash, unless it has created a share: ProcessCreate takes the margin from
\* the cash without a look at the bids (offer_processor_market.cc:31-42).
BidsCovered ==
  \A p \in Subjects :
    folio[p].Derivatives = 0 => TotalPrice(OffersOf(bids, p)) <= folio[p].Cash

\* A trade is between the incoming offer and the best offer of the other
\* side: none there had a better price, or the same price at an earlier time;
\* the parties differ; the price satisfies both and is that of the resting
\* offer whenever the two times differ.
FairTradeStep ==
  id' # id =>
    \A o \in result'.offer, t \in result'.trade :
      LET resting == {x \in OtherSide(o) : x.id \in {t.bid_id, t.ask_id}}
      IN /\ t.buyer # t.seller
         /\ o.id = IF IsAsk(o) THEN t.ask_id ELSE t.bid_id
         /\ resting # {}
         /\ \A r \in resting :
              /\ \A x \in OtherSide(o) : AtLeast(r, x)
              /\ IF IsAsk(o) THEN -o.price <= t.price /\ t.price <= r.price
                             ELSE -r.price <= t.price /\ t.price <= o.price
              /\ r.time_elapsed # o.time_elapsed =>
                   t.price = IF IsAsk(o) THEN r.price ELSE -r.price

\* Every trade of every step is fair in that sense.
FairTrade == [][FairTradeStep]_vars

\* With improvement_rule the newest offer of a side is always its best one,
\* also after retractions and trades (offer_processor_market.cc:44-56).
NewestIsBest ==
  ImprovementRule =>
    \A side \in {bids, asks} : \A x, y \in side :
      x.id < y.id => x.price < y.price

\* With replace_offer_rule a subject has at most one bid and one ask
\* (offer_processor_market.cc:74-91).
OneOfferPerSide ==
  ReplaceOfferRule =>
    \A side \in {bids, asks} : \A x, y \in side :
      x.player_id = y.player_id => x = y

\* The invariant that the steps preserve: the properties above together with
\* what they rest on.  Offers of the book are older than the next id and the
\* running clock, their prices are in range, and there are none unless a
\* round's timer is running; StartRound never starts over at round one.
BookInvariant ==
  /\ TypeOK
  /\ Uncrossed
  /\ BookIsKeyedById
  /\ AsksCovered
  /\ NewestIsBest
  /\ OneOfferPerSide
  /\ \A x \in bids \cup asks :
       /\ x.id < id /\ x.time_elapsed <= clock
       /\ x.price \in -PriceLimit..PriceLimit
  /\ callback # "EndRound" => bids = {} /\ asks = {}
  /\ callback # "None" => exp.stage # "PreExperiment"

\* What the steps preserve altogether: the book, the cash promised to bids,
\* and that only the subjects that may create shares ever owe for one.
DerivativesOK ==
  /\ \A p \in Subjects : folio[p].Derivatives >= 0
  /\ \A p \in Subjects \ Creators : folio[p].Derivatives = 0

MarketInvariant == BookInvariant /\ BidsCovered /\ DerivativesOK

NetShares(port) ==
  SumFunction([p \in Subjects |-> port[p].Shares - port[p].Derivatives])

Money(port) == SumFunction([p \in Subjects |-> port[p].Cash + port[p].Margin])

\* Trades and creations move shares and money between accounts: shares less
\* derivatives never change, and money enters only as the round's dividend,
\* once, for each share that is not a created one.
MoneyStep ==
  exp.status # "NotStarted" =>
    /\ NetShares(folio') = NetShares(folio)
    /\ Money(folio') = Money(folio)
         + (IF callback = "EndRound" /\ callback' = "EndReview"
            THEN Dividend[exp.round] * NetShares(folio) ELSE 0)

\* Every step keeps the accounts in that way.
OnlyDividendsAddMoney == [][MoneyStep]_vars

\* A round starts with an empty book, and while the market is closed the book
\* and the holdings change only by the end of the round.
ClosedMarketStep ==
  /\ exp'.round # exp.round => bids' = {} /\ asks' = {}
  /\ ~IsMarketOpen(exp) =>
       \/ UNCHANGED <<bids, asks, folio>>
       \/ callback' # callback /\ bids' = {} /\ asks' = {}

\* Every step respects the closed market.
ClosedMarketIsStill == [][ClosedMarketStep]_vars

-----------------------------------------------------------------------------
(* The ledger this server implements                                       *)

DividendsPaid == IF callback = "EndRound" THEN exp.round - 1 ELSE exp.round

HoldingsLedger == INSTANCE Ledger WITH
  started <- exp.status # "NotStarted",
  paid <- DividendsPaid

\* Every step of the server is a step of the ledger on the holdings or leaves
\* them alone: a seller owns the share it sells, a creator pays the margin of
\* the running round, every round pays its own dividend exactly once.
ImplementsLedger == HoldingsLedger!Spec

-----------------------------------------------------------------------------
(* What the documents and messages of the program say, and its code does   *)
(* not do                                                                  *)

\* Offers and creations are refused for "Insufficient Cash", so cash should
\* never become negative.  ProcessCreate does not look at outstanding bids.
CashNeverNegative == \A p \in Subjects : folio[p].Cash >= 0

\* "If you submit a Bid that is higher than the current high Bid, then your
\* new Bid will replace your previous Bid": a bid that improves and that the
\* subject can pay is not refused on account of the bid it would replace.
ImprovingBidReplaces ==
  [][\A o \in result'.offer :
      (id' # id /\ ReplaceOfferRule /\ ~IsAsk(o)
         /\ \E best \in StandingOffer(bids) : Improves(o, best)
         /\ folio[o.player_id].Cash >= o.price)
      => result'.validity # "RejectedInsufficientCash"]_vars

\* "When a trader submits a Bid that is equal to or greater than some trader's
\* Ask, a trade occurs at a price equal to the trader's Ask."
BidTradesAtAsk ==
  [][\A o \in result'.offer, t \in result'.trade :
      (id' # id /\ ~IsAsk(o)) =>
        \A a \in asks : a.id = t.ask_id => t.price = -a.price]_vars

\* "End Early": after the admin has ended the experiment its payouts stand.
PayoutsAreFinal ==
  [][exp.stage = "Payouts" => exp'.stage = "Payouts"]_vars

=============================================================================
