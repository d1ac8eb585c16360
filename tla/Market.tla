------------------------------- MODULE Market -------------------------------
(***************************************************************************)
(* The limit order book of temp_src/market: offers and their order         *)
(* (offer.hh), one side of the book (offer_queue.cc) and the matching of   *)
(* the two sides (market.cc), as operators on sets of offers.              *)
(*                                                                         *)
(* An offer is a record [id, player_id, price, time_elapsed].  Asks carry  *)
(* a negative price, so one order serves both sides: the greater offer is  *)
(* the better one.  A side is a set: the vector of the code is kept sorted *)
(* by an unstable sort, so the order of offers that compare equal is not   *)
(* determined, and "the offer at the back" is any of the greatest ones.    *)
(***************************************************************************)
EXTENDS Integers, FiniteSetsExt

\* Offer::operator<=>, the case a >= b: price first, then the earlier offer.
AtLeast(a, b) ==
  \/ a.price > b.price
  \/ a.price = b.price /\ a.time_elapsed <= b.time_elapsed

\* A std::optional is the empty set or a singleton.  OfferQueue::StandingOffer
\* returns the back of the sorted vector: the choices are the greatest offers.
StandingOffer(side) ==
  IF side = {} THEN {{}}
  ELSE {{best} : best \in {o \in side : \A x \in side : AtLeast(o, x)}}

\* OfferQueue::Offers(player_id)
OffersOf(side, player_id) == {o \in side : o.player_id = player_id}

\* OfferQueue::Retract, for every id of a set
Retract(side, ids) == {o \in side : o.id \notin ids}

IdsOf(offers) == {o.id : o \in offers}

\* The loop of ProcessOffer that adds up the prices of a player's bids
TotalPrice(offers) == SumFunction([o \in offers |-> o.price])

CanTrade(bid, ask) == bid.price + ask.price >= 0

\* Mutant: the newer of the two offers sets the price.
TradePriceOfNewer(bid, ask) ==
  IF bid.time_elapsed > ask.time_elapsed THEN bid.price ELSE -ask.price

\* The older of the two offers sets the price.
TradePrice(bid, ask) ==
  IF bid.time_elapsed > ask.time_elapsed THEN -ask.price ELSE bid.price

Trade(bid, ask) ==
  [buyer |-> bid.player_id, seller |-> ask.player_id,
   price |-> TradePrice(bid, ask), bid_id |-> bid.id, ask_id |-> ask.id]

\* Mutant: equal prices do not trade.
PeekStrictlyBetter(standing_bid, standing_ask) ==
  IF \E b \in standing_bid, a \in standing_ask : b.price + a.price > 0
  THEN {Trade(b, a) : b \in standing_bid, a \in standing_ask}
  ELSE {}

\* Market::PeekPotentialTrade on the two (optional) standing offers
PeekPotentialTrade(standing_bid, standing_ask) ==
  IF \E b \in standing_bid, a \in standing_ask : CanTrade(b, a)
  THEN {Trade(b, a) : b \in standing_bid, a \in standing_ask}
  ELSE {}

=============================================================================
