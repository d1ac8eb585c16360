\* Two offers within one millisecond.
SPECIFICATION Spec
CONSTANTS
  alice = alice
  bob = bob
  Subjects = {alice, bob}
  Creators = {}
  InitCash <- MCInitCash
  InitShares <- MCInitShares
  NRounds = 1
  Dividend <- MCDividend
  MarginReq <- MCMarginReq
  FirstCreateRound = 1
  ImprovementRule = FALSE
  ReplaceOfferRule = FALSE
  EPerDollar = 3
  PriceLimit = 2
  BidPrices = {1, 2, 3}
  AskPrices = {1, 2}
  MaxTime = 1
  MaxOffers = 3
PROPERTIES
  BidTradesAtAsk
