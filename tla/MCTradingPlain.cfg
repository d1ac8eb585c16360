\* No subject may create shares; neither rule is on.
SPECIFICATION Spec
CONSTANTS
  alice = alice
  bob = bob
  Subjects = {alice, bob}
  Creators = {}
  InitCash <- MCInitCash
  InitShares <- MCInitShares
  NRounds = 2
  Dividend <- MCDividend
  MarginReq <- MCMarginReq
  FirstCreateRound = 1
  ImprovementRule = FALSE
  ReplaceOfferRule = FALSE
  EPerDollar = 3
  PriceLimit = 2
  BidPrices = {1, 2, 3}
  AskPrices = {0, 1, 2}
  MaxTime = 1
  MaxOffers = 4
INVARIANTS
  TypeOK
  Uncrossed
  BookIsKeyedById
  AsksCovered
  BidsCovered
PROPERTIES
  FairTrade
  ClosedMarketIsStill
