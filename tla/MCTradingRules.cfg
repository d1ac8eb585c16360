\* Both rules are on; alice may create shares from the second round on.
SPECIFICATION Spec
CONSTANTS
  alice = alice
  bob = bob
  Subjects = {alice, bob}
  Creators = {alice}
  InitCash <- MCInitCash
  InitShares <- MCInitShares
  NRounds = 2
  Dividend <- MCDividend
  MarginReq <- MCMarginReq
  FirstCreateRound = 2
  ImprovementRule = TRUE
  ReplaceOfferRule = TRUE
  EPerDollar = 3
  PriceLimit = 2
  BidPrices = {1, 2, 3}
  AskPrices = {1, 2}
  MaxTime = 1
  MaxOffers = 4
INVARIANTS
  MarketInvariant
  NewestIsBest
  OneOfferPerSide
PROPERTIES
  OnlyDividendsAddMoney
  ImplementsLedger
