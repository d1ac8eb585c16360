\* replace_offer_rule and improvement_rule, as in the instructions.
SPECIFICATION Spec
CONSTANTS
  alice = alice
  bob = bob
  Subjects = {alice, bob}
  Creators = {}
  InitCash <- MCInitCash
  InitShares <- MCInitShares
  NRounds = 1
  Dividend <- MCDividend
  MarginReq <- MCMarginReq
  FirstCreateRound = 1
  ImprovementRule = TRUE
  ReplaceOfferRule = TRUE
  EPerDollar = 3
  PriceLimit = 3
  BidPrices = {1, 2, 3}
  AskPrices = {1, 2}
  MaxTime = 1
  MaxOffers = 3
PROPERTIES
  ImprovingBidReplaces
