\* replace_offer_rule is on; the viewer may create shares in the second round.
SPECIFICATION MirrorSpec
CONSTANTS
  alice = alice
  bob = bob
  Viewer = alice
  Subjects = {alice, bob}
  Creators = {alice}
  InitCash <- MCInitCash
  InitShares <- MCInitShares
  NRounds = 2
  Dividend <- MCDividend
  MarginReq <- MCMarginReq
  FirstCreateRound = 2
  ImprovementRule = FALSE
  ReplaceOfferRule = TRUE
  EPerDollar = 3
  PriceLimit = 2
  BidPrices = {1, 2}
  AskPrices = {2}
  MaxTime = 0
  MaxOffers = 3
  MaxInFlight = 1
  MarginMax <- MCMarginMax
  Modulus = 64
INVARIANTS
  ViewCatchesUp
  AdminCatchesUp
  ViewIsABook
PROPERTIES
  ReviewAddsUp
