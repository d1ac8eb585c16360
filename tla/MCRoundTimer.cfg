\* Two rounds; Pause and Resume are called at any time, up to four times; one
\* offer or retraction is accepted in each round.
SPECIFICATION ClockSpec
CONSTANTS
  RoundTime = 3
  ReviewTime = 2
  NRounds = 2
  MaxDelay = 2
  MaxPauses = 4
  MaxAccepted = 1
  Modulus = 64
INVARIANTS
  TypeOK
  OneCompletion
  ClockNeverShort
  ClockBelievable
PROPERTIES
  OffersKeepTheirOrder
  PhasesLast
  PhasesEnd
CHECK_DEADLOCK FALSE
