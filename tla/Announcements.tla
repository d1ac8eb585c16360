---------------------------- MODULE Announcements ----------------------------
(***************************************************************************)
(* The trading server together with what it sends: every handler of        *)
(* Trading with its calls of Send and SendAll, in the order of the code,   *)
(* as far as they reach the one program that is followed, that of a        *)
(* subject or an admin's.  A connection delivers them in order: see        *)
(* Connection.  Messages that are only printed are left out, and those     *)
(* about the time are in ClientClock.                                      *)
(***************************************************************************)
EXTENDS Trading, TextForms, SequencesExt

CONSTANTS
  Viewer,        \* the subject whose program may be followed
  MarginMax,     \* margin_max of each round
  MaxInFlight    \* bound: messages on their way when the server acts

ASSUME ViewerAssumption ==
  /\ Viewer \in Subjects
  /\ MarginMax \in [1..NRounds -> Nat]
  /\ MaxInFlight \in Nat

VARIABLES
  program,   \* the program that is followed: "client" or "admin"
  inbox      \* the messages sent to it and not handled yet

-----------------------------------------------------------------------------
(* Addressing                                                              *)

\* copy is the text that the admins get.
SendAll(type, body) ==
  <<[type |-> type, to |-> Subjects, body |-> body, copy |-> body]>>

\* Mutant: the admins get no copy.
SendUncopied(p, type, body) ==
  IF program = "admin" THEN <<>>
  ELSE <<[type |-> type, to |-> {p}, body |-> body, copy |-> body \o <<p>>]>>

\* The copy of a message to one subject has its number at the end.
Send(p, type, body) ==
  <<[type |-> type, to |-> {p}, body |-> body, copy |-> body \o <<p>>]>>

\* What of one message reaches the program: its body, the admins' copy, nothing
Copies(m) ==
  IF program = "admin" THEN <<[type |-> m.type, body |-> m.copy]>>
  ELSE IF Viewer \in m.to THEN <<[type |-> m.type, body |-> m.body]>>
  ELSE <<>>

\* The part of what a handler sends that reaches the program
Delivered(messages) ==
  FlattenSeq([i \in DOMAIN messages |-> Copies(messages[i])])

Sends(messages) ==
  /\ inbox' = inbox \o Delivered(messages)
  /\ UNCHANGED program

\* What each subject is sent, in the order in which they joined
ForEachSubject(messages) ==
  FlattenSeq([i \in DOMAIN SetToSeq(Subjects) |-> messages[SetToSeq(Subjects)[i]]])

-----------------------------------------------------------------------------
(* The messages                                                            *)

SendPortfolio(p) == Send(p, "Portfolio", WriteSubjectPortfolio(p, folio'[p]))

\* GetSubjectConfiguration
Settings(p) ==
  [instructions_filename |-> {[blanks |-> 0, text |-> "trader.txt"]},
   init_alloc |-> InitAlloc(p), is_creator |-> p \in Creators,
   eperdollar |-> EPerDollar]

SendConfiguration(p) ==
  Send(p, "SubjectConfiguration", WriteSubjectConfiguration(Settings(p)))

\* GetRoundConfiguration
RoundSettings(round) ==
  [round |-> round, can_create |-> round >= FirstCreateRound,
   dividend |-> Dividend[round], margin_req |-> MarginReq[round],
   margin_max |-> MarginMax[round]]

RoundNews ==
  SendAll("RoundStarted", WriteRoundConfiguration(RoundSettings(exp'.round)))

AcceptedRetraction(p, offer_id) ==
  [validity |-> "RetractAccepted", request |-> [id |-> p, offer_id |-> offer_id]]

\* The result of ProcessOffer for an offer of p
SubmissionResult(p) ==
  [validity |-> result'.validity,
   offer    |-> TheOnly(result'.offer),
   trade    |-> result'.trade,
   retracts |-> LET ids == SetToSeq(result'.retracts)
                IN [i \in DOMAIN ids |-> AcceptedRetraction(p, ids[i])]]

\* Mutant: a trade is reported to its buyer only.
OfferNewsBuyerOnly(p) ==
  IF result'.validity # "Accepted" THEN <<>>
  ELSE SendAll("AcceptedOffer", WriteMarketSubmissionResult(SubmissionResult(p)))
         \o FlattenSeq([i \in 1..Cardinality(result'.trade) |->
              SendPortfolio(TheOnly(result'.trade).buyer)])

\* TakeOffer: everybody learns of an accepted offer, and the two parties of a
\* trade of their portfolios.
OfferNews(p) ==
  IF result'.validity # "Accepted" THEN <<>>
  ELSE SendAll("AcceptedOffer", WriteMarketSubmissionResult(SubmissionResult(p)))
         \o FlattenSeq([i \in 1..Cardinality(result'.trade) |->
              SendPortfolio(TheOnly(result'.trade).buyer)
                \o SendPortfolio(TheOnly(result'.trade).seller)])

-----------------------------------------------------------------------------
(* The handlers                                                            *)

SendTakeOffer ==
  \E p \in Subjects :
    /\ TakeBid(p) \/ TakeAsk(p)
    /\ Sends(OfferNews(p))

SendRetractOffer ==
  \E p \in Subjects :
    /\ RetractOffer(p)
    /\ Sends(IF result'.validity # "RetractAccepted" THEN <<>>
             ELSE SendAll("AcceptedRetraction", WriteRetractResult(
                    AcceptedRetraction(p, TheOnly(result'.retracts)))))

SendCreateAsset ==
  \E p \in Subjects :
    /\ CreateAsset(p)
    /\ Sends(IF result'.validity # "CreateAccepted" THEN <<>>
             ELSE SendPortfolio(p))

SendStartInstructions ==
  /\ StartInstructions
  /\ Sends(ForEachSubject([p \in Subjects |-> SendConfiguration(p)]))

SendStartExperiment ==
  /\ StartExperiment
  /\ Sends(ForEachSubject([p \in Subjects |-> SendConfiguration(p) \o SendPortfolio(p)])
             \o RoundNews)

\* Mutant: the portfolios are sent before the round is said to have ended.
SendEndRoundEarlyPortfolio ==
  /\ EndRound
  /\ Sends(ForEachSubject([p \in Subjects |-> SendPortfolio(p)])
             \o SendAll("RoundEnded", <<>>)
             \o SendAll("DividendStarted", <<Dividend[exp.round]>>)
             \o SendAll("ReviewStarted", <<>>))

\* EndRound, StartDividends and StartReview
SendEndRound ==
  /\ EndRound
  /\ Sends(SendAll("RoundEnded", <<>>)
             \o SendAll("DividendStarted", <<Dividend[exp.round]>>)
             \o ForEachSubject([p \in Subjects |-> SendPortfolio(p)])
             \o SendAll("ReviewStarted", <<>>))

SendEndReview ==
  /\ EndReview
  /\ Sends(IF callback' = "EndRound" THEN RoundNews ELSE <<>>)

\* The StartPayouts of EndEarly sends PayoutsStarted alone, which is only
\* printed; nothing is sent when time passes.
SendNothing ==
  /\ EndEarly \/ Tick
  /\ Sends(<<>>)

ServerNext ==
  /\ Len(inbox) <= MaxInFlight
  /\ \/ SendTakeOffer \/ SendRetractOffer \/ SendCreateAsset
     \/ SendStartInstructions \/ SendStartExperiment
     \/ SendEndRound \/ SendEndReview \/ SendNothing

=============================================================================
