---------------------------- MODULE ClientMirror ----------------------------
(***************************************************************************)
(* The program of a subject: ClientState, the copy of the book and of the  *)
(* own portfolio that it keeps, and what ClientsideController and          *)
(* ClientsideProcessor do to it with the text of a message.                *)
(***************************************************************************)
EXTENDS Announcements

NoConfiguration ==
  [instructions_filename |-> {}, init_alloc |-> EmptyPortfolio,
   is_creator |-> FALSE, eperdollar |-> 0]

NoRound ==
  [round |-> 0, can_create |-> FALSE, dividend |-> 0, margin_req |-> 0,
   margin_max |-> 0]

ClientState ==
  [bids |-> {}, asks |-> {}, transactions |-> <<>>,
   config |-> NoConfiguration, round_conf |-> NoRound, last_dividend |-> 0,
   port |-> EmptyPortfolio, start_round_port |-> EmptyPortfolio,
   end_round_port |-> EmptyPortfolio, post_dividend_port |-> EmptyPortfolio]

\* ProcessAcceptedOffer: the offer is queued, then a trade takes two offers
\* away, then the replaced ones are retracted.
ClientAcceptedOffer(v, res) ==
  LET replaced == {res.retracts[i].request.offer_id : i \in DOMAIN res.retracts}
  IN [v EXCEPT
        !.bids = Retract(@ \cup (IF IsAsk(res.offer) THEN {} ELSE {res.offer}),
                         {t.bid_id : t \in res.trade} \cup replaced),
        !.asks = Retract(@ \cup (IF IsAsk(res.offer) THEN {res.offer} ELSE {}),
                         {t.ask_id : t \in res.trade} \cup replaced),
        !.transactions = @ \o SetToSeq(res.trade)]

ClientAcceptedRetraction(v, rr) ==
  [v EXCEPT !.bids = Retract(@, {rr.request.offer_id}),
            !.asks = Retract(@, {rr.request.offer_id})]

\* Mutant: the book of the last round is kept.
ClientRoundStartedKeeping(v, conf) ==
  [v EXCEPT !.transactions = <<>>, !.round_conf = conf, !.start_round_port = v.port]

ClientRoundStarted(v, conf) ==
  [v EXCEPT !.bids = {}, !.asks = {}, !.transactions = <<>>,
            !.round_conf = conf, !.start_round_port = v.port]

\* ClientsideController::ProcessMessage, with what it calls to read the body
ClientHandle(v, m) ==
  CASE m.type = "SubjectConfiguration" ->
         [v EXCEPT !.config = ReadSubjectConfiguration(m.body)]
    [] m.type = "AcceptedOffer" ->
         ClientAcceptedOffer(v, ReadMarketSubmissionResult(m.body))
    [] m.type = "AcceptedRetraction" ->
         ClientAcceptedRetraction(v, ReadRetractResult(m.body))
    [] m.type = "Portfolio" ->
         [v EXCEPT !.port = ReadSubjectPortfolio(m.body).port]
    [] m.type = "RoundStarted" ->
         ClientRoundStarted(v, ReadRoundConfiguration(m.body))
    [] m.type = "RoundEnded" -> [v EXCEPT !.end_round_port = v.port]
    [] m.type = "DividendStarted" -> [v EXCEPT !.last_dividend = m.body[1]]
    [] m.type = "ReviewStarted" -> [v EXCEPT !.post_dividend_port = v.port]

=============================================================================
