----------------------------- MODULE AdminMirror -----------------------------
(***************************************************************************)
(* The admin's program: the copy of the book and of every portfolio that   *)
(* AdminsideController and AdminsideProcessor keep from what the server    *)
(* sends to all and from its copies of what it sends to one.  The members  *)
(* that the processor uses are taken for those of AdminState, some of      *)
(* which admin_state.hh does not list.                                     *)
(***************************************************************************)
EXTENDS ClientMirror

AdminState ==
  [bids |-> {}, asks |-> {}, transactions |-> <<>>,
   config |-> NoConfiguration, round_conf |-> NoRound, last_dividend |-> 0,
   player_ports |-> [p \in Subjects |-> EmptyPortfolio]]

\* The bids and the asks once the offers of gone are retracted
AdminRetract(v, gone) ==
  [v EXCEPT !.bids = Retract(@, gone), !.asks = Retract(@, gone)]

AdminAcceptedOffer(v, res) ==
  LET replaced == {res.retracts[i].request.offer_id : i \in DOMAIN res.retracts}
      queued == IF IsAsk(res.offer) THEN [v EXCEPT !.asks = @ \cup {res.offer}]
                ELSE [v EXCEPT !.bids = @ \cup {res.offer}]
  IN AdminRetract(
       [queued EXCEPT !.asks = Retract(@, {t.ask_id : t \in res.trade}),
                      !.bids = Retract(@, {t.bid_id : t \in res.trade}),
                      !.transactions = @ \o SetToSeq(res.trade)],
       replaced)

AdminRoundStarted(v, conf) ==
  [v EXCEPT !.bids = {}, !.asks = {}, !.transactions = <<>>, !.round_conf = conf]

\* ProcessPortfolio, for the subject that the text names
AdminPortfolio(v, port) == [v EXCEPT !.player_ports[port.id] = port.port]

\* AdminsideController::ProcessMessage, with what it calls to read the body
AdminHandle(v, m) ==
  CASE m.type = "SubjectConfiguration" ->
         [v EXCEPT !.config = ReadSubjectConfiguration(m.body)]
    [] m.type = "AcceptedOffer" ->
         AdminAcceptedOffer(v, ReadMarketSubmissionResult(m.body))
    [] m.type = "AcceptedRetraction" ->
         AdminRetract(v, {ReadRetractResult(m.body).request.offer_id})
    [] m.type = "Portfolio" -> AdminPortfolio(v, ReadSubjectPortfolio(m.body))
    [] m.type = "RoundStarted" ->
         AdminRoundStarted(v, ReadRoundConfiguration(m.body))
    [] m.type = "DividendStarted" -> [v EXCEPT !.last_dividend = m.body[1]]
    [] m.type \in {"RoundEnded", "ReviewStarted"} -> v

=============================================================================
