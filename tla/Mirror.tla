------------------------------- MODULE Mirror -------------------------------
(***************************************************************************)
(* The server, the messages on their way and the program that handles      *)
(* them, a subject's or an admin's, however late.                          *)
(***************************************************************************)
EXTENDS AdminMirror

VARIABLE view   \* ClientState or AdminState

mirrorVars == <<vars, program, inbox, view>>

MirrorInit ==
  /\ Init
  /\ program \in {"client", "admin"}
  /\ inbox = <<>>
  /\ view = IF program = "client" THEN ClientState ELSE AdminState

Handle(v, m) == IF program = "client" THEN ClientHandle(v, m) ELSE AdminHandle(v, m)

HandleMessage ==
  /\ inbox # <<>>
  /\ view' = Handle(view, Head(inbox))
  /\ inbox' = Tail(inbox)
  /\ UNCHANGED <<vars, program>>

MirrorNext == (ServerNext /\ UNCHANGED view) \/ HandleMessage

MirrorSpec == MirrorInit /\ [][MirrorNext]_mirrorVars

-----------------------------------------------------------------------------
(* Properties                                                              *)

\* The view after everything on its way has been handled
Caught == FoldLeft(Handle, view, inbox)

\* What every program is sent is enough for the part that all of them keep:
\* once it has caught up, its book is the book of the round that runs, the
\* round is described as the configuration has it, and the trades it shows of
\* this round end with the trade just reported.
BookCatchesUp(caught) ==
  /\ callback = "EndRound" => caught.bids = bids /\ caught.asks = asks
  /\ exp.status # "NotStarted" => caught.round_conf = RoundSettings(exp.round)
  /\ \A t \in result.trade : Last(caught.transactions) = t

\* A subject's program that has caught up shows the book, and the portfolio
\* and the settings that the server keeps for it (client_controller.cc:41-74).
ViewCatchesUp ==
  program = "client" =>
    LET caught == Caught IN
    /\ BookCatchesUp(caught)
    /\ exp.status # "NotStarted" =>
         /\ caught.port = folio[Viewer]
         /\ caught.config.init_alloc = InitAlloc(Viewer)
         /\ caught.config.is_creator = (Viewer \in Creators)

\* An admin's program that has caught up shows the book and the portfolio of
\* every subject, told apart by the copies of what each of them is sent
\* (asio_server.hh:110-121, adminside_processor.hh:86-89).
AdminCatchesUp ==
  program = "admin" =>
    LET caught == Caught IN
    /\ BookCatchesUp(caught)
    /\ exp.status # "NotStarted" => caught.player_ports = folio

\* However late it handles its messages, a program never shows a bid and an
\* ask that could trade, or an offer twice (clientside_processor.hh:34-57).
ViewIsABook ==
  /\ \A b \in view.bids, a \in view.asks : ~CanTrade(b, a)
  /\ \A x, y \in view.bids \cup view.asks : x.id = y.id => x = y

\* The portfolios shown before and after the dividend differ by the dividend
\* that is shown, however the messages of the round are delayed
\* (experiment_controller.hh:47-71).
ReviewAddsUp ==
  [][program = "client" /\ inbox # <<>> /\ Len(inbox') < Len(inbox)
       /\ Head(inbox).type = "ReviewStarted" =>
      LET before == view'.end_round_port
      IN view'.post_dividend_port =
           [before EXCEPT
              !.Cash   = @ + before.Shares * view'.last_dividend,
              !.Margin = @ - before.Derivatives * view'.last_dividend]]_mirrorVars

=============================================================================
