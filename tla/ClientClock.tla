----------------------------- MODULE ClientClock -----------------------------
(***************************************************************************)
(* The time left that a client shows, next to the server's timer: the      *)
(* server sends its remaining time at the start of a round and of a review *)
(* and with every accepted offer and retraction; the client has a          *)
(* PausableTimer of its own, which it sets by these messages.  An admin    *)
(* program treats them in the same way.                                    *)
(*                                                                         *)
(* Of the other messages only those by which the client knows its phase    *)
(* are kept; they travel in order on one connection.                       *)
(***************************************************************************)
EXTENDS RoundTimer, TextForms

CONSTANT MaxAccepted   \* bound: offers and retractions accepted in a round

VARIABLES
  clock,     \* ClientState::timer
  news,      \* messages on their way to the client
  shown,     \* the phase and the round that the client was told last, and
             \* whether it was told the time since
  accepted,  \* offers and retractions accepted in this round
  late       \* history: one was accepted beyond the deadline

clockVars == <<vars, clock, news, shown, accepted, late>>

PhaseNews(p, r) == [type |-> "Phase", phase |-> p, round |-> r]

TimeUpdate(t) == [type |-> "TimeUpdate", body |-> WriteTime(GetTimeRemaining(t))]

\* RoundStarted or ReviewStarted, then the time of the timer just started
\* Mutant: the time is taken before the timer is set for the phase.
PhaseAnnouncedEarly ==
  <<PhaseNews(phase', round'), TimeUpdate(timer)>>

PhaseAnnounced ==
  <<PhaseNews(phase', round'), TimeUpdate(timer')>>

\* What a step of the experiment sends
Announce ==
  /\ news' = news \o
       (CASE phase' = phase /\ round' = round      -> << >>
          [] phase' = "Payouts" /\ phase # phase' -> <<PhaseNews(phase', round')>>
          [] OTHER                                -> PhaseAnnounced)
  /\ accepted' = IF round' = round THEN accepted ELSE 0
  /\ UNCHANGED <<clock, shown, late>>

\* ClientController::TakeOffer and RetractOffer, when they accept: the market
\* is open, also beyond the deadline until the round's callback has run.
Accept ==
  /\ phase = "Round" /\ status = "Running"
  /\ accepted < MaxAccepted
  /\ accepted' = accepted + 1
  /\ news' = Append(news, TimeUpdate(timer))
  /\ late' = (late \/ GetTimeRemaining(timer) < 0)
  /\ UNCHANGED <<vars, clock, shown>>

\* ProcessTimeUpdate.  The client never starts its timer.
ProcessTimeUpdate(w) == UpdateTime(Pause(clock), ReadTime(w))

HandleNews ==
  /\ news # << >>
  /\ LET message == Head(news) IN
     IF message.type = "TimeUpdate"
     THEN /\ clock' = ProcessTimeUpdate(message.body)
          /\ shown' = [shown EXCEPT !.told = TRUE]
     ELSE /\ shown' = [phase |-> message.phase, round |-> message.round, told |-> FALSE]
          /\ UNCHANGED clock
  /\ news' = Tail(news)
  /\ UNCHANGED <<vars, accepted, late>>

ClockInit ==
  /\ Init
  /\ clock = NewTimer
  /\ news = << >>
  /\ shown = [phase |-> "None", round |-> 0, told |-> FALSE]
  /\ accepted = 0 /\ late = FALSE

ClockNext == (Next /\ Announce) \/ Accept \/ HandleNews

ClockFairness ==
  /\ WF_clockVars(OnStop /\ Announce)
  /\ WF_clockVars(Expire /\ Announce)
  /\ WF_clockVars(Tick /\ Announce)

ClockSpec == ClockInit /\ [][ClockNext]_clockVars /\ ClockFairness

-----------------------------------------------------------------------------
(* Properties                                                              *)

Current == shown.told /\ shown.phase = phase /\ shown.round = round

\* A client in the server's phase never shows less time than is left: its
\* clock stands still between the messages, whatever their delay and through
\* every pause, so nobody is told too early that the market has closed.
ClockNeverShort ==
  Current /\ phase # "Payouts" =>
    GetTimeRemaining(clock) >= GetTimeRemaining(timer)

\* A client shows at most the length of its phase.  The exception is an offer
\* or a retraction accepted between the deadline and the callback that closes
\* the market: its time is below zero and is read as a huge one.
ClockBelievable ==
  shown.told /\ ~late =>
    GetTimeRemaining(clock) <= IF shown.phase = "Review" THEN ReviewTime ELSE RoundTime

=============================================================================
