----------------------------- MODULE RoundTimer -----------------------------
(***************************************************************************)
(* PausableTimer and the part of ExperimentController that uses it: the    *)
(* phases of an experiment, Pause and Resume.  The timer is a record, its  *)
(* methods are functions from one value of the record to the next, and     *)
(* the asio::steady_timer inside is what the code sees of it: a deadline,  *)
(* a wait that is pending, and completions that have been queued for the   *)
(* io_context, which cancel() can no longer take back.                     *)
(*                                                                         *)
(* Time is in whole units and the two clocks of the code agree.  Only      *)
(* differences of times matter, so last_start and the deadline are kept as *)
(* their distance from the present, and time passes while the timer runs.  *)
(***************************************************************************)
EXTENDS Integers

CONSTANTS
  RoundTime, ReviewTime,   \* round_time, review_time
  NRounds,                 \* n_rounds
  MaxDelay,                \* bound: time a handler that is due has to wait
  MaxPauses                \* bound: calls of Pause and Resume

ASSUME TimesAssumption ==
  /\ RoundTime \in Nat \ {0}
  /\ ReviewTime \in Nat \ {0}
  /\ NRounds \in Nat \ {0}
  /\ MaxDelay \in Nat
  /\ MaxPauses \in Nat

VARIABLES
  timer,     \* PausableTimer
  queued,    \* completions of async_wait that wait for the io_context
  phase,     \* Stage: None before the start, then Round, Review, Payouts
  round,     \* ExperimentState::round
  status,    \* ExperimentState::status
  pauses,    \* calls of Pause and Resume so far
  ran,       \* history: time the phase has lasted while the timer ran
  meddled    \* history: Resume was called outside a paused phase, or when
             \* the completion that ends the phase was queued already

vars == <<timer, queued, phase, round, status, pauses, ran, meddled>>

-----------------------------------------------------------------------------
(* The methods of PausableTimer                                            *)

NewTimer ==
  [state |-> "NotStarted", duration |-> 0, accum_time |-> 0,
   since_start |-> 0, until_expiry |-> 0, waiting |-> FALSE, callback |-> "None"]

GetTimeElapsed(t) ==
  t.accum_time + (IF t.state = "Running" THEN t.since_start ELSE 0)

GetTimeRemaining(t) == t.duration - GetTimeElapsed(t)

\* timer_.cancel(): a pending wait completes with operation_aborted, and its
\* handler returns at once.
Cancel(t) == [t EXCEPT !.waiting = FALSE]

\* Mutant: the elapsed time is kept.
ResetKeepingTime(t) == Cancel([t EXCEPT !.state = "NotStarted"])

Reset(t) == Cancel([t EXCEPT !.accum_time = 0, !.state = "NotStarted"])

Clear(t) == Reset([t EXCEPT !.callback = "None"])

\* Mutant: the time since the last start is not added.
PauseForgetting(t) ==
  IF t.state = "Paused" THEN t
  ELSE Cancel([t EXCEPT !.state = "Paused"])

Pause(t) ==
  IF t.state = "Paused" THEN t
  ELSE Cancel([t EXCEPT !.accum_time = GetTimeElapsed(t), !.state = "Paused"])

\* Mutant: a paused timer is not started again.
StartOnlyOnce(t) ==
  IF t.state # "NotStarted" THEN t
  ELSE [t EXCEPT !.until_expiry = GetTimeRemaining(t),
                 !.since_start = 0,
                 !.waiting = TRUE,
                 !.state = "Running"]

\* Mutant: what the timer ran before the last pause is counted again.
StartKeepingSince(t) ==
  IF t.state \in {"Running", "Ended"} THEN t
  ELSE [t EXCEPT !.until_expiry = GetTimeRemaining(t),
                 !.waiting = TRUE,
                 !.state = "Running"]

Start(t) ==
  IF t.state \in {"Running", "Ended"} THEN t
  ELSE [t EXCEPT !.until_expiry = GetTimeRemaining(t),
                 !.since_start = 0,
                 !.waiting = TRUE,
                 !.state = "Running"]

SetDuration(t, duration) ==
  LET u == [t EXCEPT !.duration = duration]
  IN IF t.state = "Running" THEN Start(Pause(u)) ELSE u

UpdateTime(t, duration) ==
  IF t.state = "Running"
  THEN Start([Pause(t) EXCEPT !.accum_time = t.duration - duration])
  ELSE [t EXCEPT !.duration = duration]

Register(t, callback) == [t EXCEPT !.callback = callback]

\* What ProcessStartRound and ProcessStartReview do, and the registration
Restarted(t, duration, callback) ==
  Register(Start(SetDuration(Clear(t), duration)), callback)

-----------------------------------------------------------------------------
Init ==
  /\ timer = NewTimer /\ queued = 0
  /\ phase = "None" /\ round = 0 /\ status = "NotStarted"
  /\ pauses = 0
  /\ ran = 0 /\ meddled = FALSE

StartRound(t) ==
  /\ phase' = "Round"
  /\ round' = round + 1
  /\ status' = "Running"
  /\ timer' = Restarted(t, RoundTime, "EndRound")
  /\ ran' = 0

StartReview(t) ==
  /\ phase' = "Review"
  /\ timer' = Restarted(t, ReviewTime, "EndReview")
  /\ ran' = 0
  /\ UNCHANGED <<round, status>>

StartPayouts(t) ==
  /\ phase' = "Payouts"
  /\ timer' = t
  /\ ran' = 0
  /\ UNCHANGED <<round, status>>

\* Mutant: the experiment may be started while it runs.
StartExperimentAgain ==
  /\ round < NRounds
  /\ StartRound(timer)
  /\ UNCHANGED <<queued, pauses, meddled>>

StartExperiment ==
  /\ status = "NotStarted"
  /\ StartRound(timer)
  /\ UNCHANGED <<queued, pauses, meddled>>

\* Mutant: one round too many.
EndReviewOneMore(t) == IF round <= NRounds THEN StartRound(t) ELSE StartPayouts(t)

EndReview(t) == IF round < NRounds THEN StartRound(t) ELSE StartPayouts(t)

\* The handler of a completed wait: it does not look at the state.  The last
\* callback stays registered when the experiment is over.
OnStop ==
  /\ queued > 0
  /\ queued' = queued - 1
  /\ LET t == [timer EXCEPT !.state = "Ended", !.accum_time = timer.duration] IN
     \/ timer.callback = "EndRound" /\ StartReview(t)
     \/ timer.callback = "EndReview" /\ EndReview(t)
     \/ /\ timer.callback = "None"
        /\ timer' = t
        /\ UNCHANGED <<phase, round, status, ran>>
  /\ UNCHANGED <<pauses, meddled>>

\* The wait is over: its handler is queued.
Expire ==
  /\ timer.waiting /\ timer.until_expiry <= 0
  /\ timer' = [timer EXCEPT !.waiting = FALSE]
  /\ queued' = queued + 1
  /\ UNCHANGED <<phase, round, status, pauses, ran, meddled>>

\* Time passes, also while handlers are due.
Tick ==
  /\ timer.state = "Running"
  /\ timer.until_expiry > -MaxDelay
  /\ timer' = [timer EXCEPT !.since_start = @ + 1, !.until_expiry = @ - 1]
  /\ ran' = ran + 1
  /\ UNCHANGED <<queued, phase, round, status, pauses, meddled>>

\* ExperimentController::Pause, at any time
PauseExperiment ==
  /\ pauses < MaxPauses
  /\ pauses' = pauses + 1
  /\ status' = "Paused"
  /\ timer' = Pause(timer)
  /\ UNCHANGED <<queued, phase, round, ran, meddled>>

\* ExperimentController::Resume, at any time
ResumeExperiment ==
  /\ pauses < MaxPauses
  /\ pauses' = pauses + 1
  /\ status' = "Running"
  /\ timer' = Start(timer)
  /\ meddled' = (meddled \/ queued > 0 \/ phase \notin {"Round", "Review"})
  /\ UNCHANGED <<queued, phase, round, ran>>

Next == StartExperiment \/ OnStop \/ Expire \/ Tick
          \/ PauseExperiment \/ ResumeExperiment

\* The reactor reports waits that are over and the io_context runs what is
\* queued; the clock goes on.
Fairness == WF_vars(OnStop) /\ WF_vars(Expire) /\ WF_vars(Tick)

Spec == Init /\ [][Next]_vars /\ Fairness

-----------------------------------------------------------------------------
(* Properties                                                              *)

Phase == {"None", "Round", "Review", "Payouts"}

Duration == CASE phase = "Round"  -> RoundTime
              [] phase = "Review" -> ReviewTime
              [] OTHER            -> 0

Timer == [state : {"NotStarted", "Running", "Paused", "Ended"},
          duration : Nat, accum_time : Nat, since_start : Nat,
          until_expiry : Int, waiting : BOOLEAN,
          callback : {"None", "EndRound", "EndReview"}]

\* The types; in particular no round is started beyond the last.
TypeOK ==
  /\ queued \in Nat /\ round \in 0..NRounds
  /\ timer \in Timer
  /\ phase \in Phase
  /\ status \in {"NotStarted", "Running", "Paused"}
  /\ ran \in Nat /\ meddled \in BOOLEAN

\* The time that offers of a round are stamped with never runs backwards, so
\* the time priority of the book is the order of submission, through every
\* pause: not even when a queued completion meets a pause.
OffersKeepTheirOrderStep ==
  phase = "Round" /\ phase' = "Round" /\ round' = round =>
    GetTimeElapsed(timer)' >= GetTimeElapsed(timer)

OffersKeepTheirOrder == [][OffersKeepTheirOrderStep]_vars

\* A round and a review last for their configured time, pauses not counted:
\* the callback that ends them is not early, although cancel() cannot stop
\* one that is queued; the exception is a Resume that meets a queued one.
PhasesLastStep ==
  phase' # phase /\ phase \in {"Round", "Review"} /\ ~meddled => ran >= Duration

PhasesLast == [][PhasesLastStep]_vars

\* Nothing ends a phase twice: at most one completion is under way, and none
\* while the timer waits for another.
OneCompletion ==
  ~meddled => queued + (IF timer.waiting THEN 1 ELSE 0) <= 1

\* No phase goes on for ever: a round and a review end unless the admin has
\* paused them, and one that was paused goes on when it is resumed.
PhasesEnd ==
  \A p \in {"Round", "Review"}, r \in 1..NRounds :
    phase = p /\ round = r ~> phase # p \/ round # r \/ status = "Paused"

=============================================================================
