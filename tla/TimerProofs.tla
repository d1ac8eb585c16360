----------------------------- MODULE TimerProofs -----------------------------
(***************************************************************************)
(* Theorems about RoundTimer, for any times, any number of rounds and any  *)
(* number of pauses, and about ClientClock: what a client shows of the     *)
(* time, for any number of accepted offers, and however many messages are  *)
(* on their way.                                                           *)
(***************************************************************************)
EXTENDS ClientClock, TLAPS

-----------------------------------------------------------------------------
(* What the methods of the timer return                                    *)

Callback == {"EndRound", "EndReview"}

\* Pause stops the wait and keeps the time.
LEMMA PausedTimer ==
  ASSUME NEW t \in Timer, t.state # "Paused"
  PROVE  Pause(t) =
           [state |-> "Paused", duration |-> t.duration,
            accum_time |-> GetTimeElapsed(t), since_start |-> t.since_start,
            until_expiry |-> t.until_expiry, waiting |-> FALSE,
            callback |-> t.callback]
BY DEF Pause, Cancel, GetTimeElapsed, Timer

\* A start goes on from the time that has elapsed.
LEMMA StartedTimer ==
  ASSUME NEW t \in Timer, t.state \notin {"Running", "Ended"}
  PROVE  Start(t) =
           [state |-> "Running", duration |-> t.duration,
            accum_time |-> t.accum_time, since_start |-> 0,
            until_expiry |-> t.duration - t.accum_time, waiting |-> TRUE,
            callback |-> t.callback]
<1>1. GetTimeRemaining(t) = t.duration - t.accum_time
  BY DEF GetTimeRemaining, GetTimeElapsed, Timer
<1> QED BY <1>1 DEF Start, Timer

\* Nothing is left of a timer but its duration, and old instants.
LEMMA ClearedTimer ==
  ASSUME NEW t \in Timer
  PROVE  /\ Clear(t) \in Timer
         /\ Clear(t).state = "NotStarted" /\ Clear(t).accum_time = 0
<1> DEFINE u == [t EXCEPT !.callback = "None"]
<1>1. u \in Timer
  BY DEF Timer
<1> HIDE DEF u
<1>2. /\ Reset(u) \in Timer
      /\ Reset(u).state = "NotStarted" /\ Reset(u).accum_time = 0
  BY <1>1 DEF Reset, Cancel, Timer
<1> QED BY <1>2 DEF Clear, u

\* Whatever the timer was doing, it is started from nothing.
LEMMA RestartedTimer ==
  ASSUME NEW t \in Timer, NEW d \in Nat, NEW c \in Callback
  PROVE  Restarted(t, d, c) =
           [state |-> "Running", duration |-> d, accum_time |-> 0,
            since_start |-> 0, until_expiry |-> d, waiting |-> TRUE, callback |-> c]
<1> DEFINE u == Clear(t)
           v == SetDuration(u, d)
           w == Start(v)
<1>1. u \in Timer /\ u.state = "NotStarted" /\ u.accum_time = 0
  BY ClearedTimer
<1> HIDE DEF u
<1>2. v \in Timer /\ v.state = "NotStarted" /\ v.accum_time = 0 /\ v.duration = d
  BY <1>1 DEF SetDuration, Timer
<1> HIDE DEF v
<1>3. w = [state |-> "Running", duration |-> v.duration,
           accum_time |-> v.accum_time, since_start |-> 0,
           until_expiry |-> v.duration - v.accum_time, waiting |-> TRUE,
           callback |-> v.callback]
  BY <1>2, StartedTimer
<1>4. v.duration - v.accum_time = d
  BY <1>2
<1>5. w = [state |-> "Running", duration |-> d, accum_time |-> 0, since_start |-> 0,
           until_expiry |-> d, waiting |-> TRUE, callback |-> v.callback]
  BY <1>2, <1>3, <1>4
<1> HIDE DEF w
<1>6. v.callback \in {"None", "EndRound", "EndReview"}
  BY <1>2 DEF Timer
<1>7. w \in Timer
  BY <1>5, <1>6 DEF Timer
<1>8. /\ w.state = "Running" /\ w.duration = d /\ w.accum_time = 0
      /\ w.since_start = 0 /\ w.until_expiry = d /\ w.waiting = TRUE
  BY <1>5
<1>9. [w EXCEPT !.callback = c] =
        [state |-> "Running", duration |-> d, accum_time |-> 0,
         since_start |-> 0, until_expiry |-> d, waiting |-> TRUE, callback |-> c]
  <2>1. [w EXCEPT !.callback = c] =
          [state |-> w.state, duration |-> w.duration, accum_time |-> w.accum_time,
           since_start |-> w.since_start, until_expiry |-> w.until_expiry,
           waiting |-> w.waiting, callback |-> c]
    BY <1>7 DEF Timer
  <2> QED BY <1>8, <2>1
<1> QED BY <1>9 DEF Restarted, Register, u, v, w

-----------------------------------------------------------------------------
(* The inductive invariant                                                 *)

Timed == phase \in {"Round", "Review"}

\* In a phase the timer is the phase's own: it has run for as long as the
\* phase has, and a pending wait ends when the phase's time is over.
TimerOfPhase ==
  Timed =>
    /\ timer.duration = Duration
    /\ timer.callback = (IF phase = "Round" THEN "EndRound" ELSE "EndReview")
    /\ timer.state \in {"Running", "Paused"}
    /\ GetTimeElapsed(timer) = ran
    /\ timer.waiting => timer.state = "Running" /\ timer.until_expiry = Duration - ran

\* A completion that is queued is the one the phase has waited for.
CompletionIsDue ==
  ~meddled =>
    /\ ~(queued > 0 /\ timer.waiting) /\ queued <= 1
    /\ Timed /\ queued > 0 => ran >= Duration
    /\ ~Timed => queued = 0 /\ ~timer.waiting

TimerInvariant ==
  /\ TypeOK
  /\ TimerOfPhase
  /\ CompletionIsDue
  /\ status = "NotStarted" =>
       queued = 0 /\ round = 0 /\ phase = "None" /\ ~timer.waiting

LEMMA TimerInit == Init => TimerInvariant
<1> SUFFICES ASSUME Init PROVE TimerInvariant
  OBVIOUS
<1>1. timer \in Timer /\ ~timer.waiting
  BY DEF Init, NewTimer, Timer
<1>2. 0 \in 0..NRounds
  BY TimesAssumption
<1>3. TypeOK
  BY <1>1, <1>2 DEF Init, TypeOK, Phase
<1> QED BY <1>1, <1>3 DEF Init, TimerInvariant, TimerOfPhase, CompletionIsDue, Timed

\* A round or a review that begins has a timer of its own.
LEMMA PhaseBegins ==
  ASSUME NEW t \in Timer, NEW d \in Nat, NEW c \in Callback, NEW p \in Phase,
         timer' = Restarted(t, d, c), phase' = p, ran' = 0,
         \/ p = "Round" /\ d = RoundTime /\ c = "EndRound"
         \/ p = "Review" /\ d = ReviewTime /\ c = "EndReview",
         queued' = 0 \/ meddled'
  PROVE  timer' \in Timer /\ TimerOfPhase' /\ CompletionIsDue'
<1>1. timer' = [state |-> "Running", duration |-> d, accum_time |-> 0,
                since_start |-> 0, until_expiry |-> d, waiting |-> TRUE,
                callback |-> c]
  BY RestartedTimer
<1>2. timer' \in Timer
  BY <1>1 DEF Timer, Callback
<1>3. Duration' = d
  BY DEF Duration
<1>4. /\ timer'.state = "Running" /\ timer'.duration = d /\ timer'.accum_time = 0
      /\ timer'.since_start = 0 /\ timer'.until_expiry = d /\ timer'.callback = c
  BY <1>1
<1>5. GetTimeElapsed(timer)' = 0
  BY <1>4 DEF GetTimeElapsed
<1>6. TimerOfPhase'
  BY <1>3, <1>4, <1>5 DEF TimerOfPhase, Timed
<1>7. CompletionIsDue'
  BY DEF CompletionIsDue, Timed
<1> QED BY <1>2, <1>6, <1>7

LEMMA TimerStep ==
  ASSUME TimerInvariant, [Next]_vars
  PROVE  TimerInvariant'
<1> USE DEF TimerInvariant
<1>0. /\ timer \in Timer /\ queued \in Nat /\ ran \in Nat
      /\ NRounds \in Nat /\ RoundTime \in Nat /\ ReviewTime \in Nat
  BY TimesAssumption DEF TypeOK
<1>1. CASE UNCHANGED vars
  BY <1>1 DEF vars, TypeOK, TimerOfPhase, CompletionIsDue, Timed, Duration,
     GetTimeElapsed
<1>2. CASE StartExperiment
  <2>1. timer' \in Timer /\ TimerOfPhase' /\ CompletionIsDue'
    BY <1>0, <1>2, PhaseBegins DEF StartExperiment, StartRound, Callback, Phase
  <2>2. TypeOK'
    BY <1>2, <2>1, TimesAssumption DEF StartExperiment, StartRound, TypeOK, Phase
  <2> QED BY <1>2, <2>1, <2>2 DEF StartExperiment, StartRound
<1>3. CASE OnStop
  <2> DEFINE t == [timer EXCEPT !.state = "Ended", !.accum_time = timer.duration]
  <2>1. t \in Timer
    BY <1>0 DEF Timer
  <2>2. /\ queued' = 0 \/ meddled'
        /\ queued > 0 /\ queued' \in Nat /\ status # "NotStarted"
    BY <1>0, <1>3 DEF OnStop, CompletionIsDue
  <2>3. CASE timer.callback = "EndRound" /\ StartReview(t)
    <3>1. timer' \in Timer /\ TimerOfPhase' /\ CompletionIsDue'
      BY <1>0, <2>1, <2>2, <2>3, PhaseBegins DEF StartReview, Callback, Phase
    <3>2. TypeOK'
      BY <1>3, <2>2, <2>3, <3>1 DEF OnStop, StartReview, TypeOK, Phase
    <3> QED BY <2>2, <2>3, <3>1, <3>2 DEF StartReview
  <2>4. CASE timer.callback = "EndReview" /\ round < NRounds /\ StartRound(t)
    <3>1. timer' \in Timer /\ TimerOfPhase' /\ CompletionIsDue'
      BY <1>0, <2>1, <2>2, <2>4, PhaseBegins DEF StartRound, Callback, Phase
    <3>2. round' \in 0..NRounds
      BY <1>0, <2>4 DEF StartRound, TypeOK
    <3>3. TypeOK'
      BY <1>3, <2>2, <2>4, <3>1, <3>2 DEF OnStop, StartRound, TypeOK, Phase
    <3> QED BY <2>4, <3>1, <3>3 DEF StartRound
  <2>5. CASE timer.callback = "EndReview" /\ ~(round < NRounds) /\ StartPayouts(t)
    <3>1. t.waiting = timer.waiting
      BY <1>0 DEF Timer
    <3>2. timer' = t
      BY <2>5 DEF StartPayouts
    <3>3. CompletionIsDue'
      BY <1>3, <2>2, <2>5, <3>1, <3>2
         DEF OnStop, StartPayouts, CompletionIsDue, Timed
    <3>4. TimerOfPhase'
      BY <2>5 DEF StartPayouts, TimerOfPhase, Timed
    <3> QED BY <1>3, <2>1, <2>2, <2>5, <3>2, <3>3, <3>4
          DEF OnStop, StartPayouts, TypeOK, Phase
  <2>6. CASE /\ timer.callback = "None"
             /\ timer' = t
             /\ UNCHANGED <<phase, round, status, ran>>
    <3>1. ~Timed /\ ~Timed'
      BY <2>6 DEF TimerOfPhase, Timed
    <3>2. TimerOfPhase'
      BY <3>1 DEF TimerOfPhase
    <3>3. CompletionIsDue'
      BY <1>3, <2>2, <3>1 DEF OnStop, CompletionIsDue
    <3> QED BY <1>3, <2>1, <2>2, <2>6, <3>2, <3>3 DEF OnStop, TypeOK
  <2> QED BY <1>3, <2>3, <2>4, <2>5, <2>6 DEF OnStop, EndReview
<1>4. CASE Expire
  <2>1. timer' \in Timer
    BY <1>0, <1>4 DEF Expire, Timer
  <2>2. /\ timer'.duration = timer.duration /\ timer'.callback = timer.callback
        /\ timer'.state = timer.state /\ timer'.accum_time = timer.accum_time
        /\ timer'.since_start = timer.since_start /\ ~timer'.waiting
    BY <1>0, <1>4 DEF Expire, Timer
  <2>3. GetTimeElapsed(timer)' = GetTimeElapsed(timer)
    BY <2>2 DEF GetTimeElapsed
  <2>4. Duration' = Duration /\ Duration \in Nat /\ (Timed' <=> Timed)
    BY <1>0, <1>4 DEF Expire, Duration, Timed
  <2>5. TimerOfPhase'
    BY <1>4, <2>2, <2>3, <2>4 DEF Expire, TimerOfPhase
  <2>6. Timed => ran >= Duration
    BY <1>0, <1>4, <2>4 DEF Expire, TimerOfPhase
  <2>7. CompletionIsDue'
    BY <1>0, <1>4, <2>2, <2>4, <2>6 DEF Expire, CompletionIsDue
  <2>8. status' # "NotStarted"
    BY <1>4 DEF Expire
  <2> QED BY <1>0, <1>4, <2>1, <2>5, <2>7, <2>8 DEF Expire, TypeOK
<1>5. CASE Tick
  <2>1. timer' \in Timer
    <3>1. timer.since_start + 1 \in Nat /\ timer.until_expiry - 1 \in Int
      BY <1>0 DEF Timer
    <3> QED BY <1>0, <1>5, <3>1 DEF Tick, Timer
  <2>2. /\ timer'.duration = timer.duration /\ timer'.callback = timer.callback
        /\ timer'.state = timer.state /\ timer'.accum_time = timer.accum_time
        /\ timer'.since_start = timer.since_start + 1
        /\ timer'.until_expiry = timer.until_expiry - 1
        /\ timer'.waiting = timer.waiting
    BY <1>0, <1>5 DEF Tick, Timer
  <2>3. /\ timer.state = "Running" /\ timer.accum_time \in Nat
        /\ timer.since_start \in Nat /\ timer.until_expiry \in Int
    BY <1>0, <1>5 DEF Tick, Timer
  <2>4. GetTimeElapsed(timer)' = GetTimeElapsed(timer) + 1
    BY <2>2, <2>3 DEF GetTimeElapsed
  <2>5. Duration' = Duration /\ Duration \in Nat /\ (Timed' <=> Timed) /\ ran' = ran + 1
    BY <1>0, <1>5 DEF Tick, Duration, Timed
  <2>6. TimerOfPhase'
    BY <1>0, <1>5, <2>2, <2>3, <2>4, <2>5 DEF Tick, TimerOfPhase
  <2>7. CompletionIsDue'
    BY <1>0, <1>5, <2>2, <2>5 DEF Tick, CompletionIsDue
  <2>8. TypeOK'
    BY <1>0, <1>5, <2>1 DEF Tick, TypeOK
  <2> QED BY <1>5, <2>2, <2>6, <2>7, <2>8 DEF Tick
<1>6. CASE PauseExperiment
  <2>1. GetTimeElapsed(timer) \in Nat
    BY <1>0 DEF GetTimeElapsed, Timer
  <2>2. /\ timer' \in Timer /\ timer'.state = "Paused"
        /\ timer'.duration = timer.duration /\ timer'.callback = timer.callback
        /\ timer'.waiting => timer.waiting
        /\ GetTimeElapsed(timer)' = GetTimeElapsed(timer)
        /\ timer.state # "Paused" => ~timer'.waiting
    <3>1. CASE timer.state = "Paused"
      BY <1>0, <1>6, <3>1 DEF PauseExperiment, Pause, GetTimeElapsed
    <3>2. CASE timer.state # "Paused"
      <4>1. timer' = [state |-> "Paused", duration |-> timer.duration,
                      accum_time |-> GetTimeElapsed(timer),
                      since_start |-> timer.since_start,
                      until_expiry |-> timer.until_expiry, waiting |-> FALSE,
                      callback |-> timer.callback]
        BY <1>0, <1>6, <3>2, PausedTimer DEF PauseExperiment
      <4>2. timer' \in Timer
        BY <1>0, <2>1, <4>1 DEF Timer
      <4>3. GetTimeElapsed(timer)' = GetTimeElapsed(timer)
        <5>1. timer'.state = "Paused" /\ timer'.accum_time = GetTimeElapsed(timer)
          BY <4>1
        <5> QED BY <2>1, <5>1 DEF GetTimeElapsed
      <4> QED BY <4>1, <4>2, <4>3
    <3> QED BY <3>1, <3>2
  <2>3. Duration' = Duration /\ (Timed' <=> Timed) /\ ran' = ran
    BY <1>6 DEF PauseExperiment, Duration, Timed
  <2>4. TimerOfPhase'
    BY <1>6, <2>2, <2>3 DEF PauseExperiment, TimerOfPhase
  <2>5. CompletionIsDue'
    BY <1>6, <2>2, <2>3 DEF PauseExperiment, CompletionIsDue
  <2>6. TypeOK'
    BY <1>0, <1>6, <2>2 DEF PauseExperiment, TypeOK
  <2> QED BY <1>6, <2>4, <2>5, <2>6 DEF PauseExperiment
<1>7. CASE ResumeExperiment
  <2>1. Duration' = Duration /\ Duration \in Nat /\ (Timed' <=> Timed) /\ ran' = ran
    BY <1>0, <1>7 DEF ResumeExperiment, Duration, Timed
  <2>2. status' = "Running" /\ queued' = queued
        /\ (meddled' = (meddled \/ queued > 0 \/ ~Timed))
    BY <1>7 DEF ResumeExperiment, Timed
  <2>3. CASE timer.state \in {"Running", "Ended"}
    <3>1. timer' = timer
      BY <1>7, <2>3 DEF ResumeExperiment, Start
    <3>2. TimerOfPhase'
      BY <1>7, <2>1, <3>1 DEF ResumeExperiment, TimerOfPhase, GetTimeElapsed
    <3>3. CompletionIsDue'
      BY <2>1, <2>2, <3>1 DEF CompletionIsDue
    <3>4. TypeOK'
      BY <1>0, <1>7, <3>1 DEF ResumeExperiment, TypeOK
    <3> QED BY <2>2, <3>2, <3>3, <3>4
  <2>4. CASE timer.state \notin {"Running", "Ended"}
    <3>1. timer' = [state |-> "Running", duration |-> timer.duration,
                    accum_time |-> timer.accum_time, since_start |-> 0,
                    until_expiry |-> timer.duration - timer.accum_time,
                    waiting |-> TRUE, callback |-> timer.callback]
      BY <1>0, <1>7, <2>4, StartedTimer DEF ResumeExperiment
    <3>2. timer.duration - timer.accum_time \in Int /\ timer.accum_time \in Nat
      BY <1>0 DEF Timer
    <3>3. timer' \in Timer
      BY <1>0, <3>1, <3>2 DEF Timer
    <3>4. /\ timer'.state = "Running" /\ timer'.duration = timer.duration
          /\ timer'.accum_time = timer.accum_time /\ timer'.since_start = 0
          /\ timer'.until_expiry = timer.duration - timer.accum_time
          /\ timer'.callback = timer.callback
      BY <3>1
    <3>5. GetTimeElapsed(timer) = timer.accum_time
          /\ GetTimeElapsed(timer)' = timer.accum_time
      BY <2>4, <3>2, <3>4 DEF GetTimeElapsed
    <3>6. TimerOfPhase'
      BY <1>7, <2>1, <3>4, <3>5 DEF ResumeExperiment, TimerOfPhase
    <3>7. CompletionIsDue'
      BY <1>0, <2>1, <2>2 DEF CompletionIsDue
    <3>8. TypeOK'
      BY <1>0, <1>7, <3>3 DEF ResumeExperiment, TypeOK
    <3> QED BY <2>2, <3>6, <3>7, <3>8
  <2> QED BY <2>3, <2>4
<1> QED BY <1>1, <1>2, <1>3, <1>4, <1>5, <1>6, <1>7 DEF Next

LEMMA TimerInvariantAlways == Spec => []TimerInvariant
<1>1. TimerInvariant /\ [Next]_vars => TimerInvariant'
  BY TimerStep
<1> QED BY TimerInit, <1>1, PTL DEF Spec

-----------------------------------------------------------------------------
(* Theorems                                                                *)

\* Every variable keeps its type, and no round is started after the last.
THEOREM TimerTypeCorrect == Spec => []TypeOK
<1>1. TimerInvariant => TypeOK
  BY DEF TimerInvariant
<1> QED BY <1>1, TimerInvariantAlways, PTL

\* At most one completion is under way, so nothing ends a phase twice.
THEOREM NoSecondCompletion == Spec => []OneCompletion
<1>1. TimerInvariant => OneCompletion
  BY DEF TimerInvariant, TypeOK, CompletionIsDue, OneCompletion
<1> QED BY <1>1, TimerInvariantAlways, PTL

\* The callback that ends a round or a review is not early, whatever pauses
\* came in between.
THEOREM NoPhaseEndsEarly == Spec => PhasesLast
<1>1. TimerInvariant /\ [Next]_vars => [PhasesLastStep]_vars
  <2> SUFFICES ASSUME TimerInvariant, Next,
                      phase' # phase, phase \in {"Round", "Review"}, ~meddled
               PROVE  ran >= Duration
    BY DEF PhasesLastStep
  <2>1. status # "NotStarted"
    BY DEF TimerInvariant
  <2>2. OnStop
    BY <2>1 DEF Next, StartExperiment, Expire, Tick, PauseExperiment, ResumeExperiment
  <2> QED BY <2>2 DEF OnStop, TimerInvariant, CompletionIsDue, Timed
<1> QED BY <1>1, TimerInvariantAlways, PTL DEF Spec, PhasesLast

\* The times that order the offers of a round never run backwards.
THEOREM OffersInOrder == Spec => OffersKeepTheirOrder
<1>1. TimerInvariant /\ [Next]_vars => [OffersKeepTheirOrderStep]_vars
  <2> SUFFICES ASSUME TimerInvariant, Next,
                      phase = "Round", phase' = "Round", round' = round
               PROVE  GetTimeElapsed(timer)' >= GetTimeElapsed(timer)
    BY DEF OffersKeepTheirOrderStep
  <2>1. TimerInvariant'
    BY TimerStep
  <2>2. GetTimeElapsed(timer) = ran /\ GetTimeElapsed(timer)' = ran' /\ ran \in Nat
    BY <2>1 DEF TimerInvariant, TimerOfPhase, Timed, TypeOK
  <2>3. ~StartExperiment /\ ~OnStop
    BY DEF StartExperiment, OnStop, StartReview, TimerInvariant, TimerOfPhase, Timed
  <2>4. ran' >= ran
    BY <2>2, <2>3 DEF Next, Expire, Tick, PauseExperiment, ResumeExperiment
  <2> QED BY <2>2, <2>4
<1> QED BY <1>1, TimerInvariantAlways, PTL DEF Spec, OffersKeepTheirOrder

-----------------------------------------------------------------------------
(* The phases and the timer, step by step                                  *)

Order(p) == CASE p = "None"   -> 0
              [] p = "Round"  -> 1
              [] p = "Review" -> 2
              [] OTHER        -> 3

\* Phase p of round r comes before phase q of round s.
Before(p, r, q, s) == r < s \/ (r = s /\ Order(p) < Order(q))

Limit(p) == IF p = "Review" THEN ReviewTime ELSE RoundTime

\* No callback leads back from the payouts, and none out of the beginning.
PhaseEnds ==
  /\ phase = "None" => timer.callback = "None" /\ round = 0
  /\ phase = "Payouts" => timer.callback = "EndReview" /\ round = NRounds

PhaseInvariant == TimerInvariant /\ PhaseEnds

\* Registering is the last that is done to a timer that is restarted.
LEMMA RestartedCallback ==
  ASSUME NEW t \in Timer, NEW d \in Nat, NEW c \in Callback
  PROVE  /\ Restarted(t, d, c).callback = c
         /\ GetTimeRemaining(Restarted(t, d, c)) = d
<1>1. /\ Restarted(t, d, c).callback = c /\ Restarted(t, d, c).state = "Running"
      /\ Restarted(t, d, c).accum_time = 0 /\ Restarted(t, d, c).since_start = 0
      /\ Restarted(t, d, c).duration = d
  BY RestartedTimer
<1> QED BY <1>1 DEF GetTimeRemaining, GetTimeElapsed

\* In a phase, what is left of its time is what the timer has not run.
LEMMA RemainingInPhase ==
  ASSUME TimerInvariant, Timed
  PROVE  /\ GetTimeRemaining(timer) = Duration - ran
         /\ Duration = Limit(phase) /\ Duration \in Nat /\ ran \in Nat
BY TimesAssumption
   DEF TimerInvariant, TimerOfPhase, TypeOK, Timed, Duration, Limit, GetTimeRemaining

\* What has run longer leaves less.
LEMMA LessIsLeft ==
  ASSUME NEW d \in Nat, NEW a \in Nat, NEW b \in Nat, b >= a
  PROVE  d - b <= d - a
OBVIOUS

\* A step goes on in its phase, with less time left, or begins a later one,
\* whose timer has its whole time.
LEMMA PhaseStep ==
  ASSUME PhaseInvariant, [Next]_vars
  PROVE  /\ PhaseInvariant'
         /\ \/ /\ phase' = phase /\ round' = round
               /\ Timed => GetTimeRemaining(timer)' <= GetTimeRemaining(timer)
            \/ /\ Before(phase, round, phase', round') /\ phase' # "None"
               /\ Timed' => GetTimeRemaining(timer)' = Limit(phase')
<1>1. TimerInvariant /\ TimerInvariant'
  BY TimerStep DEF PhaseInvariant
<1>2. /\ timer \in Timer /\ round \in 0..NRounds /\ NRounds \in Nat \ {0}
      /\ RoundTime \in Nat /\ ReviewTime \in Nat /\ ran \in Nat /\ phase \in Phase
  BY <1>1, TimesAssumption DEF TimerInvariant, TypeOK
<1>3. ASSUME phase' = phase, round' = round, Timed, ran' >= ran, ran' \in Nat
      PROVE  GetTimeRemaining(timer)' <= GetTimeRemaining(timer)
  <2>1. GetTimeRemaining(timer) = Duration - ran /\ Duration \in Nat
    BY <1>1, <1>3, RemainingInPhase
  <2>2. Timed' /\ Duration' = Duration
    BY <1>3 DEF Duration, Timed
  <2>3. GetTimeRemaining(timer)' = Duration' - ran'
    BY <1>1, <2>2 DEF TimerInvariant, TimerOfPhase, GetTimeRemaining
  <2>4. GetTimeRemaining(timer)' = Duration - ran'
    BY <2>2, <2>3
  <2>5. Duration - ran' <= Duration - ran
    <3>1. Duration \in Nat /\ ran \in Nat /\ ran' \in Nat /\ ran' >= ran
      BY <1>2, <1>3, <2>1
    <3> QED BY <3>1, LessIsLeft
  <2> QED BY <2>1, <2>4, <2>5
<1>4. CASE StartExperiment
  <2>1. status = "NotStarted" /\ StartRound(timer)
    BY <1>4 DEF StartExperiment
  <2>2. phase' = "Round" /\ round' = 1 /\ phase = "None" /\ round = 0
    BY <1>1, <2>1 DEF StartRound, TimerInvariant
  <2>3. /\ timer' = Restarted(timer, RoundTime, "EndRound")
        /\ GetTimeRemaining(timer') = RoundTime
    BY <1>2, <2>1, RestartedCallback DEF StartRound, Callback
  <2> QED BY <1>1, <2>2, <2>3 DEF PhaseInvariant, PhaseEnds, Before, Limit
<1>5. CASE OnStop
  <2> DEFINE t == [timer EXCEPT !.state = "Ended", !.accum_time = timer.duration]
  <2>1. t \in Timer /\ t.callback = timer.callback
    BY <1>2 DEF Timer
  <2>2. CASE timer.callback = "EndRound" /\ StartReview(t)
    <3>1. phase = "Round" /\ phase' = "Review" /\ round' = round
      BY <1>1, <1>2, <2>2
         DEF StartReview, PhaseInvariant, PhaseEnds, TimerInvariant, TimerOfPhase,
             Timed, Phase
    <3>2. GetTimeRemaining(timer') = ReviewTime
      BY <1>2, <2>1, <2>2, RestartedCallback DEF StartReview, Callback
    <3>3. Before(phase, round, phase', round')
      BY <3>1 DEF Before, Order
    <3> QED BY <1>1, <3>1, <3>2, <3>3 DEF PhaseInvariant, PhaseEnds, Limit
  <2>3. CASE timer.callback = "EndReview" /\ round < NRounds /\ StartRound(t)
    <3>1. phase' = "Round" /\ round' = round + 1
      BY <2>3 DEF StartRound
    <3>2. GetTimeRemaining(timer') = RoundTime
      BY <1>2, <2>1, <2>3, RestartedCallback DEF StartRound, Callback
    <3>3. Before(phase, round, phase', round')
      BY <1>2, <3>1 DEF Before
    <3> QED BY <1>1, <3>1, <3>2, <3>3 DEF PhaseInvariant, PhaseEnds, Limit
  <2>4. CASE timer.callback = "EndReview" /\ ~(round < NRounds) /\ StartPayouts(t)
    <3>1. /\ phase \in {"Review", "Payouts"} /\ phase' = "Payouts" /\ round' = round
          /\ timer' = t /\ round = NRounds
      BY <1>1, <1>2, <2>4
         DEF StartPayouts, PhaseInvariant, PhaseEnds, TimerInvariant, TimerOfPhase,
             Timed, Phase
    <3>2. phase = "Review" => Before(phase, round, phase', round')
      BY <3>1 DEF Before, Order
    <3>3. PhaseEnds'
      BY <2>1, <2>4, <3>1 DEF PhaseEnds
    <3> QED BY <1>1, <3>1, <3>2, <3>3 DEF PhaseInvariant, Timed
  <2>5. CASE /\ timer.callback = "None"
             /\ timer' = t
             /\ UNCHANGED <<phase, round, status, ran>>
    <3>1. ~Timed
      BY <1>1, <2>5 DEF TimerInvariant, TimerOfPhase, Timed
    <3> QED BY <1>1, <2>1, <2>5, <3>1 DEF PhaseInvariant, PhaseEnds
  <2> QED BY <1>5, <2>2, <2>3, <2>4, <2>5 DEF OnStop, EndReview
<1>6. CASE Expire \/ Tick \/ PauseExperiment \/ ResumeExperiment \/ UNCHANGED vars
  <2>1. phase' = phase /\ round' = round /\ ran' >= ran /\ ran' \in Nat
    BY <1>2, <1>6 DEF Expire, Tick, PauseExperiment, ResumeExperiment, vars
  <2>2. timer'.callback = timer.callback
    BY <1>2, <1>6 DEF Expire, Tick, PauseExperiment, ResumeExperiment, vars, Pause,
       Start, Cancel, Timer
  <2> QED BY <1>1, <1>3, <2>1, <2>2 DEF PhaseInvariant, PhaseEnds
<1> QED BY <1>4, <1>5, <1>6 DEF Next

-----------------------------------------------------------------------------
(* What a message says depends on the phase that was told before it        *)

Message == [type : {"Phase"}, phase : Phase, round : Nat]
             \cup [type : {"TimeUpdate"}, body : {<<ms>> : ms \in Int}]

Shown == [phase : Phase, round : Nat, told : BOOLEAN]

\* The last phase told before message i of n is phase p of round r, by an
\* earlier message or, if there is none, by what the client was told already.
Told(n, s, i, p, r) ==
  \/ /\ p = s.phase /\ r = s.round
     /\ \A j \in 1..(i - 1) : n[j].type # "Phase"
  \/ \E j \in 1..(i - 1) :
       /\ n[j].type = "Phase" /\ n[j].phase = p /\ n[j].round = r
       /\ \A k \in (j + 1)..(i - 1) : n[k].type # "Phase"

\* A time ms that is told in phase p of round r is not less than is left, if
\* that is still the phase, and no more than the phase lasts.
Right(ms, p, r, p0, r0, left, lt) ==
  /\ p = p0 /\ r = r0 /\ p0 \in {"Round", "Review"} => ms >= left
  /\ ~lt => 0 <= ms /\ ms <= Limit(p)

\* The messages n that are on their way in phase p0 of round r0 are about that
\* phase or an earlier one, the last about that phase, and tell right times.
Consistent(n, s, p0, r0, left, lt) ==
  /\ \A i \in 1..(Len(n) + 1), p \in Phase, r \in Nat :
       Told(n, s, i, p, r) => ~Before(p0, r0, p, r)
  /\ \A p \in Phase, r \in Nat :
       Told(n, s, Len(n) + 1, p, r) => p = p0 /\ r = r0
  /\ \A i \in 1..Len(n), p \in Phase, r \in Nat :
       n[i].type = "TimeUpdate" /\ Told(n, s, i, p, r)
         => Right(n[i].body[1], p, r, p0, r0, left, lt)

\* A phase that is not after another comes before whatever the other does.
LEMMA BeforeOrder ==
  ASSUME NEW p \in Phase, NEW q \in Phase, NEW s \in Phase,
         NEW u \in Nat, NEW v \in Nat, NEW w \in Nat
  PROVE  /\ ~Before(p, u, p, u)
         /\ ~Before(q, v, p, u) /\ Before(q, v, s, w) => Before(p, u, s, w)
         /\ Before(p, u, s, w) => ~Before(s, w, p, u)
<1> DEFINE a == Order(p)
           b == Order(q)
           c == Order(s)
<1>1. a \in Nat /\ b \in Nat /\ c \in Nat
  BY DEF Order, Phase
<1>2. /\ Before(p, u, s, w) <=> u < w \/ (u = w /\ a < c)
      /\ Before(q, v, s, w) <=> v < w \/ (v = w /\ b < c)
      /\ Before(q, v, p, u) <=> v < u \/ (v = u /\ b < a)
      /\ Before(s, w, p, u) <=> w < u \/ (w = u /\ c < a)
      /\ Before(p, u, p, u) <=> u < u \/ (u = u /\ a < a)
  BY DEF Before
<1> HIDE DEF a, b, c
<1> QED BY <1>1, <1>2

\* From one message to the next, only a phase changes what has been told.
LEMMA ToldNext ==
  ASSUME NEW n \in Seq(Message), NEW s \in Shown, NEW i \in 1..Len(n),
         NEW p, NEW r, Told(n, s, i + 1, p, r)
  PROVE  /\ n[i].type = "Phase" => p = n[i].phase /\ r = n[i].round
         /\ n[i].type # "Phase" => Told(n, s, i, p, r)
<1>1. /\ (i + 1) - 1 = i /\ i \in 1..i /\ i \in Nat /\ Len(n) \in Nat
      /\ \A j \in 1..(i - 1) : j \in 1..i /\ j \in Nat
      /\ \A j \in 1..i : j # i => j \in 1..(i - 1) /\ i \in (j + 1)..i
      /\ \A j \in 1..i : \A k \in (j + 1)..(i - 1) : k \in (j + 1)..i
  OBVIOUS
<1>2. CASE p = s.phase /\ r = s.round /\ \A j \in 1..i : n[j].type # "Phase"
  BY <1>1, <1>2 DEF Told
<1>3. ASSUME NEW j \in 1..i, n[j].type = "Phase", n[j].phase = p, n[j].round = r,
             \A k \in (j + 1)..i : n[k].type # "Phase"
      PROVE  /\ n[i].type = "Phase" => p = n[i].phase /\ r = n[i].round
             /\ n[i].type # "Phase" => Told(n, s, i, p, r)
  <2>1. CASE j = i
    BY <1>3, <2>1
  <2>2. CASE j # i
    <3>1. n[i].type # "Phase" /\ j \in 1..(i - 1)
      BY <1>1, <1>3, <2>2
    <3> QED BY <1>1, <1>3, <3>1 DEF Told
  <2> QED BY <2>1, <2>2
<1> QED BY <1>1, <1>2, <1>3 DEF Told

\* What was told before a message does not depend on those after it.
LEMMA ToldEarlier ==
  ASSUME NEW n \in Seq(Message), NEW m \in Message, NEW s \in Shown,
         NEW i \in 1..(Len(n) + 1), NEW p, NEW r
  PROVE  Told(Append(n, m), s, i, p, r) => Told(n, s, i, p, r)
<1>1. \A j \in 1..(i - 1) : j \in 1..Len(n) /\ Append(n, m)[j] = n[j]
  OBVIOUS
<1>2. \A j \in 1..(i - 1) : \A k \in (j + 1)..(i - 1) : k \in 1..(i - 1)
  OBVIOUS
<1> QED BY <1>1, <1>2 DEF Told

\* Time passes.
LEMMA LessLeft ==
  ASSUME NEW n \in Seq(Message), NEW s, NEW p0, NEW r0, NEW lt,
         NEW left \in Int, NEW less \in Int,
         p0 \in {"Round", "Review"} => less <= left,
         Consistent(n, s, p0, r0, left, lt)
  PROVE  Consistent(n, s, p0, r0, less, lt)
<1>1. \A i \in 1..Len(n) : n[i].type = "TimeUpdate" => n[i].body[1] \in Int
  BY DEF Message
<1>2. ASSUME NEW ms \in Int, NEW p, NEW r, Right(ms, p, r, p0, r0, left, lt)
      PROVE  Right(ms, p, r, p0, r0, less, lt)
  BY <1>2 DEF Right
<1> QED BY <1>1, <1>2 DEF Consistent

\* A phase begins and is told.
LEMMA NewPhase ==
  ASSUME NEW n \in Seq(Message), NEW s \in Shown, NEW lt,
         NEW p0 \in Phase, NEW r0 \in Nat, NEW left,
         NEW p1 \in Phase, NEW r1 \in Nat, NEW left1,
         Before(p0, r0, p1, r1),
         Consistent(n, s, p0, r0, left, lt)
  PROVE  Consistent(Append(n, PhaseNews(p1, r1)), s, p1, r1, left1, lt)
<1> DEFINE m == PhaseNews(p1, r1)
           l == Append(n, m)
<1>1. m \in Message /\ m.type = "Phase" /\ m.phase = p1 /\ m.round = r1
  BY DEF PhaseNews, Message
<1>2. /\ l \in Seq(Message) /\ Len(l) = Len(n) + 1 /\ l[Len(n) + 1] = m
      /\ \A i \in 1..Len(n) : l[i] = n[i]
      /\ Len(n) \in Nat
  BY <1>1
<1> HIDE DEF m, l
<1>3. ASSUME NEW i \in 1..(Len(n) + 1), NEW p \in Phase, NEW r \in Nat,
             Told(l, s, i, p, r)
      PROVE  Told(n, s, i, p, r) /\ ~Before(p0, r0, p, r)
  BY <1>1, <1>3, ToldEarlier DEF Consistent, l
<1>4. ASSUME NEW p \in Phase, NEW r \in Nat, Told(l, s, Len(l) + 1, p, r)
      PROVE  p = p1 /\ r = r1
  <2>1. Len(l) \in 1..Len(l) /\ l[Len(l)] = m
    BY <1>2
  <2>2. l[Len(l)].type = "Phase" => p = l[Len(l)].phase /\ r = l[Len(l)].round
    <3>1. l \in Seq(Message) /\ Told(l, s, Len(l) + 1, p, r)
      BY <1>2, <1>4
    <3> QED BY <2>1, <3>1, ToldNext, Zenon
  <2> QED BY <1>1, <2>1, <2>2
<1>5. ASSUME NEW i \in 1..(Len(l) + 1), NEW p \in Phase, NEW r \in Nat,
             Told(l, s, i, p, r)
      PROVE  ~Before(p1, r1, p, r)
  <2>1. CASE i = Len(l) + 1
    BY <1>4, <1>5, <2>1, BeforeOrder
  <2>2. CASE i # Len(l) + 1
    <3>1. ~Before(p0, r0, p, r)
      BY <1>2, <1>3, <1>5, <2>2
    <3>2. Before(p, r, p1, r1)
      BY <3>1, BeforeOrder
    <3> QED BY <3>2, BeforeOrder
  <2> QED BY <2>1, <2>2
<1>6. ASSUME NEW i \in 1..Len(l), NEW p \in Phase, NEW r \in Nat,
             l[i].type = "TimeUpdate", Told(l, s, i, p, r)
      PROVE  Right(l[i].body[1], p, r, p1, r1, left1, lt)
  <2>1. i # Len(n) + 1
    BY <1>1, <1>2, <1>6
  <2>2. i \in 1..Len(n) /\ l[i] = n[i] /\ i \in 1..(Len(n) + 1)
    BY <1>2, <2>1
  <2>3. Told(n, s, i, p, r) /\ ~Before(p0, r0, p, r)
    BY <1>3, <1>6, <2>2
  <2>4. Right(n[i].body[1], p, r, p0, r0, left, lt)
    BY <1>6, <2>2, <2>3 DEF Consistent
  <2>5. ~(p = p1 /\ r = r1)
    BY <2>3
  <2> QED BY <2>2, <2>4, <2>5 DEF Right
<1> QED BY <1>4, <1>5, <1>6 DEF Consistent, l, m

\* The time is told.
LEMMA NewTime ==
  ASSUME NEW n \in Seq(Message), NEW s \in Shown, NEW lt \in BOOLEAN,
         NEW lt1 \in BOOLEAN, NEW p0 \in Phase, NEW r0 \in Nat, NEW left \in Int,
         NEW ms \in Int, NEW m \in Message, m = [type |-> "TimeUpdate", body |-> <<ms>>],
         Right(ms, p0, r0, p0, r0, left, lt1), lt => lt1,
         Consistent(n, s, p0, r0, left, lt)
  PROVE  Consistent(Append(n, m), s, p0, r0, left, lt1)
<1> DEFINE l == Append(n, m)
<1>1. m.type = "TimeUpdate" /\ m.body[1] = ms
  OBVIOUS
<1>2. /\ l \in Seq(Message) /\ Len(l) = Len(n) + 1 /\ l[Len(n) + 1] = m
      /\ \A i \in 1..Len(n) : l[i] = n[i]
      /\ Len(n) \in Nat
  OBVIOUS
<1> HIDE DEF l
<1>3. ASSUME NEW i \in 1..(Len(n) + 1), NEW p, NEW r, Told(l, s, i, p, r)
      PROVE  Told(n, s, i, p, r)
  BY <1>3, ToldEarlier DEF l
<1>4. ASSUME NEW p \in Phase, NEW r \in Nat, Told(l, s, Len(l) + 1, p, r)
      PROVE  p = p0 /\ r = r0
  <2>1. Len(l) \in 1..Len(l) /\ Len(l) \in 1..(Len(n) + 1)
    BY <1>2
  <2>2. Told(l, s, Len(l), p, r)
    BY <1>1, <1>2, <1>4, <2>1, ToldNext
  <2>3. Told(n, s, Len(n) + 1, p, r)
    BY <1>2, <1>3, <2>1, <2>2
  <2> QED BY <2>3 DEF Consistent
<1>5. ASSUME NEW i \in 1..(Len(l) + 1), NEW p \in Phase, NEW r \in Nat,
             Told(l, s, i, p, r)
      PROVE  ~Before(p0, r0, p, r)
  <2>1. CASE i = Len(l) + 1
    BY <1>4, <1>5, <2>1, BeforeOrder
  <2>2. CASE i # Len(l) + 1
    <3>1. i \in 1..(Len(n) + 1)
      BY <1>2, <2>2
    <3> QED BY <1>3, <1>5, <3>1 DEF Consistent
  <2> QED BY <2>1, <2>2
<1>6. ASSUME NEW i \in 1..Len(l), NEW p \in Phase, NEW r \in Nat,
             l[i].type = "TimeUpdate", Told(l, s, i, p, r)
      PROVE  Right(l[i].body[1], p, r, p0, r0, left, lt1)
  <2>1. i \in 1..(Len(n) + 1) /\ Told(n, s, i, p, r)
    BY <1>2, <1>3, <1>6
  <2>2. CASE i = Len(n) + 1
    <3>1. p = p0 /\ r = r0
      BY <2>1, <2>2 DEF Consistent
    <3> QED BY <1>1, <1>2, <2>2, <3>1
  <2>3. CASE i # Len(n) + 1
    <3>1. i \in 1..Len(n) /\ l[i] = n[i]
      BY <1>2, <2>3
    <3>2. Right(n[i].body[1], p, r, p0, r0, left, lt)
      BY <1>6, <2>1, <3>1 DEF Consistent
    <3> QED BY <3>1, <3>2 DEF Right
  <2> QED BY <2>2, <2>3
<1> QED BY <1>4, <1>5, <1>6 DEF Consistent, l

\* The first message is handled: what follows it is as it was.
LEMMA Handled ==
  ASSUME NEW n \in Seq(Message), n # << >>, NEW s \in Shown, NEW s1 \in Shown,
         NEW p0 \in Phase, NEW r0 \in Nat, NEW left, NEW lt,
         IF n[1].type = "Phase"
         THEN s1.phase = n[1].phase /\ s1.round = n[1].round
         ELSE s1.phase = s.phase /\ s1.round = s.round,
         Consistent(n, s, p0, r0, left, lt)
  PROVE  Consistent(Tail(n), s1, p0, r0, left, lt)
<1> DEFINE l == Tail(n)
<1>1. /\ l \in Seq(Message) /\ Len(l) + 1 = Len(n) /\ Len(l) \in Nat
      /\ \A i \in 1..Len(l) : l[i] = n[i + 1] /\ i + 1 \in 1..Len(n)
  OBVIOUS
<1> HIDE DEF l
<1>2. ASSUME NEW i \in 1..(Len(l) + 1), NEW p, NEW r, Told(l, s1, i, p, r)
      PROVE  Told(n, s, i + 1, p, r)
  <2>1. /\ i \in Nat /\ (i + 1) - 1 = i /\ 1 \in 1..i
        /\ \A j \in 1..(i - 1) : l[j] = n[j + 1] /\ j + 1 \in 1..i
        /\ \A j \in 1..i : j # 1 => j - 1 \in 1..(i - 1) /\ n[j] = l[j - 1]
    <3>1. i - 1 \in 0..Len(l)
      BY <1>1
    <3> QED BY <1>1, <3>1
  <2>2. CASE p = s1.phase /\ r = s1.round /\ \A j \in 1..(i - 1) : l[j].type # "Phase"
    <3>1. \A j \in 2..i : n[j].type # "Phase"
      BY <2>1, <2>2
    <3>2. CASE n[1].type = "Phase"
      <4>1. n[1].phase = p /\ n[1].round = r
        BY <2>2, <3>2
      <4>2. \A k \in (1 + 1)..i : n[k].type # "Phase"
        BY <3>1
      <4> QED BY <2>1, <3>2, <4>1, <4>2 DEF Told
    <3>3. CASE n[1].type # "Phase"
      <4>1. p = s.phase /\ r = s.round
        BY <2>2, <3>3
      <4>2. \A j \in 1..i : n[j].type # "Phase"
        BY <3>1, <3>3
      <4> QED BY <2>1, <4>1, <4>2 DEF Told
    <3> QED BY <3>2, <3>3
  <2>3. ASSUME NEW j \in 1..(i - 1),
               l[j].type = "Phase", l[j].phase = p, l[j].round = r,
               \A k \in (j + 1)..(i - 1) : l[k].type # "Phase"
        PROVE  Told(n, s, i + 1, p, r)
    <3>1. j + 1 \in 1..i /\ n[j + 1] = l[j]
      BY <2>1
    <3>2. \A k \in (j + 1 + 1)..i : k - 1 \in (j + 1)..(i - 1) /\ k \in 1..i /\ k # 1
      BY <2>1
    <3>3. \A k \in (j + 1 + 1)..i : n[k].type # "Phase"
      BY <2>1, <2>3, <3>2
    <3> QED BY <2>1, <2>3, <3>1, <3>3 DEF Told
  <2> QED BY <1>2, <2>2, <2>3 DEF Told
<1>3. \A i \in 1..(Len(l) + 1) : i + 1 \in 1..(Len(n) + 1)
  BY <1>1
<1>4. \A i \in 1..(Len(l) + 1), p \in Phase, r \in Nat :
        Told(l, s1, i, p, r) => ~Before(p0, r0, p, r)
  BY <1>2, <1>3 DEF Consistent
<1>5. \A p \in Phase, r \in Nat :
        Told(l, s1, Len(l) + 1, p, r) => p = p0 /\ r = r0
  <2>1. Len(l) + 1 \in 1..(Len(l) + 1) /\ Len(l) + 1 + 1 = Len(n) + 1
    BY <1>1
  <2> QED BY <1>2, <2>1 DEF Consistent
<1>6. \A i \in 1..Len(l), p \in Phase, r \in Nat :
        l[i].type = "TimeUpdate" /\ Told(l, s1, i, p, r)
          => Right(l[i].body[1], p, r, p0, r0, left, lt)
  <2>1. \A i \in 1..Len(l) : i \in 1..(Len(l) + 1)
    BY <1>1
  <2> QED BY <1>1, <1>2, <2>1 DEF Consistent
<1> QED BY <1>4, <1>5, <1>6 DEF Consistent, l

-----------------------------------------------------------------------------
(* The client's clock                                                      *)

\* The client's timer never runs: it shows what it was set to.
ClockTimer == [state : {"NotStarted", "Paused"}, duration : Int,
               accum_time : {0}, since_start : {0}, until_expiry : {0},
               waiting : {FALSE}, callback : {"None"}]

ClockTypes ==
  /\ clock \in ClockTimer /\ news \in Seq(Message) /\ shown \in Shown
  /\ late \in BOOLEAN

ClockInvariant ==
  /\ PhaseInvariant /\ ClockTypes
  /\ phase = "None" => news = << >> /\ ~shown.told
  /\ Consistent(news, shown, phase, round, GetTimeRemaining(timer), late)
  /\ ~Before(phase, round, shown.phase, shown.round)
  /\ shown.told => Right(clock.duration, shown.phase, shown.round, phase, round,
                         GetTimeRemaining(timer), late)

\* A remaining time is read as no less than it is, and as it is if not below zero.
LEMMA SetClock ==
  ASSUME NEW c \in ClockTimer, NEW ms \in Int
  PROVE  /\ UpdateTime(Pause(c), ReadTime(<<ms>>)) \in ClockTimer
         /\ UpdateTime(Pause(c), ReadTime(<<ms>>)).duration >= ms
         /\ ms >= 0 => UpdateTime(Pause(c), ReadTime(<<ms>>)).duration = ms
<1> DEFINE w == ReadTime(<<ms>>)
           d == Pause(c)
<1>1. w \in Int /\ w >= ms /\ (ms >= 0 => w = ms)
  BY ModulusAssumption DEF ReadTime, AsUnsigned
<1>2. d \in ClockTimer /\ d.state = "Paused"
  <2>1. CASE c.state = "Paused"
    BY <2>1 DEF Pause
  <2>2. CASE c.state = "NotStarted"
    <3>1. GetTimeElapsed(c) = 0
      BY <2>2 DEF ClockTimer, GetTimeElapsed
    <3>2. d = [[c EXCEPT !.accum_time = 0, !.state = "Paused"] EXCEPT !.waiting = FALSE]
      BY <2>2, <3>1 DEF Pause, Cancel
    <3> HIDE DEF d
    <3> QED BY <3>2 DEF ClockTimer
  <2> QED BY <2>1, <2>2 DEF ClockTimer
<1> HIDE DEF w, d
<1>3. UpdateTime(d, w) = [d EXCEPT !.duration = w]
  BY <1>2 DEF UpdateTime
<1>4. [d EXCEPT !.duration = w] \in ClockTimer /\ [d EXCEPT !.duration = w].duration = w
  BY <1>1, <1>2 DEF ClockTimer
<1> QED BY <1>1, <1>3, <1>4 DEF w, d

\* In a phase that ends, the remaining time is at most the phase's length.
LEMMA AtMostTheLimit ==
  ASSUME PhaseInvariant
  PROVE  /\ GetTimeRemaining(timer) \in Int
         /\ Timed => GetTimeRemaining(timer) <= Limit(phase)
<1>1. GetTimeRemaining(timer) \in Int
  BY DEF PhaseInvariant, TimerInvariant, TypeOK, Timer, GetTimeRemaining, GetTimeElapsed
<1>2. ASSUME Timed PROVE GetTimeRemaining(timer) <= Limit(phase)
  <2>1. /\ GetTimeRemaining(timer) = Duration - ran /\ Duration = Limit(phase)
        /\ Duration \in Nat /\ ran \in Nat
    BY <1>2, RemainingInPhase DEF PhaseInvariant
  <2> QED BY <2>1
<1> QED BY <1>1, <1>2

\* An accepted offer tells the time of the phase that is.
LEMMA AcceptStep ==
  ASSUME ClockInvariant, Accept
  PROVE  ClockInvariant'
<1> DEFINE ms == GetTimeRemaining(timer)
           m == TimeUpdate(timer)
<1>1. PhaseInvariant' /\ phase = "Round" /\ phase \in Phase /\ round \in Nat
  BY DEF ClockInvariant, Accept, vars, PhaseInvariant, PhaseEnds, TimerInvariant,
         TimerOfPhase, CompletionIsDue, TypeOK, Timed, Duration, Phase
<1>2. ms \in Int /\ ms <= Limit(phase)
  BY <1>1, AtMostTheLimit DEF ClockInvariant, Timed
<1>3. /\ timer' = timer /\ phase' = phase /\ round' = round /\ clock' = clock
      /\ shown' = shown /\ news' = Append(news, m)
      /\ late' = (late \/ ms < 0)
  BY DEF Accept, vars
<1>4. /\ late' \in BOOLEAN /\ (late => late') /\ (~late' => ms >= 0)
  <2>1. late \in BOOLEAN
    BY DEF ClockInvariant, ClockTypes
  <2>2. late' \in BOOLEAN /\ (late => late') /\ (~late' => ~(ms < 0))
    BY <1>3, <2>1, Zenon
  <2>3. ~(ms < 0) => ms >= 0
    BY <1>2
  <2> QED BY <2>2, <2>3, Zenon
<1>5. Right(ms, phase, round, phase, round, ms, late')
  BY <1>2, <1>4 DEF Right
<1>6. m \in Message /\ m = [type |-> "TimeUpdate", body |-> <<ms>>]
  BY <1>2 DEF TimeUpdate, WriteTime, Message
<1>7. Consistent(news', shown, phase, round, ms, late')
  <2>1. /\ news \in Seq(Message) /\ shown \in Shown /\ late \in BOOLEAN
        /\ Consistent(news, shown, phase, round, ms, late)
    BY DEF ClockInvariant, ClockTypes
  <2> HIDE DEF m, ms
  <2> QED BY <1>1, <1>2, <1>3, <1>4, <1>5, <1>6, <2>1, NewTime
<1>8. ClockTypes'
  <2>1. news' \in Seq(Message)
    BY <1>3, <1>6 DEF ClockInvariant, ClockTypes
  <2> QED BY <1>3, <1>4, <2>1 DEF ClockInvariant, ClockTypes
<1>9. GetTimeRemaining(timer)' = ms
  BY <1>3
<1>10. shown.told => Right(clock.duration, shown.phase, shown.round, phase, round,
                           ms, late')
  BY <1>4 DEF ClockInvariant, Right
<1> QED BY <1>1, <1>3, <1>7, <1>8, <1>9, <1>10 DEF ClockInvariant

\* Messages handled are those about the phase the client then knows.
LEMMA HandleStep ==
  ASSUME ClockInvariant, HandleNews
  PROVE  ClockInvariant'
<1> DEFINE left == GetTimeRemaining(timer)
           m == news[1]
<1>1. /\ PhaseInvariant' /\ phase \in Phase /\ round \in Nat /\ phase' = phase
      /\ round' = round /\ late' = late /\ GetTimeRemaining(timer)' = left
  BY DEF ClockInvariant, HandleNews, vars, PhaseInvariant, PhaseEnds, TimerInvariant,
         TimerOfPhase, CompletionIsDue, TypeOK, Timed, Duration, Phase
<1>2. /\ news \in Seq(Message) /\ news # << >> /\ shown \in Shown /\ m \in Message
      /\ Len(news) \in Nat /\ 1 \in 1..Len(news) /\ m = Head(news)
      /\ news' = Tail(news) /\ news' \in Seq(Message) /\ clock \in ClockTimer
      /\ late \in BOOLEAN
  BY DEF ClockInvariant, ClockTypes, HandleNews
<1>3. Consistent(news, shown, phase, round, left, late) /\ phase # "None"
  BY <1>2 DEF ClockInvariant
<1>4. CASE m.type = "TimeUpdate"
  <2>1. PICK ms \in Int : m.body = <<ms>>
    BY <1>2, <1>4 DEF Message
  <2>2. /\ clock' = UpdateTime(Pause(clock), ReadTime(<<ms>>))
        /\ shown' = [shown EXCEPT !.told = TRUE]
    BY <1>2, <1>4, <2>1 DEF HandleNews, ProcessTimeUpdate
  <2>3. /\ shown' \in Shown /\ shown'.phase = shown.phase /\ shown'.round = shown.round
    BY <1>2, <2>2 DEF Shown
  <2>4. Right(ms, shown.phase, shown.round, phase, round, left, late)
    <3>1. Told(news, shown, 1, shown.phase, shown.round)
      BY DEF Told
    <3>2. shown.phase \in Phase /\ shown.round \in Nat /\ m.body[1] = ms
      BY <1>2, <2>1 DEF Shown
    <3> QED BY <1>2, <1>3, <1>4, <3>1, <3>2 DEF Consistent
  <2>5. /\ clock' \in ClockTimer /\ clock'.duration >= ms
        /\ ms >= 0 => clock'.duration = ms
    BY <1>2, <2>2, SetClock
  <2>6. Right(clock'.duration, shown.phase, shown.round, phase, round, left, late)
    <3>1. left \in Int /\ clock'.duration \in Int
      BY <2>5, AtMostTheLimit DEF ClockInvariant, ClockTimer
    <3> QED BY <2>4, <2>5, <3>1 DEF Right
  <2>7. Consistent(news', shown', phase, round, left, late)
    <3>1. IF news[1].type = "Phase"
          THEN shown'.phase = news[1].phase /\ shown'.round = news[1].round
          ELSE shown'.phase = shown.phase /\ shown'.round = shown.round
      BY <1>4, <2>3
    <3> HIDE DEF left
    <3> QED BY <1>1, <1>2, <1>3, <2>3, <3>1, Handled
  <2>8. ~Before(phase, round, shown.phase, shown.round)
    BY DEF ClockInvariant
  <2> QED BY <1>1, <1>2, <1>3, <2>3, <2>5, <2>6, <2>7, <2>8 DEF ClockInvariant, ClockTypes
<1>5. CASE m.type = "Phase"
  <2>1. m.phase \in Phase /\ m.round \in Nat
    BY <1>2, <1>5 DEF Message
  <2>2. /\ clock' = clock
        /\ shown' = [phase |-> m.phase, round |-> m.round, told |-> FALSE]
    BY <1>2, <1>5 DEF HandleNews
  <2>3. /\ shown' \in Shown /\ shown'.phase = m.phase /\ shown'.round = m.round
        /\ ~shown'.told
    BY <2>1, <2>2 DEF Shown
  <2>4. Consistent(news', shown', phase, round, left, late)
    <3>1. IF news[1].type = "Phase"
          THEN shown'.phase = news[1].phase /\ shown'.round = news[1].round
          ELSE shown'.phase = shown.phase /\ shown'.round = shown.round
      BY <1>5, <2>3
    <3> HIDE DEF left
    <3> QED BY <1>1, <1>2, <1>3, <2>3, <3>1, Handled
  <2>5. ~Before(phase, round, m.phase, m.round)
    <3>1. /\ 2 \in 1..(Len(news) + 1) /\ 1 \in 1..(2 - 1)
          /\ \A k \in (1 + 1)..(2 - 1) : news[k].type # "Phase"
      BY <1>2
    <3>2. Told(news, shown, 2, m.phase, m.round)
      BY <1>5, <3>1 DEF Told
    <3> QED BY <1>3, <2>1, <3>1, <3>2 DEF Consistent
  <2> QED BY <1>1, <1>2, <1>3, <2>2, <2>3, <2>4, <2>5 DEF ClockInvariant, ClockTypes
<1> QED BY <1>2, <1>4, <1>5 DEF Message

\* Every step of the experiment either keeps the phase or tells the next.
LEMMA AnnounceStep ==
  ASSUME ClockInvariant, Next /\ Announce
  PROVE  ClockInvariant'
<1> DEFINE left == GetTimeRemaining(timer)
           left1 == GetTimeRemaining(timer')
           m == PhaseNews(phase', round')
<1>1. /\ PhaseInvariant' /\ phase \in Phase /\ round \in Nat
      /\ phase' \in Phase /\ round' \in Nat
  <2>1. PhaseInvariant'
    BY PhaseStep DEF ClockInvariant
  <2> QED BY <2>1, TimesAssumption DEF ClockInvariant, PhaseInvariant, TimerInvariant, TypeOK
<1>2. left \in Int /\ left1 \in Int /\ left1 = GetTimeRemaining(timer)'
  <2>1. GetTimeRemaining(timer)' \in Int
    <3>1. timer' \in Timer
      BY <1>1 DEF PhaseInvariant, TimerInvariant, TypeOK
    <3> QED BY <3>1 DEF Timer, GetTimeRemaining, GetTimeElapsed
  <2> QED BY <2>1, AtMostTheLimit DEF ClockInvariant
<1>3. /\ shown' = shown /\ clock' = clock /\ late' = late
      /\ shown \in Shown /\ clock \in ClockTimer /\ late \in BOOLEAN
      /\ news \in Seq(Message)
      /\ Consistent(news, shown, phase, round, left, late)
      /\ ~Before(phase, round, shown.phase, shown.round)
      /\ shown.phase \in Phase /\ shown.round \in Nat
  BY DEF ClockInvariant, ClockTypes, Announce, Shown
<1>4. CASE /\ phase' = phase /\ round' = round
           /\ Timed => left1 <= left
  <2>1. news' = news
    BY <1>3, <1>4 DEF Announce
  <2>2. phase \in {"Round", "Review"} => left1 <= left
    BY <1>4 DEF Timed
  <2>3. Consistent(news, shown, phase, round, left1, late)
    <3> HIDE DEF left, left1
    <3> QED BY <1>2, <1>3, <2>2, LessLeft
  <2>4. shown.told => Right(clock.duration, shown.phase, shown.round, phase, round,
                            left1, late)
    <3>1. clock.duration \in Int
      BY <1>3 DEF ClockTimer
    <3>2. shown.told => Right(clock.duration, shown.phase, shown.round, phase, round,
                              left, late)
      BY DEF ClockInvariant
    <3> HIDE DEF left, left1
    <3> QED BY <1>2, <2>2, <3>1, <3>2 DEF Right
  <2>5. phase = "None" => news = << >> /\ ~shown.told
    BY DEF ClockInvariant
  <2> HIDE DEF left, left1
  <2> QED BY <1>1, <1>2, <1>3, <1>4, <2>1, <2>3, <2>4, <2>5 DEF ClockInvariant, ClockTypes
<1>5. CASE /\ Before(phase, round, phase', round') /\ phase' # "None"
           /\ Timed' => left1 = Limit(phase')
  <2>1. /\ Before(shown.phase, shown.round, phase', round')
        /\ ~Before(phase', round', shown.phase, shown.round)
        /\ ~(phase' = phase /\ round' = round)
        /\ ~(phase' = shown.phase /\ round' = shown.round)
    BY <1>1, <1>3, <1>5, BeforeOrder
  <2>2. shown.told => Right(clock.duration, shown.phase, shown.round, phase', round',
                            left1, late)
    BY <1>3, <2>1 DEF ClockInvariant, Right
  <2>3. /\ Append(news, m) \in Seq(Message)
        /\ Consistent(Append(news, m), shown, phase', round', left1, late)
    <3>1. Append(news, m) \in Seq(Message)
      BY <1>1, <1>3 DEF PhaseNews, Message
    <3> HIDE DEF left, left1
    <3> QED BY <1>1, <1>2, <1>3, <1>5, <3>1, NewPhase
  <2>4. news' \in Seq(Message) /\ Consistent(news', shown, phase', round', left1, late)
    <3>1. CASE phase' = "Payouts"
      <4>1. phase # phase'
        BY <1>1, <2>1, <3>1 DEF ClockInvariant, PhaseInvariant, PhaseEnds
      <4>2. news' = news \o <<m>>
        BY <3>1, <4>1 DEF Announce
      <4>3. news' = Append(news, m)
        BY <1>1, <1>3, <4>2
      <4> QED BY <2>3, <4>3
    <3>2. CASE phase' # "Payouts"
      <4> DEFINE t == TimeUpdate(timer')
      <4>1. Timed' /\ phase' \in {"Round", "Review"} /\ left1 = Limit(phase')
        BY <1>1, <1>5, <3>2 DEF Timed, Phase
      <4>2. news' = news \o <<m, t>>
        BY <2>1, <3>2 DEF Announce, PhaseAnnounced
      <4>3. t \in Message /\ t = [type |-> "TimeUpdate", body |-> <<left1>>]
        BY <1>2 DEF TimeUpdate, WriteTime, Message
      <4>4. m \in Message
        BY <1>1 DEF PhaseNews, Message
      <4>5. Limit(phase') >= 0
        BY TimesAssumption DEF Limit
      <4>6. Right(left1, phase', round', phase', round', left1, late)
        BY <1>2, <4>1, <4>5 DEF Right
      <4> HIDE DEF m, t, left, left1
      <4>7. news' = Append(Append(news, m), t)
        BY <1>3, <4>2, <4>3, <4>4
      <4>8. news' \in Seq(Message)
        BY <2>3, <4>3, <4>7
      <4>9. Consistent(news', shown, phase', round', left1, late)
        BY <1>1, <1>2, <1>3, <2>3, <4>3, <4>6, <4>7, NewTime
      <4> QED BY <4>8, <4>9
    <3> QED BY <3>1, <3>2
  <2> HIDE DEF left, left1
  <2> QED BY <1>1, <1>2, <1>3, <1>5, <2>1, <2>2, <2>4 DEF ClockInvariant, ClockTypes
<1> QED BY <1>2, <1>4, <1>5, PhaseStep DEF ClockInvariant

-----------------------------------------------------------------------------
(* The theorems                                                            *)

\* At the start nothing has been told.
LEMMA ClockStart == ClockInit => ClockInvariant
<1> SUFFICES ASSUME ClockInit PROVE ClockInvariant
  OBVIOUS
<1>1. PhaseInvariant
  BY TimerInit DEF ClockInit, Init, NewTimer, PhaseInvariant, PhaseEnds
<1>2. ClockTypes
  <2>1. clock \in ClockTimer
    BY DEF ClockInit, ClockTimer, NewTimer
  <2>2. shown \in Shown
    BY DEF ClockInit, Shown, Phase
  <2>3. news \in Seq(Message) /\ late \in BOOLEAN
    <3>1. late \in BOOLEAN
      BY Zenon DEF ClockInit
    <3>2. << >> \in Seq(Message)
      OBVIOUS
    <3>3. news = << >>
      BY DEF ClockInit
    <3> QED BY <3>1, <3>2, <3>3, Zenon
  <2> QED BY <2>1, <2>2, <2>3 DEF ClockTypes
<1>3. Consistent(news, shown, phase, round, GetTimeRemaining(timer), late)
  <2>1. /\ news = << >> /\ Len(news) = 0 /\ shown.phase = phase /\ shown.round = round
        /\ phase \in Phase /\ round \in Nat
    BY DEF ClockInit, Init, Phase
  <2>2. \A i \in 1..1 : \A p, r : Told(news, shown, i, p, r) => p = phase /\ r = round
    BY <2>1 DEF Told
  <2>3. ~Before(phase, round, phase, round)
    BY <2>1, BeforeOrder
  <2> QED BY <2>1, <2>2, <2>3 DEF Consistent
<1>4. ~Before(phase, round, shown.phase, shown.round) /\ ~shown.told /\ news = << >>
  <2>1. /\ shown.phase = phase /\ shown.round = round /\ ~shown.told /\ news = << >>
        /\ phase \in Phase /\ round \in Nat
    BY DEF ClockInit, Init, Phase
  <2> QED BY <2>1, BeforeOrder
<1> QED BY <1>1, <1>2, <1>3, <1>4 DEF ClockInvariant

\* Every step preserves the invariant.
LEMMA ClockStep == ClockInvariant /\ [ClockNext]_clockVars => ClockInvariant'
<1> SUFFICES ASSUME ClockInvariant, [ClockNext]_clockVars PROVE ClockInvariant'
  OBVIOUS
<1>1. CASE UNCHANGED clockVars
  BY <1>1 DEF clockVars, vars, ClockInvariant, ClockTypes, PhaseInvariant, PhaseEnds,
       TimerInvariant, TimerOfPhase, CompletionIsDue, TypeOK, Timed, Duration
<1> QED BY <1>1, AnnounceStep, AcceptStep, HandleStep DEF ClockNext

\* A client that has been told the phase and its time never shows less time
\* than is left, however late its messages come and whatever is paused
\* (ProcessTimeUpdate of clientside_processor.hh).
THEOREM NeverTooShort == ClockSpec => []ClockNeverShort
<1>1. ClockInvariant => ClockNeverShort
  <2> SUFFICES ASSUME ClockInvariant, Current, phase # "Payouts"
               PROVE  GetTimeRemaining(clock) >= GetTimeRemaining(timer)
    BY DEF ClockNeverShort
  <2>1. phase \in {"Round", "Review"}
    BY DEF ClockInvariant, Current, PhaseInvariant, TimerInvariant, TypeOK, Phase
  <2>2. clock.duration >= GetTimeRemaining(timer)
    BY <2>1 DEF ClockInvariant, Current, Right
  <2>3. GetTimeRemaining(clock) = clock.duration
    BY DEF ClockInvariant, ClockTypes, ClockTimer, GetTimeRemaining, GetTimeElapsed
  <2> QED BY <2>2, <2>3
<1> QED BY <1>1, ClockStart, ClockStep, PTL DEF ClockSpec

\* It never shows more than the length of the phase it knows either, unless an
\* offer was accepted after the deadline: the time below zero that goes with
\* it is the only one that is misread (operator>> of a Time).
THEOREM NeverTooLong == ClockSpec => []ClockBelievable
<1>1. ClockInvariant => ClockBelievable
  <2> SUFFICES ASSUME ClockInvariant, shown.told, ~late
               PROVE  GetTimeRemaining(clock) <= Limit(shown.phase)
    BY DEF ClockBelievable, Limit
  <2>1. clock.duration <= Limit(shown.phase)
    BY DEF ClockInvariant, Right
  <2>2. GetTimeRemaining(clock) = clock.duration
    BY DEF ClockInvariant, ClockTypes, ClockTimer, GetTimeRemaining, GetTimeElapsed
  <2> QED BY <2>1, <2>2
<1> QED BY <1>1, ClockStart, ClockStep, PTL DEF ClockSpec

=============================================================================
