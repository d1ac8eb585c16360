------------------------------ MODULE Lifecycle ------------------------------
(***************************************************************************)
(* An experiment from the first subject that joins to the payouts:         *)
(* Experiment, ExperimentCommandProcessor, ExperimentController and the    *)
(* part of MessageDirector and ConnectionController that drives them.      *)
(* Trading is seen only where a request can end the server: an exception   *)
(* that a handler lets escape leaves io_context::run and terminates it.    *)
(*                                                                         *)
(* Subjects are numbered 0, 1, ... in the order they join.                 *)
(***************************************************************************)
EXTENDS ExperimentState, ConfigurationReader, FiniteSets

CONSTANTS
  Files,        \* files the admin may load
  MaxSubjects,  \* bound: subjects that join
  MaxCount      \* bound: Ready and Name messages counted

ASSUME FilesAssumption ==
  /\ Files \subseteq File
  /\ MaxSubjects \in Nat
  /\ MaxCount \in Nat

VARIABLES
  exp,         \* ExperimentState
  config,      \* Configuration, shared by all components
  n_subjects,  \* Experiment::subjects_
  holders,     \* subjects with a portfolio: those below this number
  named,       \* subjects whose name is known
  callback,    \* the callback registered on the running timer
  counter,     \* ExperimentCommandProcessor::counter_
  news,        \* the last stage change that was broadcast
  up,          \* the server has not been terminated
  ready,       \* history: subjects that sent Ready since StartInstructions
  orderly      \* history: everybody has kept to the script so far

vars == <<exp, config, n_subjects, holders, named, callback, counter, news,
          up, ready, orderly>>

subjects == 0..(n_subjects - 1)

\* A default Configuration: no players, and ten rounds that it does not describe
NoConfig ==
  [n_players |-> 0, n_rounds |-> 10, sub_configs |-> {}, per_configs |-> {}]

\* The configurations that the files without an error give
Configs == {Read(f) : f \in {g \in Files : ReadError(g) = "None"}}

Init ==
  /\ exp = InitialState
  /\ config = NoConfig
  /\ n_subjects = 0 /\ holders = 0 /\ named = {}
  /\ callback = "None"
  /\ counter = 0
  /\ news = "None"
  /\ up = TRUE
  /\ ready = {} /\ orderly = TRUE

\* An escaped exception.  The state no longer matters.
Crash ==
  /\ up' = FALSE
  /\ UNCHANGED <<exp, config, n_subjects, holders, named, callback, counter,
                 news, ready>>

\* The script: subjects join and a configuration with rounds is loaded before
\* anything starts, each subject is ready once, after the instructions have
\* started, and gives its name once, after the last round.
OnScript(condition) == orderly' = (orderly /\ condition)

NothingStarted == exp = InitialState

-----------------------------------------------------------------------------
(* Joining and configuring                                                 *)

\* ConnectionController::AcceptSubject, at any time
AcceptSubject ==
  /\ up /\ n_subjects < MaxSubjects
  /\ n_subjects' = n_subjects + 1
  /\ OnScript(NothingStarted)
  /\ UNCHANGED <<exp, config, holders, named, callback, counter, news, up, ready>>

\* A file with an error leaves the configuration as it was.
LoadConfiguration ==
  /\ up
  /\ \E f \in Files : config' = IF ReadError(f) = "None" THEN Read(f) ELSE config
  /\ OnScript(NothingStarted /\ config'.n_rounds > 0)
  /\ UNCHANGED <<exp, n_subjects, holders, named, callback, counter, news, up, ready>>

\* Mutant: the status is not looked at.
MayStartAgain == config.n_players # 0 /\ config.n_players = n_subjects

\* Mutant: the number of subjects is not compared.
MayStartAnyNumber == exp.status = "NotStarted" /\ config.n_players # 0

\* StartValidity = Accepted
MayStart ==
  /\ exp.status = "NotStarted"
  /\ config.n_players # 0
  /\ config.n_players = n_subjects

StartInstructions ==
  /\ up /\ MayStart
  /\ counter' = 0
  /\ exp' = WithStage(exp, "Instructions")
  /\ news' = "InstructionsStarted"
  /\ ready' = {}
  /\ OnScript(NothingStarted)
  /\ UNCHANGED <<config, n_subjects, holders, named, callback, up>>

-----------------------------------------------------------------------------
(* Rounds, reviews and payouts                                             *)

StartRound(e) ==
  /\ exp' = NextRound(e)
  /\ callback' = "EndRound"
  /\ news' = "RoundStarted"

\* Mutant: a portfolio for one subject more than there is.
StartExperimentOneMore ==
  /\ up /\ MayStart
  /\ holders' = n_subjects + 1
  /\ StartRound(WithStatus(exp, "Running"))
  /\ UNCHANGED <<config, n_subjects, named, counter, up, ready, orderly>>

\* Every subject is sent its settings, and everybody the first round: reading
\* the description of a round that there is none of can do anything.
StartExperiment ==
  /\ up /\ MayStart
  /\ \/ /\ subjects \subseteq config.sub_configs
        /\ holders' = n_subjects
        /\ StartRound(WithStatus(exp, "Running"))
        /\ UNCHANGED <<config, n_subjects, named, counter, up, ready>>
     \/ ~(subjects \subseteq config.sub_configs /\ 1 \in config.per_configs) /\ Crash
  /\ UNCHANGED orderly

StartReview ==
  /\ exp' = WithStage(exp, "Review")
  /\ callback' = "EndReview"
  /\ news' = "ReviewStarted"

\* EndRound and StartDividends run up to StartReview.  The dividend of a round
\* that is not configured is read past the end of a vector: anything can come
\* of it.  The portfolio of every subject is sent: one without ends the server.
EndRound ==
  /\ up /\ callback = "EndRound"
  /\ \/ holders = n_subjects /\ StartReview
        /\ UNCHANGED <<config, n_subjects, holders, named, counter, up, ready>>
     \/ (holders < n_subjects \/ exp.round \notin config.per_configs) /\ Crash
  /\ UNCHANGED orderly

\* Mutant: the counter still holds what StartInstructions counted.
StartPayoutsCounting ==
  /\ counter' = counter
  /\ exp' = WithStage(exp, "Payouts")
  /\ news' = "PayoutsStarted"

StartPayouts ==
  /\ counter' = 0
  /\ exp' = WithStage(exp, "Payouts")
  /\ news' = "PayoutsStarted"

\* Mutant: the last portfolio is not found.
CanPayOutOffByOne ==
  n_subjects < holders /\ subjects \subseteq config.sub_configs

\* Every subject needs a portfolio and a configuration to be paid.
CanPayOut == n_subjects <= holders /\ subjects \subseteq config.sub_configs

\* Mutant: the review timer is started once more and never ends the review.
EndReviewRepeating ==
  /\ up /\ callback = "EndReview"
  /\ callback' = "EndReview"
  /\ UNCHANGED <<exp, counter, news, config, n_subjects, holders, named, up,
                 ready, orderly>>

EndReview ==
  /\ up /\ callback = "EndReview"
  /\ \/ /\ exp.round < config.n_rounds
        /\ StartRound(exp)
        /\ UNCHANGED <<counter, config, n_subjects, holders, named, up, ready>>
     \/ /\ exp.round >= config.n_rounds /\ CanPayOut
        /\ StartPayouts
        /\ callback' = "None"
        /\ UNCHANGED <<config, n_subjects, holders, named, up, ready>>
     \/ exp.round >= config.n_rounds /\ ~CanPayOut /\ Crash
  /\ UNCHANGED orderly

\* EndEarly goes to StartPayouts whatever the stage, and leaves the timer on.
EndEarly ==
  /\ up
  /\ OnScript(FALSE)
  /\ \/ /\ CanPayOut
        /\ StartPayouts
        /\ UNCHANGED <<config, n_subjects, holders, named, callback, up, ready>>
     \/ ~CanPayOut /\ Crash

-----------------------------------------------------------------------------
(* What the subjects send                                                  *)

Ready(s) ==
  /\ up /\ counter < MaxCount
  /\ counter' = counter + 1
  /\ ready' = ready \cup {s}
  /\ news' = IF counter' = n_subjects THEN "InstructionsEnded" ELSE news
  /\ OnScript(exp.stage = "Instructions" /\ exp.status = "NotStarted"
              /\ s \notin ready)
  /\ UNCHANGED <<exp, config, n_subjects, holders, named, callback, up>>

TakeName(s) ==
  /\ up /\ counter < MaxCount
  /\ counter' = counter + 1
  /\ named' = named \cup {s}
  /\ IF counter' = n_subjects
     THEN exp' = WithStatus(exp, "Ended") /\ news' = "ExperimentEnded"
     ELSE UNCHANGED <<exp, news>>
  /\ OnScript(exp.stage = "Payouts" /\ callback = "None" /\ s \notin named)
  /\ UNCHANGED <<config, n_subjects, holders, callback, up, ready>>

\* A bid, an ask or a creation of a subject without a portfolio, or a creation
\* of one without settings or in a round that is not described.  What other
\* requests do is in Trading.
MarketRequest(s) ==
  /\ up /\ IsMarketOpen(exp)
  /\ \/ s >= holders
     \/ s \notin config.sub_configs
     \/ exp.round \notin config.per_configs
  /\ Crash
  /\ UNCHANGED orderly

-----------------------------------------------------------------------------
Connection == AcceptSubject

AdminCommand == LoadConfiguration \/ StartInstructions \/ StartExperiment \/ EndEarly

SubjectMessage == \E s \in subjects : Ready(s) \/ TakeName(s) \/ MarketRequest(s)

TimerExpires == EndRound \/ EndReview

Next == Connection \/ AdminCommand \/ SubjectMessage \/ TimerExpires

\* The thread that runs the io_context does nothing else, so a timer that has
\* been started expires and its callback runs.
Fairness == WF_vars(TimerExpires)

Spec == Init /\ [][Next]_vars /\ Fairness

-----------------------------------------------------------------------------
(* Properties                                                              *)

\* The types; in particular only subjects have portfolios.
TypeOK ==
  /\ exp \in [round : Nat, status : Status, stage : Stage]
  /\ config \in Configs \cup {NoConfig}
  /\ n_subjects \in 0..MaxSubjects
  /\ holders \in 0..n_subjects
  /\ named \subseteq subjects /\ ready \subseteq subjects
  /\ callback \in {"None", "EndRound", "EndReview"}
  /\ counter \in 0..MaxCount
  /\ news \in {"None", "InstructionsStarted", "RoundStarted", "ReviewStarted",
               "PayoutsStarted", "InstructionsEnded", "ExperimentEnded"}
  /\ up \in BOOLEAN /\ orderly \in BOOLEAN

\* A file that passes the checks of the reader describes every player and
\* every round that will be looked up by its number, with values that the
\* file has: the indices that are not checked when they are used were checked
\* when it was read (configuration_reader.cc:57-108, configuration.hh:52-58).
LoadedIsComplete ==
  config # NoConfig =>
    /\ config.sub_configs = 0..(config.n_players - 1)
    /\ config.per_configs = 1..config.n_rounds

\* The handlers of the experiment terminate the server only on account of a
\* subject who joined after the holdings were handed out (or an end before
\* that), or of a configuration that was replaced by a smaller one while the
\* experiment was running, or has no rounds.  What connections do: Registry.
DownHasCause ==
  ~up => \/ n_subjects > holders
         \/ n_subjects > config.n_players
         \/ exp.round > config.n_rounds
         \/ config.n_rounds = 0

\* As long as everybody keeps to the script those handlers leave it up.
OrderlyStaysUp == orderly => up

\* No round is skipped, repeated or cut short by the start of another one,
\* and none is played that the configuration does not have, but for the first
\* of one without rounds.
RoundStep ==
  exp'.round # exp.round =>
    /\ callback # "EndRound"
    /\ exp'.round = exp.round + 1
    /\ \/ exp'.round <= config.n_rounds
       \/ exp'.round = 1 /\ config.n_rounds = 0

\* Every change of the round is one of those.
RoundsInOrder == [][RoundStep]_vars

\* On script, the instructions end with the Ready of the last subject and the
\* experiment with the last name, never earlier and never later: the counter
\* that both share counts subjects (experiment_command_processor.hh:161-171).
CounterCountsSubjects ==
  [][orderly' =>
      /\ ready' # ready /\ ready' # {} =>
           (news' = "InstructionsEnded" <=> ready' = subjects')
      /\ named' # named =>
           (news' = "ExperimentEnded" <=> named' = subjects')]_vars

\* Every market that opens closes, and an experiment that runs gets to its
\* payouts, unless the server is terminated: each timer callback starts the
\* timer of the next phase.
ReachesPayouts == exp.status = "Running" ~> exp.stage = "Payouts" \/ ~up

-----------------------------------------------------------------------------
(* What the instructions say, and the code does not do                     *)

\* "We will start the experiment once everyone has clicked the 'Ready' button":
\* during the instructions their end is announced only when everyone has.
ReadyMeansEveryone ==
  [][exp.stage = "Instructions" /\ news' # news /\ news' = "InstructionsEnded"
      => ready' = subjects']_vars

=============================================================================
