--------------------------- MODULE LifecycleProofs ---------------------------
(***************************************************************************)
(* Theorems about Lifecycle, for any configurations and number of          *)
(* subjects.                                                               *)
(***************************************************************************)
EXTENDS Lifecycle, FiniteSetTheorems, TLAPS

-----------------------------------------------------------------------------
(* What the reader promises                                                *)

\* The checks of a file cover every index that is used without a check.
LEMMA ReadComplete ==
  ASSUME NEW f \in File, ReadError(f) = "None"
  PROVE  /\ Read(f).n_players \in Nat /\ Read(f).n_rounds \in Nat
         /\ Read(f).sub_configs = 0..(Read(f).n_players - 1)
         /\ Read(f).per_configs = 1..Read(f).n_rounds
<1>1. /\ f.n_players \in Nat /\ f.n_rounds \in Nat /\ f.n_dividends \in Nat
      /\ f.n_margins \in Nat /\ f.n_max_margins \in Nat
      /\ f.realizations \in Seq(Nat) /\ f.assignments \in Seq(Role)
  BY DEF File
<1>2. f.form = "WellFormed"
  BY DEF File, FileForm, ReadError
<1>3. /\ Len(f.assignments) >= f.n_players
      /\ Len(f.realizations) >= f.n_rounds
      /\ f.n_margins >= f.n_rounds /\ f.n_max_margins >= f.n_rounds
      /\ ~InvalidRealization(f)
      /\ \A i \in 1..f.n_players : f.assignments[i] \in f.roles
  BY <1>1, <1>2 DEF ReadError
<1>4. DescribedRounds(f) = 1..f.n_rounds
  <2>1. ASSUME NEW r \in 1..f.n_rounds
        PROVE  /\ r \in DOMAIN f.realizations /\ f.realizations[r] < f.n_dividends
               /\ r <= f.n_margins /\ r <= f.n_max_margins
    BY <1>1, <1>3, <2>1, SMTT(30) DEF InvalidRealization
  <2> QED BY <2>1 DEF DescribedRounds
<1>5. DescribedPlayers(f) = 0..(f.n_players - 1)
  <2>1. ASSUME NEW s \in 0..(f.n_players - 1)
        PROVE  s + 1 \in DOMAIN f.assignments /\ f.assignments[s + 1] \in f.roles
    BY <1>1, <1>3, <2>1
  <2> QED BY <2>1 DEF DescribedPlayers
<1> QED BY <1>1, <1>4, <1>5 DEF Read

LEMMA LoadedConfig ==
  ASSUME NEW c \in Configs
  PROVE  /\ c.n_players \in Nat /\ c.n_rounds \in Nat
         /\ c.sub_configs = 0..(c.n_players - 1)
         /\ c.per_configs = 1..c.n_rounds
         /\ c # NoConfig
<1>1. /\ c.n_players \in Nat /\ c.n_rounds \in Nat
      /\ c.sub_configs = 0..(c.n_players - 1)
      /\ c.per_configs = 1..c.n_rounds
  BY ReadComplete, FilesAssumption DEF Configs
<1>2. NoConfig.n_rounds = 10 /\ NoConfig.per_configs = {} /\ 1 \in 1..10
  BY DEF NoConfig
<1>3. c # NoConfig
  <2>1. SUFFICES ASSUME c = NoConfig PROVE FALSE
    OBVIOUS
  <2>2. 1..10 = {}
    BY <1>1, <1>2, <2>1
  <2> QED BY <1>2, <2>2
<1> QED BY <1>1, <1>3

-----------------------------------------------------------------------------
(* Types                                                                   *)

LEMMA InitTypeOK == Init => TypeOK
BY FilesAssumption DEF Init, TypeOK, InitialState, Status, Stage, subjects

LEMMA NextRoundType ==
  ASSUME NEW e \in [round : Nat, status : Status, stage : Stage]
  PROVE  NextRound(e) \in [round : Nat, status : Status, stage : Stage]
BY DEF NextRound, Status, Stage

LEMMA StageType ==
  ASSUME NEW e \in [round : Nat, status : Status, stage : Stage],
         NEW st \in Stage, NEW s \in Status
  PROVE  /\ WithStage(e, st) \in [round : Nat, status : Status, stage : Stage]
         /\ WithStatus(e, s) \in [round : Nat, status : Status, stage : Stage]
BY DEF WithStage, WithStatus

LEMMA TypeStep ==
  ASSUME TypeOK, [Next]_vars
  PROVE  TypeOK'
<1> USE DEF TypeOK
<1>1. CASE UNCHANGED vars
  BY <1>1 DEF vars, subjects
<1>2. CASE AcceptSubject
  BY <1>2, FilesAssumption DEF AcceptSubject, OnScript, subjects
<1>3. CASE LoadConfiguration
  <2>1. config' \in Configs \cup {NoConfig}
    BY <1>3 DEF LoadConfiguration, Configs
  <2> QED BY <1>3, <2>1 DEF LoadConfiguration, OnScript, subjects
<1>4. CASE StartInstructions
  <2>1. exp' \in [round : Nat, status : Status, stage : Stage]
    BY <1>4, StageType DEF StartInstructions, Stage, Status
  <2> QED BY <1>4, <2>1, FilesAssumption DEF StartInstructions, OnScript, subjects
<1>5. CASE StartExperiment
  <2>1. CASE Crash /\ UNCHANGED orderly
    BY <2>1 DEF Crash, subjects
  <2>2. CASE /\ holders' = n_subjects
             /\ StartRound(WithStatus(exp, "Running"))
             /\ UNCHANGED <<config, n_subjects, named, counter, up, ready, orderly>>
    <3>1. exp' \in [round : Nat, status : Status, stage : Stage]
      BY <2>2, StageType, NextRoundType DEF StartRound, Stage, Status
    <3> QED BY <2>2, <3>1 DEF StartRound, subjects
  <2> QED BY <1>5, <2>1, <2>2 DEF StartExperiment
<1>6. CASE EndRound
  <2>1. CASE Crash /\ UNCHANGED orderly
    BY <2>1 DEF Crash, subjects
  <2>2. CASE StartReview /\ UNCHANGED <<config, n_subjects, holders, named,
                                        counter, up, ready, orderly>>
    <3>1. exp' \in [round : Nat, status : Status, stage : Stage]
      BY <2>2, StageType DEF StartReview, Stage, Status
    <3> QED BY <2>2, <3>1 DEF StartReview, subjects
  <2> QED BY <1>6, <2>1, <2>2 DEF EndRound
<1>7. CASE EndReview
  <2>1. CASE Crash /\ UNCHANGED orderly
    BY <2>1 DEF Crash, subjects
  <2>2. CASE StartRound(exp) /\ UNCHANGED <<counter, config, n_subjects,
                                            holders, named, up, ready, orderly>>
    <3>1. exp' \in [round : Nat, status : Status, stage : Stage]
      BY <2>2, NextRoundType DEF StartRound
    <3> QED BY <2>2, <3>1 DEF StartRound, subjects
  <2>3. CASE StartPayouts /\ callback' = "None"
             /\ UNCHANGED <<config, n_subjects, holders, named, up, ready, orderly>>
    <3>1. exp' \in [round : Nat, status : Status, stage : Stage]
      BY <2>3, StageType DEF StartPayouts, Stage, Status
    <3> QED BY <2>3, <3>1, FilesAssumption DEF StartPayouts, subjects
  <2> QED BY <1>7, <2>1, <2>2, <2>3 DEF EndReview
<1>8. CASE EndEarly
  <2>1. CASE Crash
    BY <1>8, <2>1 DEF EndEarly, OnScript, Crash, subjects
  <2>2. CASE StartPayouts /\ UNCHANGED <<config, n_subjects, holders, named,
                                         callback, up, ready>>
    <3>1. exp' \in [round : Nat, status : Status, stage : Stage]
      BY <2>2, StageType DEF StartPayouts, Stage, Status
    <3> QED BY <1>8, <2>2, <3>1, FilesAssumption
          DEF EndEarly, OnScript, StartPayouts, subjects
  <2> QED BY <1>8, <2>1, <2>2 DEF EndEarly
<1>9. ASSUME NEW s \in subjects, Ready(s) PROVE TypeOK'
  BY <1>9, FilesAssumption DEF Ready, OnScript, subjects
<1>10. ASSUME NEW s \in subjects, TakeName(s) PROVE TypeOK'
  <2>1. exp' \in [round : Nat, status : Status, stage : Stage]
    BY <1>10, StageType DEF TakeName, Stage, Status
  <2> QED BY <1>10, <2>1, FilesAssumption DEF TakeName, OnScript, subjects
<1>11. ASSUME NEW s \in subjects, MarketRequest(s) PROVE TypeOK'
  BY <1>11 DEF MarketRequest, Crash, subjects
<1> QED BY <1>1, <1>2, <1>3, <1>4, <1>5, <1>6, <1>7, <1>8, <1>9, <1>10, <1>11
    DEF Next, Connection, AdminCommand, SubjectMessage, TimerExpires

\* The state is well-typed in every reachable state; in particular a portfolio
\* belongs to a subject that has joined.
THEOREM LifecycleTypeCorrect == Spec => []TypeOK
<1>1. TypeOK /\ [Next]_vars => TypeOK'
  BY TypeStep
<1> QED BY InitTypeOK, <1>1, PTL DEF Spec

-----------------------------------------------------------------------------
(* Rounds and the end of the server                                        *)

\* Before the start no round and no timer, and later no way back to the stage
\* in which StartRound would count from one again; while a timer runs or the
\* market is open there are a configuration and a round.  On script, what the
\* start was checked against still holds.
SessionInvariant ==
  /\ TypeOK
  /\ exp.status = "NotStarted" => exp.round = 0 /\ callback = "None"
  /\ callback # "None" => exp.stage # "PreExperiment" /\ exp.status # "NotStarted"
  /\ callback # "None" \/ exp.stage = "Round" => config # NoConfig /\ exp.round >= 1
  /\ exp.round # 0 => exp.stage # "PreExperiment"
  /\ orderly =>
       /\ up
       /\ config.n_rounds > 0
       /\ ~NothingStarted => config.n_players = n_subjects
       /\ exp.status # "NotStarted" => holders = n_subjects
       /\ exp.stage = "Payouts" => exp.status # "NotStarted"
       /\ callback # "None" \/ exp.stage = "Round" => exp.round <= config.n_rounds
  /\ DownHasCause

LEMMA ConfigFact ==
  ASSUME TypeOK
  PROVE  /\ config.n_players \in Nat /\ config.n_rounds \in Nat
         /\ config.sub_configs = 0..(config.n_players - 1)
         /\ config # NoConfig => config.per_configs = 1..config.n_rounds
         /\ config = NoConfig => config.n_players = 0
<1>1. CASE config \in Configs
  BY <1>1, LoadedConfig
<1>2. CASE config = NoConfig
  <2>1. /\ config.n_players = 0 /\ config.n_rounds = 10
        /\ config.sub_configs = {}
    BY <1>2 DEF NoConfig
  <2>2. 0..(0 - 1) = {}
    OBVIOUS
  <2> QED BY <1>2, <2>1, <2>2
<1> QED BY <1>1, <1>2 DEF TypeOK

LEMMA SessionInit == Init => SessionInvariant
<1>1. Init => config.n_rounds = 10
  BY DEF Init, NoConfig
<1>2. Init => /\ up /\ NothingStarted /\ exp.status = "NotStarted" /\ exp.round = 0
              /\ exp.stage = "PreExperiment" /\ callback = "None"
  BY DEF Init, InitialState, NothingStarted
<1>3. Init => DownHasCause
  BY <1>2 DEF DownHasCause
<1> QED BY InitTypeOK, <1>1, <1>2, <1>3 DEF SessionInvariant

\* A request that leaves the stage alone and is on script only at the beginning
LEMMA BeforeStart ==
  ASSUME SessionInvariant, TypeOK', up, UNCHANGED <<exp, callback, up>>,
         config # NoConfig => config' # NoConfig,
         orderly' => NothingStarted /\ config'.n_rounds > 0
  PROVE  SessionInvariant'
<1> USE DEF SessionInvariant
<1>1. orderly' =>
        NothingStarted' /\ exp'.status = "NotStarted" /\ exp'.stage # "Payouts"
  BY DEF NothingStarted, InitialState
<1>2. up' /\ DownHasCause'
  BY DEF DownHasCause
<1>3. orderly' => callback' = "None"
  BY <1>1
<1> HIDE DEF NothingStarted
<1> QED BY <1>1, <1>2, <1>3

LEMMA SessionStep ==
  ASSUME SessionInvariant, [Next]_vars
  PROVE  SessionInvariant'
<1>1. TypeOK /\ TypeOK'
  BY TypeStep DEF SessionInvariant
<1> USE DEF SessionInvariant, NothingStarted, DownHasCause, InitialState
<1>2. CASE UNCHANGED vars
  BY <1>1, <1>2 DEF vars
<1>3. CASE AcceptSubject
  BY <1>1, <1>3, BeforeStart DEF AcceptSubject, OnScript
<1>4. CASE LoadConfiguration
  <2>1. config' \in Configs \/ config' = config
    BY <1>4 DEF LoadConfiguration, Configs
  <2>2. config # NoConfig => config' # NoConfig
    BY <2>1, LoadedConfig
  <2> QED BY <1>1, <1>4, <2>2, BeforeStart DEF LoadConfiguration, OnScript
<1>5. CASE StartInstructions
  <2>1. orderly' => orderly
    BY <1>5 DEF StartInstructions, OnScript
  <2>2. /\ up /\ up' = up
        /\ UNCHANGED <<config, n_subjects, holders, callback>>
        /\ exp.status = "NotStarted" /\ config.n_players = n_subjects
    BY <1>5 DEF StartInstructions, MayStart
  <2>3. /\ exp'.status = exp.status /\ exp'.round = exp.round
        /\ exp'.stage = "Instructions"
    BY <1>1, <1>5 DEF StartInstructions, WithStage, TypeOK
  <2>4. up' /\ DownHasCause' /\ callback = "None"
    BY <2>2
  <2> HIDE DEF NothingStarted, DownHasCause
  <2> QED BY <1>1, <2>1, <2>2, <2>3, <2>4
<1>6. CASE StartExperiment
  <2>1. /\ up /\ config # NoConfig /\ config.n_players = n_subjects
        /\ exp.status = "NotStarted" /\ orderly' = orderly
    BY <1>1, <1>6, ConfigFact DEF StartExperiment, MayStart
  <2>2. config.n_rounds \in Nat /\ (config.n_rounds > 0 => 1 \in config.per_configs)
    BY <1>1, <2>1, ConfigFact
  <2>3. subjects \subseteq config.sub_configs
    BY <1>1, <2>1, ConfigFact DEF subjects
  <2>4. CASE Crash /\ 1 \notin config.per_configs
    <3>1. up' = FALSE /\ UNCHANGED <<exp, config, n_subjects, holders, callback>>
      BY <2>4 DEF Crash
    <3>2. ~orderly' /\ DownHasCause'
      BY <2>1, <2>2, <2>4, <3>1
    <3> HIDE DEF NothingStarted
    <3> QED BY <1>1, <3>1, <3>2
  <2>5. CASE /\ holders' = n_subjects
             /\ StartRound(WithStatus(exp, "Running"))
             /\ UNCHANGED <<config, n_subjects, up>>
    <3>1. exp'.round = 1 /\ exp'.stage = "Round" /\ exp'.status = "Running"
      BY <1>1, <2>1, <2>5 DEF StartRound, NextRound, WithStatus, TypeOK
    <3>2. callback' = "EndRound"
      BY <2>5 DEF StartRound
    <3> QED BY <1>1, <2>1, <2>2, <2>5, <3>1, <3>2
  <2> QED BY <1>6, <2>3, <2>4, <2>5 DEF StartExperiment
<1>7. CASE EndRound
  <2>1. CASE Crash
    <3>1. up' = FALSE /\ up /\ orderly' = orderly
          /\ UNCHANGED <<exp, config, n_subjects, holders, callback>>
      BY <1>7, <2>1 DEF EndRound, Crash
    <3>2. ~orderly /\ DownHasCause'
      <4>1. /\ config # NoConfig /\ exp.round >= 1 /\ exp.round \in Nat
            /\ n_subjects \in Nat /\ holders \in 0..n_subjects
        BY <1>1, <1>7, FilesAssumption DEF EndRound, TypeOK
      <4>2. holders < n_subjects \/ exp.round \notin config.per_configs
        BY <1>7, <3>1 DEF EndRound
      <4>3. holders < n_subjects \/ exp.round > config.n_rounds
        BY <1>1, <4>1, <4>2, ConfigFact
      <4> QED BY <1>1, <1>7, <3>1, <4>1, <4>3, ConfigFact DEF EndRound
    <3> HIDE DEF NothingStarted
    <3> QED BY <1>1, <3>1, <3>2
  <2>2. CASE StartReview
    <3>1. /\ exp'.status = exp.status /\ exp'.round = exp.round
          /\ exp'.stage = "Review"
      BY <1>1, <2>2 DEF StartReview, WithStage, TypeOK
    <3> QED BY <1>1, <1>7, <2>2, <3>1 DEF EndRound, StartReview, Crash
  <2> QED BY <1>7, <2>1, <2>2 DEF EndRound
<1>8. CASE EndReview
  <2>1. CASE Crash
    <3>1. up' = FALSE /\ up /\ orderly' = orderly
          /\ UNCHANGED <<exp, config, n_subjects, holders, callback>>
      BY <1>8, <2>1 DEF EndReview, Crash
    <3>2. ~orderly /\ DownHasCause'
      <4>1. exp.round >= config.n_rounds /\ ~CanPayOut /\ callback # "None"
        BY <1>8, <3>1 DEF EndReview
      <4>2. n_subjects > holders \/ n_subjects > config.n_players
        BY <1>1, <4>1, ConfigFact, FilesAssumption DEF CanPayOut, TypeOK, subjects
      <4>3. n_subjects \in Nat /\ holders \in 0..n_subjects /\ exp.round \in Nat
        BY <1>1, FilesAssumption DEF TypeOK
      <4> QED BY <1>1, <3>1, <4>1, <4>2, <4>3, ConfigFact
    <3> HIDE DEF NothingStarted
    <3> QED BY <1>1, <3>1, <3>2
  <2>2. CASE StartRound(exp) /\ exp.round < config.n_rounds
             /\ UNCHANGED <<config, n_subjects, holders, up, orderly>>
    <3>1. /\ exp'.status = "Running" /\ exp'.round = exp.round + 1
          /\ exp'.stage = "Round" /\ callback' = "EndRound"
      BY <1>1, <1>8, <2>2 DEF EndReview, StartRound, NextRound, TypeOK
    <3>2. exp'.round <= config.n_rounds
      BY <1>1, <2>2, <3>1, ConfigFact DEF TypeOK
    <3>3. /\ exp.status # "NotStarted" /\ ~NothingStarted
          /\ config # NoConfig /\ exp'.round >= 1
      BY <1>1, <1>8, <3>1 DEF EndReview, TypeOK
    <3>4. DownHasCause' /\ up
      BY <1>8, <2>2 DEF EndReview
    <3> HIDE DEF NothingStarted, DownHasCause
    <3> QED BY <1>1, <2>2, <3>1, <3>2, <3>3, <3>4
  <2>3. CASE StartPayouts /\ callback' = "None"
             /\ UNCHANGED <<config, n_subjects, holders, up, orderly>>
    <3>1. /\ exp'.status = exp.status /\ exp'.round = exp.round
          /\ exp'.stage = "Payouts"
      BY <1>1, <2>3 DEF StartPayouts, WithStage, TypeOK
    <3>2. /\ exp.status # "NotStarted" /\ ~NothingStarted
          /\ config # NoConfig
      BY <1>8 DEF EndReview
    <3>3. DownHasCause' /\ up
      BY <1>8, <2>3 DEF EndReview
    <3> HIDE DEF NothingStarted, DownHasCause
    <3> QED BY <1>1, <2>3, <3>1, <3>2, <3>3
  <2> QED BY <1>8, <2>1, <2>2, <2>3 DEF EndReview
<1>9. CASE EndEarly
  <2>1. ~orderly'
    BY <1>9 DEF EndEarly, OnScript
  <2>2. CASE Crash /\ ~CanPayOut
    <3>1. n_subjects > holders \/ n_subjects > config.n_players
      BY <1>1, <2>2, ConfigFact, FilesAssumption DEF CanPayOut, TypeOK, subjects
    <3>2. up' = FALSE /\ UNCHANGED <<exp, config, n_subjects, holders, callback>>
      BY <2>2 DEF Crash
    <3> HIDE DEF NothingStarted
    <3> QED BY <1>1, <2>1, <3>1, <3>2
  <2>3. CASE StartPayouts /\ UNCHANGED <<config, n_subjects, holders, callback, up>>
    <3>1. /\ exp'.status = exp.status /\ exp'.round = exp.round
          /\ exp'.stage = "Payouts"
      BY <1>1, <2>3 DEF StartPayouts, WithStage, TypeOK
    <3> QED BY <1>1, <1>9, <2>1, <2>3, <3>1 DEF EndEarly
  <2> QED BY <1>9, <2>2, <2>3 DEF EndEarly
<1>10. ASSUME NEW s \in subjects, Ready(s) PROVE SessionInvariant'
  BY <1>1, <1>10 DEF Ready, OnScript, TypeOK
<1>11. ASSUME NEW s \in subjects, TakeName(s) PROVE SessionInvariant'
  <2>1. orderly' => orderly /\ exp.stage = "Payouts"
    BY <1>11 DEF TakeName, OnScript
  <2>2. /\ up /\ up' = up
        /\ UNCHANGED <<config, n_subjects, holders, callback>>
        /\ exp' = exp \/ exp' = WithStatus(exp, "Ended")
    BY <1>11 DEF TakeName
  <2>3. /\ exp'.status = exp.status \/ exp'.status = "Ended"
        /\ exp'.round = exp.round /\ exp'.stage = exp.stage
    BY <1>1, <2>2 DEF WithStatus, TypeOK
  <2> QED BY <1>1, <2>1, <2>2, <2>3
<1>12. ASSUME NEW s \in subjects, MarketRequest(s) PROVE SessionInvariant'
  <2>1. /\ up' = FALSE /\ orderly' = orderly
        /\ UNCHANGED <<exp, config, n_subjects, holders, callback>>
    BY <1>12 DEF MarketRequest, Crash
  <2>2. /\ exp.stage = "Round" /\ exp.status # "NotStarted"
        /\ config # NoConfig /\ exp.round >= 1 /\ exp.round \in Nat
        /\ n_subjects \in Nat /\ s \in 0..(n_subjects - 1)
        /\ holders \in 0..n_subjects
    BY <1>1, <1>12, FilesAssumption DEF MarketRequest, IsMarketOpen, TypeOK, subjects
  <2>3. s >= holders \/ s \notin config.sub_configs \/ exp.round \notin config.per_configs
    BY <1>12 DEF MarketRequest
  <2>4. \/ n_subjects > holders \/ n_subjects > config.n_players
        \/ exp.round > config.n_rounds
    BY <1>1, <2>2, <2>3, ConfigFact
  <2>5. ~orderly
    <3>1. SUFFICES ASSUME orderly PROVE FALSE
      OBVIOUS
    <3>2. ~NothingStarted
      BY <2>2
    <3>3. /\ config.n_players = n_subjects /\ holders = n_subjects
          /\ exp.round <= config.n_rounds
      BY <2>2, <3>1, <3>2
    <3> QED BY <1>1, <2>2, <2>4, <3>3, ConfigFact
  <2> HIDE DEF NothingStarted
  <2> QED BY <1>1, <2>1, <2>4, <2>5
<1> QED BY <1>2, <1>3, <1>4, <1>5, <1>6, <1>7, <1>8, <1>9, <1>10, <1>11, <1>12
    DEF Next, Connection, AdminCommand, SubjectMessage, TimerExpires

LEMMA SessionAlways == Spec => []SessionInvariant
<1>1. SessionInvariant /\ [Next]_vars => SessionInvariant'
  BY SessionStep
<1> QED BY SessionInit, <1>1, PTL DEF Spec

\* Whatever file is loaded, the configuration describes all its players and
\* rounds, so that an index within its numbers is never out of range.
THEOREM LoadedDescribesAll == Spec => []LoadedIsComplete
<1>1. TypeOK => LoadedIsComplete
  BY ConfigFact DEF LoadedIsComplete
<1> QED BY LifecycleTypeCorrect, <1>1, PTL

\* Only a late subject, an early end, a smaller configuration or one without
\* rounds makes a handler of the experiment end the server.
THEOREM DownOnlyWithCause == Spec => []DownHasCause
<1>1. SessionInvariant => DownHasCause
  BY DEF SessionInvariant
<1> QED BY SessionAlways, <1>1, PTL

\* While users keep to the script no handler of the experiment terminates it.
THEOREM OrderlyServerStaysUp == Spec => []OrderlyStaysUp
<1>1. SessionInvariant => OrderlyStaysUp
  BY DEF SessionInvariant, OrderlyStaysUp
<1> QED BY SessionAlways, <1>1, PTL

\* Rounds follow one another in order, each only after the one before has run
\* out, up to the number that is configured.
THEOREM RoundsFollow == Spec => RoundsInOrder
<1>1. ASSUME SessionInvariant, [Next]_vars PROVE [RoundStep]_vars
  <2>1. TypeOK
    BY <1>1 DEF SessionInvariant
  <2>2. CASE StartExperiment
    <3>1. CASE Crash
      BY <3>1 DEF Crash, RoundStep
    <3>2. CASE StartRound(WithStatus(exp, "Running"))
      <4>1. exp.status = "NotStarted" /\ config.n_rounds \in Nat
            /\ UNCHANGED config
        BY <2>1, <2>2, ConfigFact DEF StartExperiment, MayStart, Crash
      <4>2. exp'.round = 1 /\ exp.round = 0 /\ callback = "None"
        BY <1>1, <2>1, <3>2, <4>1 DEF SessionInvariant, StartRound,
          NextRound, WithStatus, TypeOK
      <4> QED BY <4>1, <4>2 DEF RoundStep
    <3> QED BY <2>2, <3>1, <3>2 DEF StartExperiment
  <2>3. CASE EndReview
    <3>1. exp.stage # "PreExperiment" /\ callback = "EndReview"
      BY <1>1, <2>3 DEF EndReview, SessionInvariant
    <3>2. CASE StartRound(exp) /\ exp.round < config.n_rounds
      BY <2>1, <3>1, <3>2, ConfigFact DEF StartRound, NextRound, RoundStep, TypeOK
    <3>3. CASE StartPayouts \/ Crash
      BY <2>1, <3>3 DEF StartPayouts, Crash, WithStage, RoundStep, TypeOK
    <3> QED BY <2>3, <3>2, <3>3 DEF EndReview
  <2>4. CASE EndRound \/ EndEarly
    BY <2>1, <2>4 DEF EndRound, EndEarly, StartReview, StartPayouts, Crash,
      WithStage, RoundStep, TypeOK
  <2>5. CASE AcceptSubject \/ LoadConfiguration \/ StartInstructions
    BY <2>1, <2>5 DEF AcceptSubject, LoadConfiguration, StartInstructions,
      WithStage, RoundStep, TypeOK
  <2>6. CASE SubjectMessage
    BY <2>1, <2>6 DEF SubjectMessage, Ready, TakeName, MarketRequest, Crash,
      WithStatus, RoundStep, TypeOK
  <2> QED BY <1>1, <2>2, <2>3, <2>4, <2>5, <2>6
      DEF Next, Connection, AdminCommand, TimerExpires, vars, RoundStep
<1> QED BY SessionAlways, <1>1, PTL DEF Spec, RoundsInOrder

-----------------------------------------------------------------------------
(* The counter that Ready and Name share                                   *)

\* On script the counter has counted the subjects that are ready, and after
\* the last round those that are named, and the end has been broadcast only
\* when these were all.
CountInvariant ==
  orderly =>
    /\ exp.stage = "Instructions" =>
         /\ counter = Cardinality(ready)
         /\ news = "InstructionsEnded" => ready = subjects
    /\ exp.stage # "Payouts" => named = {}
    /\ exp.stage = "Payouts" =>
         /\ callback = "None"
         /\ counter = Cardinality(named)
         /\ news = "ExperimentEnded" => named = subjects

\* One more subject is counted, and it is the last when all are counted.
LEMMA OneMore ==
  ASSUME NEW n \in Nat, NEW counted \in SUBSET (0..(n - 1)), NEW s \in 0..(n - 1),
         s \notin counted
  PROVE  /\ Cardinality(counted \cup {s}) = Cardinality(counted) + 1
         /\ Cardinality(counted) + 1 = n <=> counted \cup {s} = 0..(n - 1)
<1>1. IsFiniteSet(0..(n - 1)) /\ Cardinality(0..(n - 1)) = n
  BY FS_Interval
<1>2. IsFiniteSet(counted)
  BY <1>1, FS_Subset
<1>3. Cardinality(counted \cup {s}) = Cardinality(counted) + 1
  BY <1>2, FS_AddElement
<1>4. counted \cup {s} \subseteq 0..(n - 1)
  OBVIOUS
<1>5. Cardinality(counted \cup {s}) = n => counted \cup {s} = 0..(n - 1)
  BY <1>1, <1>4, FS_Subset
<1> QED BY <1>1, <1>3, <1>5

LEMMA CountInit == Init => CountInvariant
BY DEF Init, CountInvariant, InitialState

\* A Ready that is on script
LEMMA ReadyCounts ==
  ASSUME SessionInvariant, CountInvariant, NEW s \in subjects, Ready(s), orderly'
  PROVE  /\ exp.stage = "Instructions" /\ exp' = exp
         /\ counter' = Cardinality(ready')
         /\ news' = "InstructionsEnded" <=> ready' = subjects'
<1>1. /\ exp.stage = "Instructions" /\ s \notin ready /\ orderly
      /\ counter' = counter + 1 /\ ready' = ready \cup {s}
      /\ news' = IF counter' = n_subjects THEN "InstructionsEnded" ELSE news
      /\ UNCHANGED <<exp, n_subjects>>
  BY DEF Ready, OnScript
<1>2. n_subjects \in Nat /\ ready \in SUBSET (0..(n_subjects - 1))
  BY DEF SessionInvariant, TypeOK, subjects
<1>3. counter = Cardinality(ready) /\ (news = "InstructionsEnded" => ready = subjects)
  BY <1>1 DEF CountInvariant
<1>4. s \in 0..(n_subjects - 1) /\ subjects' = 0..(n_subjects - 1)
  BY <1>1 DEF subjects
<1>5. /\ Cardinality(ready \cup {s}) = Cardinality(ready) + 1
      /\ Cardinality(ready) + 1 = n_subjects <=> ready \cup {s} = 0..(n_subjects - 1)
  BY <1>1, <1>2, <1>4, OneMore, Zenon
<1>6. news # "InstructionsEnded"
  BY <1>1, <1>3
<1> QED BY <1>1, <1>3, <1>4, <1>5, <1>6

\* A name that is on script
LEMMA NameCounts ==
  ASSUME SessionInvariant, CountInvariant, NEW s \in subjects, TakeName(s), orderly'
  PROVE  /\ exp'.stage = "Payouts" /\ callback' = "None"
         /\ counter' = Cardinality(named')
         /\ news' = "ExperimentEnded" <=> named' = subjects'
<1>1. /\ exp.stage = "Payouts" /\ callback = "None" /\ s \notin named /\ orderly
      /\ counter' = counter + 1 /\ named' = named \cup {s}
      /\ news' = IF counter' = n_subjects THEN "ExperimentEnded" ELSE news
      /\ exp'.stage = exp.stage
      /\ UNCHANGED <<callback, n_subjects>>
  BY DEF TakeName, OnScript, WithStatus, SessionInvariant, TypeOK
<1>2. n_subjects \in Nat /\ named \in SUBSET (0..(n_subjects - 1))
  BY DEF SessionInvariant, TypeOK, subjects
<1>3. counter = Cardinality(named) /\ (news = "ExperimentEnded" => named = subjects)
  BY <1>1 DEF CountInvariant
<1>4. s \in 0..(n_subjects - 1) /\ subjects' = 0..(n_subjects - 1)
  BY <1>1 DEF subjects
<1>5. /\ Cardinality(named \cup {s}) = Cardinality(named) + 1
      /\ Cardinality(named) + 1 = n_subjects <=> named \cup {s} = 0..(n_subjects - 1)
  BY <1>1, <1>2, <1>4, OneMore, Zenon
<1>6. news # "ExperimentEnded"
  BY <1>1, <1>3
<1> QED BY <1>1, <1>3, <1>4, <1>5, <1>6

LEMMA CountStep ==
  ASSUME SessionInvariant, CountInvariant, [Next]_vars
  PROVE  CountInvariant'
<1> SUFFICES ASSUME orderly' PROVE CountInvariant'
  BY DEF CountInvariant
<1>1. exp \in [round : Nat, status : Status, stage : Stage]
  BY DEF SessionInvariant, TypeOK
<1>2. CASE UNCHANGED vars \/ (Crash /\ UNCHANGED orderly)
  BY <1>2 DEF vars, Crash, CountInvariant, subjects
<1>3. CASE AcceptSubject \/ LoadConfiguration
  <2>1. NothingStarted /\ orderly /\ UNCHANGED <<exp, named>>
    BY <1>3 DEF AcceptSubject, LoadConfiguration, OnScript
  <2> QED BY <2>1 DEF NothingStarted, InitialState, CountInvariant
<1>4. CASE StartInstructions
  <2>1. Cardinality(ready') = 0
    BY <1>4, FS_EmptySet DEF StartInstructions
  <2>2. /\ NothingStarted /\ orderly /\ named' = named /\ counter' = 0
        /\ news' = "InstructionsStarted" /\ exp' = WithStage(exp, "Instructions")
    BY <1>4 DEF StartInstructions, OnScript
  <2>3. named' = {} /\ exp'.stage = "Instructions"
    BY <1>1, <2>2 DEF NothingStarted, InitialState, WithStage, CountInvariant
  <2> QED BY <2>1, <2>2, <2>3 DEF CountInvariant
<1>5. CASE StartExperiment /\ StartRound(WithStatus(exp, "Running"))
  <2>1. orderly /\ exp.stage # "Payouts" /\ named' = named
    BY <1>5 DEF StartExperiment, MayStart, SessionInvariant, Crash
  <2> QED BY <1>1, <1>5, <2>1 DEF StartRound, NextRound, WithStatus, CountInvariant
<1>6. CASE callback # "None" /\ (StartReview \/ StartRound(exp)) /\ UNCHANGED <<orderly, named>>
  BY <1>1, <1>6 DEF StartReview, StartRound, NextRound, WithStage, CountInvariant
<1>7. CASE callback # "None" /\ StartPayouts /\ callback' = "None" /\ UNCHANGED <<orderly, named>>
  <2>1. named' = {} /\ counter' = 0 /\ news' = "PayoutsStarted" /\ exp'.stage = "Payouts"
    BY <1>1, <1>7 DEF StartPayouts, WithStage, CountInvariant
  <2>2. Cardinality(named') = 0
    BY <2>1, FS_EmptySet
  <2> QED BY <1>7, <2>1, <2>2 DEF CountInvariant
<1>8. CASE \E s \in subjects : Ready(s)
  <2>1. PICK s \in subjects : Ready(s)
    BY <1>8
  <2> QED BY <2>1, ReadyCounts DEF Ready, OnScript, CountInvariant
<1>9. CASE \E s \in subjects : TakeName(s)
  <2>1. PICK s \in subjects : TakeName(s)
    BY <1>9
  <2> QED BY <2>1, NameCounts DEF CountInvariant
<1>10. CASE EndRound \/ EndReview
  BY <1>2, <1>6, <1>7, <1>10 DEF EndRound, EndReview
<1>11. ~EndEarly
  BY DEF EndEarly, OnScript
<1>12. CASE StartExperiment
  <2>1. StartRound(WithStatus(exp, "Running")) \/ (Crash /\ UNCHANGED orderly)
    BY <1>12 DEF StartExperiment
  <2> QED BY <1>2, <1>5, <1>12, <2>1
<1>13. CASE \E s \in subjects : MarketRequest(s)
  BY <1>2, <1>13 DEF MarketRequest
<1>14. CASE SubjectMessage
  BY <1>8, <1>9, <1>13, <1>14 DEF SubjectMessage
<1> QED BY <1>2, <1>3, <1>4, <1>10, <1>11, <1>12, <1>14
    DEF Next, Connection, AdminCommand, TimerExpires

\* As long as everybody keeps to the script, the instructions and the experiment
\* end with the last of any number of subjects, although the counter only
\* counts messages and is shared by the two.
THEOREM CounterIsRight == Spec => CounterCountsSubjects
<1> DEFINE Right == orderly' =>
                      /\ ready' # ready /\ ready' # {} =>
                           (news' = "InstructionsEnded" <=> ready' = subjects')
                      /\ named' # named =>
                           (news' = "ExperimentEnded" <=> named' = subjects')
<1>1. ASSUME SessionInvariant, CountInvariant, [Next]_vars PROVE [Right]_vars
  <2>1. CASE \E s \in subjects : Ready(s)
    <3>1. PICK s \in subjects : Ready(s)
      BY <2>1
    <3> QED BY <1>1, <3>1, ReadyCounts DEF Ready
  <2>2. CASE \E s \in subjects : TakeName(s)
    <3>1. PICK s \in subjects : TakeName(s)
      BY <2>2
    <3> QED BY <1>1, <3>1, NameCounts DEF TakeName
  <2>3. CASE ~SubjectMessage \/ \E s \in subjects : MarketRequest(s)
    <3>1. named' = named /\ (ready' = ready \/ ready' = {})
      BY <1>1, <2>3 DEF Next, Connection, AdminCommand, TimerExpires, AcceptSubject,
         LoadConfiguration, StartInstructions, StartExperiment, EndRound, EndReview,
         EndEarly, MarketRequest, Crash, vars
    <3> QED BY <3>1
  <2> QED BY <2>1, <2>2, <2>3 DEF SubjectMessage
<1>2. SessionInvariant /\ CountInvariant /\ [Next]_vars => CountInvariant'
  BY CountStep
<1> QED BY <1>1, <1>2, CountInit, SessionAlways, PTL DEF Spec, CounterCountsSubjects

=============================================================================
