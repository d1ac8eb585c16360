--------------------------- MODULE ExperimentState ---------------------------
(***************************************************************************)
(* The record every server component shares (experiment_state.hh) and the  *)
(* setters of Experiment (experiment.hh) that change it, as functions from *)
(* one value of the record to the next.                                    *)
(***************************************************************************)
EXTENDS Naturals

Status == {"NotStarted", "Running", "Paused", "Ended"}

\* Stage::Dividends and Stage::End exist in the enum, and no handler sets them.
Stage == {"PreExperiment", "Instructions", "Round", "Review", "Payouts"}

InitialState ==
  [round |-> 0, status |-> "NotStarted", stage |-> "PreExperiment"]

IsMarketOpen(exp) == exp.status = "Running" /\ exp.stage = "Round"

WithStage(exp, stage) == [exp EXCEPT !.stage = stage]

WithStatus(exp, status) == [exp EXCEPT !.status = status]

\* Experiment::StartRound
NextRound(exp) ==
  [round  |-> IF exp.stage = "PreExperiment" THEN 1 ELSE exp.round + 1,
   status |-> "Running",
   stage  |-> "Round"]

=============================================================================
