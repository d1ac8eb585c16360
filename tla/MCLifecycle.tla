----------------------------- MODULE MCLifecycle -----------------------------
(***************************************************************************)
(* Small instances of Lifecycle: a file for an experiment of two subjects  *)
(* and two rounds, a smaller one to replace it with, one without rounds,   *)
(* and files that the reader should refuse or warn of.                     *)
(***************************************************************************)
EXTENDS Lifecycle

CONSTANTS trader, creator

Sample ==
  [form |-> "WellFormed", n_players |-> 2, n_rounds |-> 2, n_dividends |-> 2,
   realizations |-> <<1, 0>>, n_margins |-> 2, n_max_margins |-> 2,
   assignments |-> <<trader, creator>>, roles |-> {trader, creator}]

MCFiles ==
  {Sample,
   [Sample EXCEPT !.n_players = 1, !.n_rounds = 1],
   [Sample EXCEPT !.n_rounds = 0],
   [Sample EXCEPT !.n_rounds = 3],
   [Sample EXCEPT !.n_players = 3],
   [Sample EXCEPT !.realizations = <<1, 2>>],
   [Sample EXCEPT !.n_margins = 1],
   [Sample EXCEPT !.n_max_margins = 1],
   [Sample EXCEPT !.roles = {trader}],
   [Sample EXCEPT !.form = "KeyMissing"]}

=============================================================================
