-------------------------- MODULE ConfigurationReader --------------------------
(***************************************************************************)
(* ReadConfigurationFile: which files are refused, with which error, and   *)
(* what is taken from one that is not.  The tables of a file that are      *)
(* indexed by player or by round are kept; of the margins only how many    *)
(* there are matters.                                                      *)
(***************************************************************************)
EXTENDS Integers, Sequences

CONSTANT Role   \* names of roles

\* "Malformed" stands for whatever makes the parser or a get<> throw: no JSON,
\* a value of another type, or a key missing that the check for keys leaves
\* out (first_create_round, max_margins, the fields of a role).
FileForm == {"Absent", "Malformed", "KeyMissing", "WellFormed"}

\* What a file says
File == [form : FileForm, n_players : Nat, n_rounds : Nat, n_dividends : Nat,
         realizations : Seq(Nat), n_margins : Nat, n_max_margins : Nat,
         assignments : Seq(Role), roles : SUBSET Role]

\* Mutant: a realization may be the number of dividends.
InvalidRealizationOffByOne(f) ==
  \E r \in DOMAIN f.realizations : f.realizations[r] > f.n_dividends

InvalidRealization(f) ==
  \E r \in DOMAIN f.realizations : f.realizations[r] >= f.n_dividends

\* The first error that is found
ReadError(f) ==
  CASE f.form = "Absent"                     -> "FileDoesNotExist"
    [] f.form = "Malformed"                  -> "InvalidFormat"
    [] f.form = "KeyMissing"                 -> "MissingValue"
    [] OTHER ->
       IF Len(f.assignments) < f.n_players THEN "TooFewRoleAssignments"
       ELSE IF Len(f.realizations) < f.n_rounds THEN "TooFewDividendRealizations"
       ELSE IF f.n_margins < f.n_rounds \/ f.n_max_margins < f.n_rounds
            THEN "TooFewMarginRequirements"
       ELSE IF InvalidRealization(f) THEN "InvalidDividendRealization"
       ELSE IF \E i \in 1..f.n_players : f.assignments[i] \notin f.roles
            THEN "UnknownRole"
       ELSE "None"

\* The rounds whose dividend and margins the file gives, where the code
\* indexes its tables without looking at their length
DescribedRounds(f) ==
  {r \in 1..f.n_rounds :
     /\ r \in DOMAIN f.realizations /\ f.realizations[r] < f.n_dividends
     /\ r <= f.n_margins /\ r <= f.n_max_margins}

\* The players, counted from zero, whose settings the file gives
DescribedPlayers(f) ==
  {s \in 0..(f.n_players - 1) :
     s + 1 \in DOMAIN f.assignments /\ f.assignments[s + 1] \in f.roles}

\* The Configuration: sub_configs and per_configs by the keys they have
Read(f) == [n_players   |-> f.n_players,
            n_rounds    |-> f.n_rounds,
            sub_configs |-> DescribedPlayers(f),
            per_configs |-> DescribedRounds(f)]

=============================================================================
