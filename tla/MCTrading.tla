------------------------------ MODULE MCTrading ------------------------------
(***************************************************************************)
(* Small instances of Trading: two subjects, two rounds at most, prices    *)
(* around the amounts the subjects hold.                                   *)
(***************************************************************************)
EXTENDS Trading, TLC

CONSTANTS alice, bob

\* Both can buy and sell; the two hold different amounts.
MCInitCash == alice :> 3 @@ bob :> 2

MCInitShares == alice :> 1 @@ bob :> 2

MCDividend == [r \in 1..NRounds |-> r]

MCMarginReq == [r \in 1..NRounds |-> 1]

=============================================================================
