--------------------------- MODULE MCClientMirror ---------------------------
(***************************************************************************)
(* A small instance of Mirror: the viewer trades with one other subject    *)
(* over two rounds and may create shares.                                  *)
(***************************************************************************)
EXTENDS Mirror

CONSTANTS alice, bob

MCInitCash == alice :> 3 @@ bob :> 2

MCInitShares == alice :> 1 @@ bob :> 2

MCDividend == [r \in 1..NRounds |-> r]

MCMarginReq == [r \in 1..NRounds |-> 1]

MCMarginMax == [r \in 1..NRounds |-> 3]

=============================================================================
