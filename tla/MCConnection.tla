---------------------------- MODULE MCConnection ----------------------------
(***************************************************************************)
(* A small instance of AsioClient and the Connection it extends: messages  *)
(* with bodies of zero, one and two cells.                                 *)
(***************************************************************************)
EXTENDS AsioClient

CONSTANTS x, y

MCMessages ==
  {[type |-> "Ready", body |-> <<>>],
   [type |-> "Bid",   body |-> <<x>>],
   [type |-> "Name",  body |-> <<x, y>>]}

=============================================================================
