---------------------------- MODULE MCRoundTimer ----------------------------
(* A small instance of ClientClock, and of the RoundTimer it extends: see  *)
(* the configuration.                                                      *)
EXTENDS ClientClock

=============================================================================
