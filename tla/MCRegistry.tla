----------------------------- MODULE MCRegistry -----------------------------
(* A small instance of Registry: see the configuration.                    *)
EXTENDS Registry

=============================================================================
