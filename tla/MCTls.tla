-------------------------------- MODULE MCTls --------------------------------
(* Small instances of Tls for TLC. *)
EXTENDS Tls

CONSTANTS a, b
=============================================================================
