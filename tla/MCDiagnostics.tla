---------------------------- MODULE MCDiagnostics ----------------------------
(* Values of the constants of Diagnostics for TLC. *)
EXTENDS Diagnostics

AnyServer == TlsAnswers
==============================================================================
