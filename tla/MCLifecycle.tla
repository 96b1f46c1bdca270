----------------------------- MODULE MCLifecycle -----------------------------
(***************************************************************************)
(* TLC instances of the process with its registrar.                        *)
(***************************************************************************)
EXTENDS Lifecycle
==============================================================================
