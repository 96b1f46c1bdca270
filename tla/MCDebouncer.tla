----------------------------- MODULE MCDebouncer -----------------------------
(***************************************************************************)
(* TLC instances of the debouncer.  Submissions are told apart by their    *)
(* number, so one event value is enough.                                   *)
(***************************************************************************)
EXTENDS Debouncer
==============================================================================
