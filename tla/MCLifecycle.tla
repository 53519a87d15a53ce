---------------------------- MODULE MCLifecycle ----------------------------
(***************************************************************************)
(* Lifecycle with the values its configurations give to the constants: two *)
(* workers, of which one can fail while the other fetches, and fewer       *)
(* retries than the five of the code.                                      *)
(***************************************************************************)
EXTENDS Lifecycle
=============================================================================
