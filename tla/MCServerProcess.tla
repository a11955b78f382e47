-------------------------- MODULE MCServerProcess --------------------------
(* An instance of ServerProcess: every plugin has a signature in           *)
(* plugins_dir that does not verify.                                       *)
EXTENDS ServerProcess

SigBesideBad == [n \in Names |-> "bad"]

=============================================================================
