---------------------------- MODULE MCSequential ----------------------------
(* The instance of Sandbox on which the hypothesis of the theorems about one *)
(* program at a time holds.                                                  *)
EXTENDS MCSandbox

ASSUME InstanceIsSequential == Sequential

=============================================================================
