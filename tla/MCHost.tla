-------------------------------- MODULE MCHost --------------------------------
(* The machine of MCMachine under the callers of Host. *)
EXTENDS MCMachine, Host

=============================================================================
