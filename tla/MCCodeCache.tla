----------------------------- MODULE MCCodeCache ------------------------------
(* Three cells, one of them under the overlay, and two blocks that share one. *)
EXTENDS CodeCache, TLC

CONSTANTS low, shared, high, entry, routine

MCCells == {low, shared, high}
MCLow == {low}
MCCovers == (entry :> {low, shared}) @@ (routine :> {shared, high})

=============================================================================
