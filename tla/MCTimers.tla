------------------------------ MODULE MCTimers -------------------------------
(* One timer at its level, as every machine of the repository has, or two at  *)
(* one level.                                                                 *)
EXTENDS Timers

OneTimer == <<2>>
SharedLevel == <<2, 2>>

=============================================================================
