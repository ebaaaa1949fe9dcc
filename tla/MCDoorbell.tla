---------------------------- MODULE MCDoorbell ----------------------------
(* Doorbell over small instances.  A tick stands for several seconds: the   *)
(* runs keep Absence <= MinHold < MaxHold, and a cooldown shorter than the  *)
(* code's, which only lets a second press come sooner.                      *)
EXTENDS Doorbell

=============================================================================
