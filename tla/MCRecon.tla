------------------------------ MODULE MCRecon -------------------------------
(* Instances of Recon for TLC: two or three targets, one or two names each.   *)
EXTENDS Recon, TLC

CONSTANTS apex, www
=============================================================================
