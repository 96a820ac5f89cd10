------------------------------- MODULE MCCtl -------------------------------
(* A small system under spp-ctl: two secondaries with one client id.        *)
EXTENDS Ctl, TLC

CONSTANTS vf, nfv, pri

MCIdOf == vf :> 1 @@ nfv :> 1 @@ pri :> 0
=============================================================================
