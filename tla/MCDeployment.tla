---------------------------- MODULE MCDeployment ----------------------------
(* Small instances of Deployment.                                          *)
EXTENDS Deployment, TLC

CONSTANTS v1, v2

MCHead == v1 :> 1 @@ v2 :> 2
=============================================================================
