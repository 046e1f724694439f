---------------------------- MODULE MCRateLimiter ----------------------------
(***************************************************************************)
(* Three keys of three kinds on a map that evicts from one window on and   *)
(* is full with two.                                                       *)
(***************************************************************************)
EXTENDS RateHistory, TLC

CONSTANTS k1, k2, k3

MCMaximum == k1 :> 2 @@ k2 :> 1 @@ k3 :> 1
MCWindow == k1 :> 3 @@ k2 :> 2 @@ k3 :> 1
=============================================================================
