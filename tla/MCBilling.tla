----------------------------- MODULE MCBilling -----------------------------
(* Instances of Billing for TLC: one tenant, a run of two calls and two runs *)
(* of one.                                                                   *)
EXTENDS Billing, TLC

CONSTANTS r1, r2, s1, s2, s3

MCRunOf == s1 :> r1 @@ s2 :> r1 @@ s3 :> r2
MCMedian == s1 :> 1 @@ s2 :> 1 @@ s3 :> 2
MCHigh == s1 :> 2 @@ s2 :> 2 @@ s3 :> 3
=============================================================================
