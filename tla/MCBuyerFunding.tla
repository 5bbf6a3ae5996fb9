--------------------------- MODULE MCBuyerFunding ---------------------------
(***************************************************************************)
(* Two buyer processes, two keys and two purchases in one asset, which     *)
(* together exceed its limit for a window.                                 *)
(***************************************************************************)
EXTENDS BuyerFunding, TLC

CONSTANTS b1, b2, k1, k2, q1, q2

MCAsset == q1 :> "usd" @@ q2 :> "usd"
MCAmount == q1 :> 2 @@ q2 :> 1
OneAsset == q1 :> "usd"
OneAmount == q1 :> 2
=============================================================================
