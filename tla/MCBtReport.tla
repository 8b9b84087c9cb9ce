----------------------------- MODULE MCBtReport -----------------------------
(* Model checking of BtReport: two devices share a bucket of sent_lst, the *)
(* third has its own.                                                      *)
EXTENDS BtReport, TLC

CONSTANTS a1, a2, a3

Clash == (a1 :> 0) @@ (a2 :> 0) @@ (a3 :> 1)
=============================================================================
