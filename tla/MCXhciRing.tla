----------------------------- MODULE MCXhciRing -----------------------------
(* A ring of five slots, with as many TRBs outstanding as it allows.       *)
EXTENDS XhciRing
=============================================================================
