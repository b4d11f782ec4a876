---------------------------- MODULE MCCongestion ----------------------------
(* Two slots for four packets of two sizes, so that slots are evicted.        *)
EXTENDS CongestionControl
=============================================================================
