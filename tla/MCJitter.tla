------------------------------ MODULE MCJitter ------------------------------
(* Three slots of which two may be used, three frames in any order;          *)
(* five, and no resets, in the run about late packets.                       *)
EXTENDS JitterBuffer
=============================================================================
