--------------------------- MODULE MCHeaderChain ----------------------------
(* Two retargets (blocks 4 and 6) of windows of two blocks.                *)
EXTENDS HeaderChain
=============================================================================
