---------------------------- MODULE MCNodeProcess ----------------------------
(* One process: two names for loops, one more than should ever be in use,  *)
(* and the two signals that Ctrl+C brings about.                           *)
EXTENDS NodeProcess
=============================================================================
