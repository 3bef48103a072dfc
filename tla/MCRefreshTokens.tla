-------------------------- MODULE MCRefreshTokens --------------------------
(* Instances of RefreshTokens for TLC.  The run checks a liveness property,*)
(* so there is no symmetry.                                                *)
EXTENDS RefreshTokens
=============================================================================
