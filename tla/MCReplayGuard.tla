--------------------------- MODULE MCReplayGuard ----------------------------
(* Small instance of replay prevention: MCReplayGuard.cfg gives the values.*)
EXTENDS ReplayGuard
=============================================================================
