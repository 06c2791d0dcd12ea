-------------------------- MODULE MCFrontierRestart --------------------------
(***************************************************************************)
(* Small instances of FrontierRestart for TLC.                             *)
(***************************************************************************)
EXTENDS FrontierRestart, TLC

MCRateLimitBackoff == <<1, 2>>
MCStrikeBackoff == <<1>>

=============================================================================
