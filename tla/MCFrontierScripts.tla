-------------------------- MODULE MCFrontierScripts --------------------------
(***************************************************************************)
(* Instances of FrontierScripts for TLC.                                   *)
(***************************************************************************)
EXTENDS FrontierScripts

MCRateLimitBackoff == <<1, 2>>
MCStrikeBackoff == <<1>>

=============================================================================
