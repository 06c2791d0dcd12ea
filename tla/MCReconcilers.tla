--------------------------- MODULE MCReconcilers ----------------------------
(***************************************************************************)
(* Small instances of Reconcilers for TLC.                                 *)
(***************************************************************************)
EXTENDS Reconcilers

MCRateLimitBackoff == <<1>>
MCStrikeBackoff == <<1>>

=============================================================================
