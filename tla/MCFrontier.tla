----------------------------- MODULE MCFrontier -----------------------------
(***************************************************************************)
(* Small instances of Frontier for TLC.  The ladders are values a          *)
(* configuration file cannot write.                                        *)
(***************************************************************************)
EXTENDS Frontier, TLC

MCRateLimitBackoff == <<1, 2>>
MCStrikeBackoff == <<1>>

\* Videos differ in nothing but whether the filter collides on them.
VideoSymmetry == Permutations(Video \ Collides)

=============================================================================
