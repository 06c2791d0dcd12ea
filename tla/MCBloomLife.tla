----------------------------- MODULE MCBloomLife -----------------------------
(***************************************************************************)
(* A small instance of BloomLife for TLC.                                  *)
(***************************************************************************)
EXTENDS BloomLife

=============================================================================
