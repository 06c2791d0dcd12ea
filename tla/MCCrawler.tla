------------------------------ MODULE MCCrawler ------------------------------
(***************************************************************************)
(* A small instance of Crawler for TLC: listings link to the videos, and   *)
(* the pages of videos to BaseUrl and to what is excluded.                 *)
(***************************************************************************)
EXTENDS Crawler

MCRateLimitBackoff == <<1, 2>>
MCStrikeBackoff == <<1>>

MCLinks == [u \in URL |-> IF u \in Listing THEN Video ELSE {BaseUrl} \cup Excluded]

=============================================================================
