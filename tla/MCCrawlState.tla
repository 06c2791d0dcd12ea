---------------------------- MODULE MCCrawlState -----------------------------
(***************************************************************************)
(* Small instances of CrawlState for TLC: BaseUrl links to one video, and  *)
(* that video to everything else.                                          *)
(***************************************************************************)
EXTENDS CrawlState, TLC

CONSTANT First    \* the video that BaseUrl links to

MCLinks == [u \in URL |-> IF u = BaseUrl THEN {First}
                          ELSE IF u = First THEN URL \ {First} ELSE {}]

=============================================================================
