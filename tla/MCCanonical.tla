----------------------------- MODULE MCCanonical -----------------------------
(***************************************************************************)
(* The links of a small site, one per difference that canonicalize, the    *)
(* classifier or CheckRedirect make.                                       *)
(***************************************************************************)
EXTENDS Canonical

Link(p, v0, r) ==
    [scheme |-> "https", user |-> FALSE, host |-> "site", path |-> p,
     slash |-> FALSE, encoded |-> FALSE, first |-> v0 # "", v |-> v0,
     rest |-> r, fragment |-> FALSE]

\* Spellings of the same video, and of ids that have to be escaped.
Spellings ==
    {[Link("/watch", "%2B", {"param"}) EXCEPT !.host = "SITE", !.fragment = TRUE],
     [Link("/watch", "%2B", {"param"}) EXCEPT !.first = FALSE, !.slash = TRUE],
     Link("/watch", "|", {}), Link("/watch", "%7C", {})}

\* What canonicalize refuses.
Refused ==
    {Link("/login", "", {}), Link("/user", "", {}), Link("/watch", "", {}),
     Link("/watch", "%2F", {}),
     [Link("/videos", "", {}) EXCEPT !.user = TRUE],
     [Link("/videos", "", {}) EXCEPT !.host = "elsewhere"],
     [Link("/videos", "", {}) EXCEPT !.scheme = "http"]}

MCChannel == {"/user/a|b"}

\* Listings with a query that somebody typed, or whose address contains the
\* pattern of a video.
Odd ==
    {Link("/user/a|b", "", {}), Link("/results", "", {"|"}),
     Link("/results", "", {"/watch?v="})}

MCRaw ==
    Spellings \cup Refused \cup Odd \cup {[Link("", "", {}) EXCEPT !.slash = TRUE]}

=============================================================================
