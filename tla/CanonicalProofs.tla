--------------------------- MODULE CanonicalProofs ---------------------------
(***************************************************************************)
(* Proofs about the forms of a URL, for every site, every set of links and *)
(* any number of redirects.  Everything rests on canonicalize being a      *)
(* projection (Projection): what it returns is a fixed point, and the id   *)
(* of a video survives the way through decoding and encoding.              *)
(***************************************************************************)
EXTENDS Canonical, TLAPS

Canon == {u \in Url : canonicalize(u) = u}

\* The URLs the crawler has taken on.
Taken == filter \cup schedule

KnownURLs ==
    /\ Taken \subseteq Canon
    /\ work \subseteq Taken /\ dead \subseteq Taken
    /\ job \in Taken \cup {None}
    /\ skipped = {}

\* A video's job asks for nothing but another spelling of its own address.
OnTrack ==
    job # None =>
       /\ request \in Url
       /\ IsVideo(job) => canonicalize(request) = job

CorpusOK ==
    /\ DOMAIN corpus \subseteq Canon
    /\ StoredIsItself

CanonInv == KnownURLs /\ OnTrack /\ CorpusOK /\ FailsOnlyForQuery

-----------------------------------------------------------------------------
(* The conversions.                                                        *)

\* Encoding what was decoded, and decoding that, gives the id again.
LEMMA IdSurvives ==
    ASSUME NEW t \in STRING
    PROVE  /\ Unescape(t) \in STRING /\ QueryEscape(Unescape(t)) \in STRING
           /\ Unescape(QueryEscape(Unescape(t))) = Unescape(t)
<1>1. CASE t \in {"+", "%2B", "%7C", "%2F", "|"}
  BY <1>1, TextAssumption DEF Unescape, QueryEscape
<1>2. CASE t \notin {"+", "%2B", "%7C", "%2F", "|"}
  BY <1>2 DEF Unescape, QueryEscape
<1> QED BY <1>1, <1>2

\* What canonicalize makes of a video's address.
LEMMA OfVideo ==
    ASSUME NEW u \in Url, u.path = "/watch", canonicalize(u) # None
    PROVE  /\ canonicalize(u) = Watch(QueryEscape(VideoOf(u)))
           /\ VideoOf(u) \notin BadId
BY DEF canonicalize, VideoOf

\* And of a listing's.
LEMMA OfListing ==
    ASSUME NEW u \in Url, u.path # "/watch", canonicalize(u) # None
    PROVE  /\ canonicalize(u) = [u EXCEPT !.host = "site", !.slash = FALSE, !.encoded = TRUE,
                                          !.fragment = FALSE]
           /\ u.path \in Discovery \cup Channel /\ ~u.user /\ u.scheme = "https"
BY DEF canonicalize, Url

\* The address written for a video is canonical.
LEMMA WatchIsCanonical ==
    ASSUME NEW u \in Url, VideoOf(u) \notin BadId
    PROVE  LET c == Watch(QueryEscape(VideoOf(u)))
           IN  c \in Canon /\ c.path = "/watch" /\ VideoOf(c) = VideoOf(u)
<1> DEFINE t == QueryEscape(VideoOf(u))
           c == Watch(t)
<1>1. u.v \in STRING
  BY DEF Url
<1>2. t \in STRING /\ Unescape(t) = VideoOf(u)
  BY <1>1, IdSurvives DEF VideoOf
<1> HIDE DEF t
<1>3. c \in Url /\ c.path = "/watch" /\ c.v = t /\ ~c.user /\ c.scheme = "https" /\ c.host = "site"
  BY <1>2, TextAssumption DEF Watch, Url
<1>4. canonicalize(c) = Watch(QueryEscape(Unescape(t)))
  BY <1>2, <1>3 DEF canonicalize
<1>5. canonicalize(c) = c
  BY <1>2, <1>4 DEF t
<1> QED BY <1>2, <1>3, <1>5 DEF Canon, VideoOf, t

\* canonicalize is a projection on the canonical URLs.
LEMMA Projection ==
    ASSUME NEW u \in Url, canonicalize(u) # None
    PROVE  canonicalize(u) \in Canon
<1>1. CASE u.path = "/watch"
  BY <1>1, OfVideo, WatchIsCanonical
<1>2. CASE u.path # "/watch"
  <2> DEFINE c == canonicalize(u)
  <2>1. /\ c = [u EXCEPT !.host = "site", !.slash = FALSE, !.encoded = TRUE, !.fragment = FALSE]
        /\ u.path \in Discovery \cup Channel /\ ~u.user /\ u.scheme = "https"
    BY <1>2, OfListing
  <2> HIDE DEF c
  <2>2. /\ c \in Url /\ c.path = u.path /\ c.user = u.user /\ c.scheme = u.scheme
        /\ c.host = "site" /\ c.slash = FALSE /\ c.encoded = TRUE /\ c.fragment = FALSE
    BY <2>1, TextAssumption DEF Url
  <2>3. canonicalize(c) = [c EXCEPT !.host = "site", !.slash = FALSE, !.encoded = TRUE,
                                    !.fragment = FALSE]
    BY <1>2, <2>1, <2>2 DEF canonicalize
  <2>4. canonicalize(c) = c
    <3>1. [c EXCEPT !.host = "site"] = c
      BY <2>2 DEF Url
    <3>2. [c EXCEPT !.slash = FALSE] = c /\ [c EXCEPT !.encoded = TRUE] = c
      BY <2>2 DEF Url
    <3>3. [c EXCEPT !.fragment = FALSE] = c
      BY <2>2 DEF Url
    <3> QED BY <2>3, <3>1, <3>2, <3>3
  <2> QED BY <2>2, <2>4 DEF Canon, c
<1> QED BY <1>1, <1>2

\* A canonical URL is accepted, and has no mark that a row may not hold but in the
\* query of a listing.
LEMMA CanonFacts ==
    ASSUME NEW u \in Canon
    PROVE  /\ u \in Url /\ u # None /\ canonicalize(u) = u
           /\ u.path = "/watch" => u = Watch(QueryEscape(VideoOf(u))) /\ VideoOf(u) \notin BadId
           /\ ~Valid(u) => u.path # "/watch" /\ (u.rest \cup {u.v}) \cap {"|", " "} # {}
<1>1. u \in Url /\ u # None /\ canonicalize(u) = u
  BY SiteAssumption DEF Canon
<1>2. u.path = "/watch" => u = Watch(QueryEscape(VideoOf(u))) /\ VideoOf(u) \notin BadId
  BY <1>1, OfVideo
<1>3. CASE u.path = "/watch"
  <2>1. u.v = QueryEscape(VideoOf(u)) /\ u.rest = {} /\ ~u.user /\ ~u.fragment
    BY <1>2, <1>3 DEF Watch
  <2>2. u.v \notin {"|", " "}
    BY <1>2, <1>3, <2>1 DEF QueryEscape, BadId
  <2>3. Valid(u)
    BY <1>3, <2>1, <2>2 DEF Valid, HasSeparator
  <2> QED BY <1>1, <1>2, <2>3
<1>4. CASE u.path # "/watch"
  <2>1. /\ u = [u EXCEPT !.host = "site", !.slash = FALSE, !.encoded = TRUE, !.fragment = FALSE]
        /\ ~u.user
    BY <1>1, <1>4, OfListing
  <2>2. u.encoded /\ ~u.fragment
    BY <1>1, <2>1 DEF Url
  <2> QED BY <1>1, <1>4, <2>1, <2>2 DEF Valid, HasSeparator
<1> QED BY <1>3, <1>4

-----------------------------------------------------------------------------
(* The invariant is inductive.                                             *)

\* Once a pass failed there is a reason, and it stays.
LEMMA FailsKept ==
    ASSUME FailsOnlyForQuery, UNCHANGED saved, schedule \cup dead \subseteq schedule' \cup dead'
    PROVE  FailsOnlyForQuery'
BY DEF FailsOnlyForQuery

\* Admission takes on canonical URLs only.
LEMMA AdmitStep ==
    ASSUME CanonInv, NEW raw \in Raw, Admit(raw)
    PROVE  CanonInv'
<1> DEFINE url == canonicalize(raw)
<1>1. /\ url # None /\ Taken' = Taken \cup {url} /\ work' = work \cup {url}
      /\ schedule \subseteq schedule'
      /\ UNCHANGED <<dead, job, request, hops, corpus, skipped, saved>>
  BY DEF Admit, Taken, fetch
<1>2. url \in Canon
  BY <1>1, Projection, SiteAssumption
<1>3. KnownURLs'
  BY <1>1, <1>2 DEF CanonInv, KnownURLs
<1>4. OnTrack' /\ CorpusOK'
  BY <1>1 DEF CanonInv, OnTrack, CorpusOK, StoredIsItself
<1>5. FailsOnlyForQuery'
  BY <1>1, FailsKept DEF CanonInv
<1> QED BY <1>3, <1>4, <1>5 DEF CanonInv

\* A fetch starts with a URL the crawler took on, and redirects keep a video on its track.
LEMMA FetchStep ==
    ASSUME CanonInv,
           \/ \E url \in work : Begin(url)
           \/ \E raw \in Raw : Follow(raw)
    PROVE  CanonInv'
<1>1. ASSUME NEW url \in work, Begin(url) PROVE CanonInv'
  <2>1. url \in Taken /\ url \in Canon
    BY DEF CanonInv, KnownURLs
  <2>2. canonicalize(url) = url /\ url # None /\ url \in Url
    BY <2>1, CanonFacts
  <2>3. /\ job' = url /\ request' = url /\ work' = work \ {url}
        /\ UNCHANGED <<filter, schedule, dead, corpus, skipped, saved>>
    BY <1>1, <2>2 DEF Begin
  <2>4. KnownURLs' /\ OnTrack' /\ CorpusOK'
    BY <2>1, <2>2, <2>3 DEF CanonInv, KnownURLs, Taken, OnTrack, CorpusOK, StoredIsItself
  <2>5. FailsOnlyForQuery'
    BY <2>3, FailsKept DEF CanonInv
  <2> QED BY <2>4, <2>5 DEF CanonInv
<1>2. ASSUME NEW raw \in Raw, Follow(raw) PROVE CanonInv'
  <2>1. /\ job # None /\ MayFollow(raw) /\ request' = raw
        /\ UNCHANGED <<filter, schedule, dead, work, job, corpus, skipped, saved>>
    BY <1>2 DEF Follow
  <2>2. job \in Canon
    BY <2>1 DEF CanonInv, KnownURLs
  <2>3. IsVideo(job) => canonicalize(raw) = job
    BY <2>1, <2>2, CanonFacts DEF MayFollow
  <2>4. OnTrack'
    BY <2>1, <2>3, SiteAssumption DEF OnTrack
  <2>5. KnownURLs' /\ CorpusOK'
    BY <2>1 DEF CanonInv, KnownURLs, Taken, CorpusOK, StoredIsItself
  <2>6. FailsOnlyForQuery'
    BY <2>1, FailsKept DEF CanonInv
  <2> QED BY <2>4, <2>5, <2>6 DEF CanonInv
<1> QED BY <1>1, <1>2

\* A fetch ends without a document.
LEMMA EndStep ==
    ASSUME CanonInv, job # None, Done, UNCHANGED <<filter, schedule, corpus, skipped, saved>>,
           work' \subseteq work \cup {job}, dead \subseteq dead', dead' \subseteq dead \cup {job}
    PROVE  CanonInv'
<1>1. KnownURLs'
  BY DEF CanonInv, KnownURLs, Taken, Done
<1>2. OnTrack' /\ CorpusOK'
  BY DEF CanonInv, OnTrack, CorpusOK, StoredIsItself, Done
<1>3. FailsOnlyForQuery'
  BY FailsKept DEF CanonInv
<1> QED BY <1>1, <1>2, <1>3 DEF CanonInv

\* The page of a video is stored.
LEMMA StoreStep ==
    ASSUME CanonInv, job # None, IsVideo(job), request.path = "/watch", Done,
           corpus' = [u \in DOMAIN corpus \cup {job} |-> IF u = job THEN request ELSE corpus[u]],
           UNCHANGED <<filter, schedule, dead, work, skipped, saved>>
    PROVE  CanonInv'
<1>1. job \in Canon /\ request \in Url /\ canonicalize(request) = job
  BY DEF CanonInv, KnownURLs, OnTrack
<1>2. job # None
  BY <1>1, CanonFacts
<1>3. job = Watch(QueryEscape(VideoOf(request))) /\ VideoOf(request) \notin BadId
  BY <1>1, <1>2, OfVideo
<1>4. job.path = "/watch" /\ VideoOf(job) = VideoOf(request)
  BY <1>1, <1>3, WatchIsCanonical
<1>5. CorpusOK'
  BY <1>1, <1>4 DEF CanonInv, CorpusOK, StoredIsItself, VideoOf
<1>6. KnownURLs' /\ OnTrack'
  BY DEF CanonInv, KnownURLs, Taken, OnTrack, Done
<1>7. FailsOnlyForQuery'
  BY FailsKept DEF CanonInv
<1> QED BY <1>5, <1>6, <1>7 DEF CanonInv

\* Every step keeps the invariant.
LEMMA CanonStep ==
    ASSUME CanonInv, [Next]_vars
    PROVE  CanonInv'
<1>1. ASSUME NEW raw \in Raw, Admit(raw) \/ Follow(raw) PROVE CanonInv'
  BY <1>1, AdmitStep, FetchStep
<1>2. ASSUME NEW url \in work, Begin(url) PROVE CanonInv'
  BY <1>2, FetchStep
<1>3. CASE Failed \/ \E raw \in Raw : Rejected(raw)
  BY <1>3, EndStep DEF Failed, Rejected, Retry
<1>4. CASE GivenUp
  BY <1>4, EndStep DEF GivenUp
<1>5. CASE Page
  <2>1. CASE /\ IsVideo(job) /\ request.path = "/watch"
             /\ corpus' = [u \in DOMAIN corpus \cup {job} |-> IF u = job THEN request ELSE corpus[u]]
             /\ Done
             /\ UNCHANGED <<filter, schedule, dead, work, skipped, saved>>
    BY <1>5, <2>1, StoreStep DEF Page
  <2>2. CASE Retry
    BY <1>5, <2>2, EndStep DEF Page, Retry
  <2>3. CASE Done /\ UNCHANGED <<filter, schedule, dead, work, corpus, skipped, saved>>
    BY <1>5, <2>3, EndStep DEF Page
  <2> QED BY <1>5, <2>1, <2>2, <2>3 DEF Page
<1>6. ASSUME NEW url \in schedule, Revisit(url) PROVE CanonInv'
  <2>1. /\ work' = work \cup {url} /\ dead' = dead \ {url}
        /\ UNCHANGED <<filter, schedule, job, request, corpus, skipped, saved>>
    BY <1>6 DEF Revisit, fetch
  <2>2. KnownURLs' /\ OnTrack' /\ CorpusOK'
    BY <2>1 DEF CanonInv, KnownURLs, Taken, OnTrack, CorpusOK, StoredIsItself
  <2>3. FailsOnlyForQuery'
    BY <2>1, FailsKept DEF CanonInv
  <2> QED BY <2>2, <2>3 DEF CanonInv
<1>7. CASE Checkpoint
  <2>1. /\ saved' = IF \A u \in schedule \cup dead : Valid(u) THEN "complete" ELSE "failed"
        /\ UNCHANGED <<filter, schedule, dead, work, job, request, corpus, skipped>>
    BY <1>7 DEF Checkpoint, fetch
  <2>2. KnownURLs' /\ OnTrack' /\ CorpusOK'
    BY <2>1 DEF CanonInv, KnownURLs, Taken, OnTrack, CorpusOK, StoredIsItself
  <2>3. schedule \cup dead \subseteq Canon
    BY DEF CanonInv, KnownURLs, Taken
  <2>4. FailsOnlyForQuery'
    BY <2>1, <2>3, CanonFacts DEF FailsOnlyForQuery
  <2> QED BY <2>2, <2>4 DEF CanonInv
<1>8. CASE UNCHANGED vars
  <2>1. KnownURLs' /\ OnTrack' /\ CorpusOK'
    BY <1>8 DEF CanonInv, KnownURLs, Taken, OnTrack, CorpusOK, StoredIsItself, vars
  <2>2. FailsOnlyForQuery'
    BY <1>8, FailsKept DEF CanonInv, vars
  <2> QED BY <2>1, <2>2 DEF CanonInv
<1> QED BY <1>1, <1>2, <1>3, <1>4, <1>5, <1>6, <1>7, <1>8 DEF Next

-----------------------------------------------------------------------------
(* The theorems.                                                           *)

\* Every URL the crawler keeps is canonical, and a video's fetch stays with its
\* own address through every redirect (crawler.go, worker.go:407-410).
THEOREM CanonInductive == Spec => []CanonInv
<1>1. Init => CanonInv
  BY DEF Init, CanonInv, KnownURLs, Taken, OnTrack, CorpusOK, StoredIsItself, FailsOnlyForQuery
<1>2. CanonInv /\ [Next]_vars => CanonInv'
  BY CanonStep
<1> QED BY <1>1, <1>2, PTL DEF Spec

\* A video has one URL however it is spelled, and nothing that was admitted is
\* refused when its job is leased (worker.go:432).
THEOREM OneSpelling == Spec => []CanonicalIsStable
<1>1. CanonInv => CanonicalIsStable
  <2> SUFFICES ASSUME CanonInv
               PROVE  /\ \A u1, u2 \in filter \cup DOMAIN corpus :
                            u1.path = "/watch" /\ u2.path = "/watch" /\ VideoOf(u1) = VideoOf(u2)
                               => u1 = u2
                      /\ skipped = {}
    BY DEF CanonicalIsStable
  <2>1. filter \cup DOMAIN corpus \subseteq Canon /\ skipped = {}
    BY DEF CanonInv, KnownURLs, Taken, CorpusOK
  <2>2. \A u \in Canon : u.path = "/watch" => u = Watch(QueryEscape(VideoOf(u)))
    BY CanonFacts
  <2> QED BY <2>1, <2>2
<1> QED BY <1>1, CanonInductive, PTL

\* A document holds the page of its own video, through every redirect
\* (CheckRedirect, worker.go:398-412).
THEOREM DocumentIsItsOwn == Spec => []StoredIsItself
<1>1. CanonInv => StoredIsItself
  BY DEF CanonInv, CorpusOK
<1> QED BY <1>1, CanonInductive, PTL

\* A checkpoint pass fails for nothing but the raw query of a listing (validate,
\* crawl_state.go:252-259).
THEOREM CheckpointFailsForQuery == Spec => []FailsOnlyForQuery
<1>1. CanonInv => FailsOnlyForQuery
  BY DEF CanonInv
<1> QED BY <1>1, CanonInductive, PTL

=============================================================================
