------------------------------ MODULE Canonical ------------------------------
(***************************************************************************)
(* The forms a URL takes on its way through gfap: a link found on a page   *)
(* (extractLinks), its canonical form (canonicalize, crawler.go), the      *)
(* class it gets by a substring (NewURLClassifier), the addresses it is    *)
(* redirected to (CheckRedirect), the document it is stored as, and the    *)
(* row it becomes in a checkpoint (validate, crawl_state.go).              *)
(*                                                                         *)
(* A URL is the record of what net/url tells apart.  `path' is the decoded *)
(* path without trailing slashes.  `v' is the text of the parameter v, one *)
(* character standing for an id that contains it, and `first' says that it *)
(* begins the query.  `rest' is what else the query holds, by the marks    *)
(* that matter: another parameter, a raw '|' or blank, or the very text    *)
(* "/watch?v=".                                                            *)
(***************************************************************************)
EXTENDS Naturals, FiniteSets, Functions

CONSTANTS
    Raw,            \* the links and redirect targets the site offers
    Channel,        \* paths with the prefix /user/ or /contest/
    MaxRedirects,   \* hops CheckRedirect allows, 10
    None            \* no URL: what canonicalize skips

\* What net/url makes of a text.
Url == [scheme : STRING, user : BOOLEAN, host : STRING, path : STRING, slash : BOOLEAN,
        encoded : BOOLEAN, first : BOOLEAN, v : STRING, rest : SUBSET STRING,
        fragment : BOOLEAN]

ASSUME SiteAssumption ==
    /\ Raw \subseteq Url /\ None \notin Url
    /\ "/watch" \notin Channel

\* The texts that canonicalize writes are texts: so they are, by their definition,
\* but the provers do not know.
ASSUME TextAssumption ==
    {"https", "site", "/watch", " ", "+", "|", "/", "%2B", "%7C"} \subseteq STRING

Discovery == {"", "/videos", "/channels", "/results", "/community",
              "/special_videos", "/contests"}

VARIABLES
    filter,     \* crawler:bloom, claimed as videos
    schedule,   \* crawler:listing:next
    dead,       \* crawler:dead
    work,       \* URLs with a job
    job,        \* the URL a worker processes
    request,    \* the address it asks for, after `hops' redirects
    hops,
    corpus,     \* Mongo: document id -> the address its page came from
    skipped,    \* history: jobs acknowledged unseen, as excluded
    saved       \* how the last checkpoint pass ended

vars == <<filter, schedule, dead, work, job, request, hops, corpus, skipped, saved>>

fetch == <<job, request, hops>>

-----------------------------------------------------------------------------
(* Conversions.                                                            *)

\* Query().Get decodes a parameter, QueryEscape encodes one.
Unescape(text) ==
    CASE text = "+" -> " " [] text = "%2B" -> "+" [] text = "%7C" -> "|"
      [] text = "%2F" -> "/" [] OTHER -> text

QueryEscape_Not(id) == id

QueryEscape(id) == CASE id = "+" -> "%2B" [] id = "|" -> "%7C" [] OTHER -> id

\* A missing parameter, and the ids canonicalize refuses.
BadId == {"", " ", "/"}

\* BaseUrl + VideoPattern + id.
Watch(text) ==
    [scheme |-> "https", user |-> FALSE, host |-> "site", path |-> "/watch",
     slash |-> FALSE, encoded |-> TRUE, first |-> TRUE, v |-> text, rest |-> {},
     fragment |-> FALSE]

\* A plausible canonicalize that only tidies the address of a video.
canonicalize_KeepsQuery(raw) ==
    IF raw.user \/ raw.scheme # "https" \/ raw.host = "elsewhere"
          \/ (raw.path = "/watch" /\ Unescape(raw.v) \in BadId)
          \/ raw.path \notin {"/watch"} \cup Discovery \cup Channel
    THEN None
    ELSE [raw EXCEPT !.host = "site", !.slash = FALSE, !.encoded = TRUE,
                     !.fragment = FALSE]

\* The host is compared without case, the query of a listing is kept as it is.
canonicalize(raw) ==
    IF raw.user \/ raw.scheme # "https" \/ raw.host = "elsewhere" THEN None
    ELSE IF raw.path = "/watch"
         THEN LET id == Unescape(raw.v)
              IN  IF id \in BadId THEN None ELSE Watch(QueryEscape(id))
    ELSE IF raw.path \in Discovery \cup Channel
         THEN [raw EXCEPT !.host = "site", !.slash = FALSE, !.encoded = TRUE,
                          !.fragment = FALSE]
         ELSE None

\* strings.Contains(url, VideoPattern): the text may be the end of any path
\* and the start of its query, or lie within the query.
IsVideo(url) ==
    \/ url.path \in {"/watch", "/user/watch"} /\ ~url.slash /\ url.first
    \/ "/watch?v=" \in url.rest

\* The characters a row may not hold; a path is written percent-encoded.
HasSeparator(url) ==
    \/ url.rest \cap {"|", " "} # {}
    \/ url.v \in {"|", " "}
    \/ url.path = "/user/a|b" /\ ~url.encoded

\* validate, for the URL of a row.
Valid(url) == ~url.user /\ ~url.fragment /\ ~HasSeparator(url)

-----------------------------------------------------------------------------
(* Admission.                                                              *)

\* admitURL for a link of some page.
Admit(raw) ==
    LET url == canonicalize(raw)
    IN  /\ url # None
        /\ url \notin filter \cup schedule
        /\ IF IsVideo(url)
           THEN filter' = filter \cup {url} /\ UNCHANGED schedule
           ELSE schedule' = schedule \cup {url} /\ UNCHANGED filter
        /\ work' = work \cup {url}
        /\ UNCHANGED <<dead, fetch, corpus, skipped, saved>>

\* The listing scheduler; a quarantine may be over by then.
Revisit(url) ==
    /\ url \in schedule \ work /\ url # job
    /\ work' = work \cup {url}
    /\ dead' = dead \ {url}
    /\ UNCHANGED <<filter, schedule, fetch, corpus, skipped, saved>>

-----------------------------------------------------------------------------
(* One fetch.                                                              *)

\* workerLoop canonicalizes the URL of its job once more.
Begin(url) ==
    /\ job = None
    /\ work' = work \ {url}
    /\ IF canonicalize(url) = None
       THEN skipped' = skipped \cup {url} /\ UNCHANGED fetch
       ELSE /\ job' = url /\ request' = url /\ hops' = 0
            /\ UNCHANGED skipped
    /\ UNCHANGED <<filter, schedule, dead, corpus, saved>>

\* CheckRedirect lets the client follow; job is via[0].
MayFollow_AnyVideo(to) ==
    /\ hops + 1 < MaxRedirects
    /\ canonicalize(to) # None
    /\ IsVideo(canonicalize(job)) => IsVideo(canonicalize(to))

MayFollow(to) ==
    /\ hops + 1 < MaxRedirects
    /\ canonicalize(to) # None
    /\ IsVideo(canonicalize(job)) => canonicalize(to) = canonicalize(job)

Follow(to) ==
    /\ job # None
    /\ MayFollow(to)
    /\ request' = to
    /\ hops' = hops + 1
    /\ UNCHANGED <<filter, schedule, dead, work, job, corpus, skipped, saved>>

Done == job' = None /\ request' = None /\ hops' = 0

\* A job that is failed comes back after its delay.
Retry ==
    /\ work' = work \cup {job}
    /\ Done
    /\ UNCHANGED <<filter, schedule, dead, corpus, skipped, saved>>

\* ErrUseLastResponse: the redirect itself is the response, and is rejected.
Rejected(to) == job # None /\ ~MayFollow(to) /\ Retry

\* Any other response that is not a page.
Failed == job # None /\ Retry

\* Not found, or one strike too many: a listing stays on the schedule.
GivenUp ==
    /\ job # None
    /\ dead' = dead \cup {job}
    /\ Done
    /\ UNCHANGED <<filter, schedule, work, corpus, skipped, saved>>

\* Status 200.  Only the page of a video has a title, a date and a duration.
Page ==
    /\ job # None
    /\ \/ /\ IsVideo(job) /\ request.path = "/watch"
          /\ corpus' = [u \in DOMAIN corpus \cup {job} |->
                           IF u = job THEN request ELSE corpus[u]]
          /\ Done
          /\ UNCHANGED <<filter, schedule, dead, work, skipped, saved>>
       \/ /\ IsVideo(job) /\ request.path # "/watch"
          /\ Retry
       \/ /\ ~IsVideo(job)
          /\ Done
          /\ UNCHANGED <<filter, schedule, dead, work, corpus, skipped, saved>>

\* One invalid row ends the pass.
Checkpoint ==
    /\ saved' = IF \A url \in schedule \cup dead : Valid(url)
                THEN "complete" ELSE "failed"
    /\ UNCHANGED <<filter, schedule, dead, work, fetch, corpus, skipped>>

-----------------------------------------------------------------------------

Init ==
    /\ filter = {} /\ schedule = {} /\ dead = {} /\ work = {}
    /\ job = None /\ request = None /\ hops = 0
    /\ corpus = [u \in {} |-> None]
    /\ skipped = {}
    /\ saved = "none"

Next ==
    \/ \E raw \in Raw : Admit(raw) \/ Follow(raw) \/ Rejected(raw)
    \/ \E url \in schedule : Revisit(url)
    \/ \E url \in work : Begin(url)
    \/ Page \/ Failed \/ GivenUp
    \/ Checkpoint

Spec == Init /\ [][Next]_vars

-----------------------------------------------------------------------------
(* Properties.                                                             *)

\* The video behind an address.
VideoOf(url) == Unescape(url.v)

\* A canonical URL is a fixed point.  A video has one URL, whatever the host's
\* case, the trailing slashes, the fragment, the escaping of its id and the
\* other parameters of its links, so the filter really recognises it; and what
\* was accepted at admission is accepted again when the job is leased
\* (worker.go:432), so nothing the crawler admitted is dropped unseen.
CanonicalIsStable ==
    /\ \A u1, u2 \in filter \cup DOMAIN corpus :
          u1.path = "/watch" /\ u2.path = "/watch" /\ VideoOf(u1) = VideoOf(u2)
             => u1 = u2
    /\ skipped = {}

\* A document holds the page of its own video, through every redirect: never
\* the page of another video or of a listing (worker.go:407-410).
StoredIsItself ==
    \A u \in DOMAIN corpus :
       /\ u.path = "/watch" /\ corpus[u].path = "/watch"
       /\ VideoOf(u) = VideoOf(corpus[u])

\* A checkpoint pass fails for nothing but the raw query of a listing: paths and
\* the ids of videos are always written in a form that validate accepts.
FailsOnlyForQuery ==
    saved = "failed" =>
       \E u \in schedule \cup dead :
          u.path # "/watch" /\ (u.rest \cup {u.v}) \cap {"|", " "} # {}

=============================================================================
